--------------------- MODULE DeviceVerification_proofs ---------------------
(***************************************************************************)
(* Proofs about DeviceVerification for any devices, tokens, persons and    *)
(* secrets, and any number of requests and senders at work.                *)
(***************************************************************************)
EXTENDS DeviceVerification, TLAPS

(* A row that stands has a token and a secret.                             *)
GoodRow(r) ==
  /\ r \in Row
  /\ IF r.here # "none" THEN None \notin {r.token, r.secret}
     ELSE ~r.verified /\ r.subs = {}

RowsOK == row \in [Device -> Row] /\ \A d \in Device : GoodRow(row[d])

(* What a worker and a sender at work remember is a device, a credential   *)
(* and a token; the main credential is needed to write.                    *)
SendersOK ==
  /\ sender \in [Sender -> AtWork]
  /\ \A s \in Sender : sender[s].at # "idle" =>
       sender[s].dev \in Device /\ sender[s].token \in Token

RequestsOK ==
  /\ request \in [Worker -> Request]
  /\ \A w \in Worker : request[w].kind # "none" =>
       /\ request[w].dev \in Device /\ request[w].secret \in Secret
       /\ request[w].kind = "put" => request[w].token \in Token
       /\ request[w].kind \in {"put", "delete", "subscribe"} => request[w].main

TypeInv == RowsOK /\ SendersOK /\ RequestsOK

-----------------------------------------------------------------------------
(* Steps that write a row, answer a request, or move a sender.             *)

LEMMA RowWritten ==
  ASSUME RowsOK, NEW d \in Device, NEW r, GoodRow(r),
         row' \in {row, [row EXCEPT ![d] = r]}
  PROVE  RowsOK'
BY DEF RowsOK, GoodRow

LEMMA Answered ==
  ASSUME RequestsOK, NEW w \in Worker,
         request' = [request EXCEPT ![w] = NoRequest]
  PROVE  RequestsOK'
BY DEF RequestsOK, NoRequest, Request

LEMMA Rested ==
  ASSUME SendersOK, NEW s \in Sender, Rest(s)
  PROVE  SendersOK'
BY DEF SendersOK, Rest, Resting, AtWork

LEMMA Stepped ==
  ASSUME SendersOK, NEW s \in Sender, sender[s].at # "idle",
         NEW at \in {"claimed", "open", "delivered"}, Step(s, at)
  PROVE  SendersOK'
BY DEF SendersOK, Step, AtWork

LEMMA NewGood ==
  ASSUME NEW t \in Token, NEW x \in Secret
  PROVE  GoodRow([NoRow EXCEPT !.here = "live", !.token = t, !.secret = x,
                               !.asked = TRUE])
BY NoneAssumption DEF GoodRow, NoRow, Row

LEMMA NoRowGood == GoodRow(NoRow)
BY DEF GoodRow, NoRow, Row

LEMMA AskedGood ==
  ASSUME NEW r, GoodRow(r)
  PROVE  GoodRow(Asked(r)) /\ Asked(r).here = r.here
BY DEF GoodRow, Row, Asked

LEMMA AskedDropGood ==
  ASSUME NEW r, GoodRow(r)
  PROVE  GoodRow(AskedDrop(r)) /\ AskedDrop(r).here = r.here
BY AskedGood DEF GoodRow, Row, AskedDrop

LEMMA UpdatedGood ==
  ASSUME NEW r, GoodRow(r), NEW t \in Token
  PROVE  GoodRow(Updated(r, t))
<1> DEFINE q == AskedDrop(r)
<1>1. GoodRow(q)
  BY AskedDropGood
<1>2. GoodRow([q EXCEPT !.token = t, !.verified = FALSE, !.pending = None])
  <2> HIDE DEF q
  <2> QED BY <1>1, NoneAssumption DEF GoodRow, Row
<1> QED BY <1>2 DEF Updated, q

LEMMA FadedGood ==
  ASSUME NEW r, GoodRow(r)
  PROVE  /\ GoodRow([r EXCEPT !.young = FALSE])
         /\ GoodRow([r EXCEPT !.code = None, !.known = {}])
         /\ GoodRow([r EXCEPT !.asked = FALSE])
         /\ GoodRow([r EXCEPT !.fresh = FALSE])
         /\ GoodRow([r EXCEPT !.subs = {}])
         /\ GoodRow([r EXCEPT !.sent = TRUE])
BY DEF GoodRow, Row

(* The state keeps its type.                                               *)
THEOREM TypeInvariant == Spec => []TypeInv
<1>1. Init => TypeInv
  BY NoRowGood DEF Init, TypeInv, RowsOK, SendersOK, RequestsOK, GoodRow, Row,
     AtWork, Resting, Request, NoRequest
<1>2. TypeInv /\ [Next]_vars => TypeInv'
  <2> SUFFICES ASSUME TypeInv, [Next]_vars PROVE TypeInv'
      OBVIOUS
  <2>0. /\ RowsOK /\ SendersOK /\ RequestsOK
        /\ row' = row => RowsOK'
        /\ sender' = sender => SendersOK'
        /\ request' = request => RequestsOK'
        /\ \A d \in Device : GoodRow(row[d])
    BY DEF TypeInv, RowsOK, SendersOK, RequestsOK
  <2> SUFFICES RowsOK' /\ SendersOK' /\ RequestsOK'
      BY DEF TypeInv
  <2>1. ASSUME NEW d \in Device, NEW t \in Token, NEW x \in Secret,
               RegisterNew(d, t, x)
        PROVE  RowsOK' /\ SendersOK' /\ RequestsOK'
    BY <2>0, <2>1, NewGood, RowWritten DEF RegisterNew
  <2>2. ASSUME NEW d \in Device, NEW x \in Secret, RegisterKnown(d, x)
        PROVE  RowsOK' /\ SendersOK' /\ RequestsOK'
    <3> DEFINE q == Asked(row[d])
               r == [q EXCEPT !.here = "live", !.pending = x, !.fresh = TRUE]
    <3>1. GoodRow(q) /\ q.here # "none"
      BY <2>0, <2>2, AskedGood DEF RegisterKnown, Here
    <3>2. GoodRow(r)
      <4> HIDE DEF q
      <4> QED BY <3>1 DEF GoodRow, Row
    <3>3. row' = [row EXCEPT ![d] = r]
      BY <2>0, <2>2 DEF RegisterKnown, RowsOK
    <3>4. RowsOK'
      <4> HIDE DEF r
      <4> QED BY <2>0, <3>2, <3>3, RowWritten
    <3> QED BY <2>0, <2>2, <3>4 DEF RegisterKnown
  <2>3. ASSUME NEW w \in Worker, NEW d \in Device, NEW x \in Secret,
               NEW main \in BOOLEAN,
               NEW kind \in {"put", "delete", "verify", "resend", "subscribe"},
               NEW t \in Token \cup {None}, kind = "put" => t \in Token,
               Call(w, kind, d, x, main, t)
        PROVE  RowsOK' /\ SendersOK' /\ RequestsOK'
    BY <2>0, <2>3 DEF Call, Allowed, RequestsOK, Request
  <2>4. ASSUME NEW w \in Worker, NEW d \in Device, Put(w, d)
        PROVE  RowsOK' /\ SendersOK' /\ RequestsOK'
    <3> DEFINE r == Updated(row[d], request[w].token)
    <3>1. request' = [request EXCEPT ![w] = NoRequest] /\ sender' = sender
      BY <2>4 DEF Put, Refused, Done
    <3>2. GoodRow(r)
      BY <2>0, <2>4, UpdatedGood DEF Put, Asks, RequestsOK
    <3>3. row' \in {row, [row EXCEPT ![d] = r]}
      BY <2>0, <2>4 DEF Put, Refused, Done, RowsOK
    <3>4. RowsOK'
      <4> HIDE DEF r
      <4> QED BY <2>0, <3>2, <3>3, RowWritten
    <3> QED BY <2>0, <3>1, <3>4, Answered
  <2>5. ASSUME NEW w \in Worker, NEW d \in Device, Delete(w, d)
        PROVE  RowsOK' /\ SendersOK' /\ RequestsOK'
    <3>1. /\ request' = [request EXCEPT ![w] = NoRequest] /\ sender' = sender
          /\ row' \in {row, [row EXCEPT ![d] = NoRow]}
      BY <2>5 DEF Delete, Refused, Done
    <3> QED BY <2>0, <3>1, NoRowGood, RowWritten, Answered
  <2>6. ASSUME NEW w \in Worker, NEW d \in Device, Verify(w, d)
        PROVE  RowsOK' /\ SendersOK' /\ RequestsOK'
    <3> DEFINE q == row[d]
               proven == [q EXCEPT !.verified = TRUE, !.code = None, !.known = {},
                                   !.pending = None, !.fresh = FALSE]
               taken == [proven EXCEPT !.secret = q.pending]
    <3>1. request' = [request EXCEPT ![w] = NoRequest] /\ sender' = sender
      BY <2>6 DEF Verify, Refused, Done
    <3>2. CASE row' = row
      BY <2>0, <3>1, <3>2, Answered
    <3>3. CASE q.here # "none" /\ request[w].main /\ row' = [row EXCEPT ![d] = proven]
      <4>1. GoodRow(proven)
        <5> HIDE DEF q
        <5> QED BY <2>0, <3>3 DEF GoodRow, Row, q
      <4> HIDE DEF proven
      <4> QED BY <2>0, <3>1, <3>3, <4>1, RowWritten, Answered
    <3>4. CASE /\ q.here # "none" /\ q.pending \in Secret
               /\ row' = [row EXCEPT ![d] = taken]
      <4>1. GoodRow(q)
        BY <2>0
      <4>2. GoodRow(taken)
        <5> HIDE DEF q
        <5> QED BY <3>4, <4>1, NoneAssumption DEF GoodRow, Row
      <4> HIDE DEF taken
      <4> QED BY <2>0, <3>1, <3>4, <4>2, RowWritten, Answered
    <3>5. \/ row' = row
          \/ q.here # "none" /\ request[w].main /\ row' = [row EXCEPT ![d] = proven]
          \/ /\ q.here # "none" /\ q.pending \in Secret
             /\ row' = [row EXCEPT ![d] = taken]
      BY <2>0, <2>6 DEF Verify, Refused, Done, Asks, Here, Promotable, RequestsOK
    <3> QED BY <3>2, <3>3, <3>4, <3>5
  <2>7. ASSUME NEW w \in Worker, NEW d \in Device, Resend(w, d)
        PROVE  RowsOK' /\ SendersOK' /\ RequestsOK'
    <3>1. /\ request' = [request EXCEPT ![w] = NoRequest] /\ sender' = sender
          /\ row' \in {row, [row EXCEPT ![d] = AskedDropIfStale(row[d])]}
      BY <2>7 DEF Resend, Refused, Done
    <3>2. GoodRow(AskedDropIfStale(row[d]))
      BY <2>0, AskedGood, AskedDropGood DEF AskedDropIfStale
    <3> QED BY <2>0, <3>1, <3>2, RowWritten, Answered
  <2>8. ASSUME NEW w \in Worker, NEW d \in Device, Subscribe(w, d)
        PROVE  RowsOK' /\ SendersOK' /\ RequestsOK'
    <3> DEFINE q == row[d]
               r == [q EXCEPT !.subs = @ \cup {Caller(w)}]
    <3>1. request' = [request EXCEPT ![w] = NoRequest] /\ sender' = sender
      BY <2>8 DEF Subscribe, Refused, Done
    <3>2. Caller(w) \in Person
      BY <2>0, <2>8, PeopleAssumption DEF Subscribe, Asks, Caller, RequestsOK
    <3>3. \/ row' = row
          \/ q.here # "none" /\ row' = [row EXCEPT ![d] = r]
      BY <2>8 DEF Subscribe, Refused, Done, Here
    <3>4. q.here # "none" => GoodRow(r)
      <4>1. GoodRow(q)
        BY <2>0
      <4> HIDE DEF q
      <4> QED BY <3>2, <4>1 DEF GoodRow, Row
    <3>5. RowsOK'
      <4> HIDE DEF r, q
      <4> QED BY <2>0, <3>3, <3>4, RowWritten
    <3> QED BY <2>0, <3>1, <3>5, Answered
  <2>9. ASSUME NEW d \in Device, CodeAges(d) \/ Lapse(d) \/ EndSubs(d)
        PROVE  RowsOK' /\ SendersOK' /\ RequestsOK'
    <3> DEFINE Later == {[row[d] EXCEPT !.young = FALSE],
                         [row[d] EXCEPT !.code = None, !.known = {}],
                         [row[d] EXCEPT !.asked = FALSE],
                         [row[d] EXCEPT !.fresh = FALSE],
                         [row[d] EXCEPT !.subs = {}]}
    <3>1. PICK r \in Later : row' = [row EXCEPT ![d] = r]
      BY <2>9 DEF CodeAges, Lapse, EndSubs
    <3>2. GoodRow(r)
      BY <2>0, FadedGood
    <3>3. RowsOK'
      BY <2>0, <3>1, <3>2, RowWritten
    <3> QED BY <2>0, <2>9, <3>3 DEF CodeAges, Lapse, EndSubs
  <2>10. ASSUME NEW d \in Device, Prune(d)
         PROVE  RowsOK' /\ SendersOK' /\ RequestsOK'
    BY <2>0, <2>10, NoRowGood, RowWritten DEF Prune
  <2>11. ASSUME NEW s \in Sender, Stop(s)
         PROVE  RowsOK' /\ SendersOK' /\ RequestsOK'
    BY <2>0, <2>11, Rested DEF Stop
  <2>12. ASSUME NEW s \in Sender, NEW d \in Device, Pick(s, d)
         PROVE  RowsOK' /\ SendersOK' /\ RequestsOK'
    <3>1. row[d].token \in Token
      BY <2>0, <2>12 DEF Pick, Awaits, GoodRow, Row
    <3> QED BY <2>0, <2>12, <3>1 DEF Pick, SendersOK, AtWork
  <2>13. ASSUME NEW s \in Sender, NEW d \in Device, Claim(s, d)
         PROVE  RowsOK' /\ SendersOK' /\ RequestsOK'
    <3>1. RowsOK'
      BY <2>0, <2>13 DEF Claim, Here, RowsOK, GoodRow, Row
    <3> QED BY <2>0, <2>13, <3>1, Rested, Stepped DEF Claim
  <2>14. ASSUME NEW s \in Sender, NEW d \in Device, Open(s, d)
         PROVE  RowsOK' /\ SendersOK' /\ RequestsOK'
    BY <2>0, <2>14, Rested, Stepped DEF Open
  <2>15. ASSUME NEW s \in Sender, NEW d \in Device, Deliver(s, d)
         PROVE  RowsOK' /\ SendersOK' /\ RequestsOK'
    <3>1. Phone[sender[s].token] \in Person
      BY <2>0, <2>15, PeopleAssumption DEF Deliver, SendersOK
    <3>2. RowsOK'
      <4> DEFINE z == Phone[sender[s].token]
      <4>1. \/ row' = row
            \/ row' = [row EXCEPT ![d].known = @ \cup {z}]
        BY <2>15 DEF Deliver
      <4>2. z \in Person
        BY <3>1
      <4> HIDE DEF z
      <4> QED BY <2>0, <4>1, <4>2 DEF RowsOK, GoodRow, Row
    <3> QED BY <2>0, <2>15, <3>2, Stepped DEF Deliver
  <2>16. ASSUME NEW s \in Sender, NEW d \in Device, Mark(s, d)
         PROVE  RowsOK' /\ SendersOK' /\ RequestsOK'
    <3>1. row' \in {row, [row EXCEPT ![d] = [row[d] EXCEPT !.sent = TRUE]]}
      BY <2>16 DEF Mark
    <3>2. GoodRow([row[d] EXCEPT !.sent = TRUE])
      BY <2>0, FadedGood
    <3>3. RowsOK'
      BY <2>0, <3>1, <3>2, RowWritten
    <3> QED BY <2>0, <2>16, <3>3, Rested DEF Mark
  <2>17. ASSUME NEW s \in Sender, NEW d \in Device, Retire(s, d)
         PROVE  RowsOK' /\ SendersOK' /\ RequestsOK'
    <3>1. \/ row' = row
          \/ /\ row[d].here = "live"
             /\ row' = [row EXCEPT ![d].here = "retired", ![d].subs = {}]
      BY <2>17 DEF Retire
    <3>2. RowsOK'
      BY <2>0, <3>1 DEF RowsOK, GoodRow, Row
    <3> QED BY <2>0, <2>17, <3>2, Rested DEF Retire
  <2>18. CASE UNCHANGED vars
    BY <2>0, <2>18 DEF vars
  <2> QED
    BY <2>1, <2>2, <2>3, <2>4, <2>5, <2>6, <2>7, <2>8, <2>9, <2>10, <2>11, <2>12,
       <2>13, <2>14, <2>15, <2>16, <2>17, <2>18
       DEF Next, Register, Begin, Commit, Send
<1> QED BY <1>1, <1>2, PTL DEF Spec

(* No row that stands is without a token or a secret, and no row that does *)
(* not is verified or holds subscriptions.                                 *)
THEOREM TypeOKHolds == Spec => []TypeOK
<1>1. TypeInv => TypeOK
  BY DEF TypeInv, RowsOK, SendersOK, RequestsOK, GoodRow, TypeOK, Here
<1> QED BY <1>1, TypeInvariant, PTL

-----------------------------------------------------------------------------
(* A code has reached the phone of the row's own token, and what is pushed *)
(* while the row stores the code goes there.                               *)
CodeStays(d) ==
  /\ Here(d) => row[d].known \subseteq {Phone[row[d].token]}
  /\ \A s \in Sender :
       sender[s].at = "open" /\ sender[s].dev = d /\ row[d].code = s =>
         sender[s].token = row[d].token

(* A row in honest hands names its holder's token, and while a request of  *)
(* such a holder is under way nobody else takes the row.                   *)
HonestHands(d) ==
  /\ Here(d) /\ Holder[row[d].secret] \in Honest =>
       Phone[row[d].token] = Holder[row[d].secret]
  /\ \A w \in Worker :
       /\ request[w].kind # "none" /\ request[w].dev = d /\ request[w].main
       /\ Holder[request[w].secret] \in Honest
       => /\ Here(d) => Holder[row[d].secret] = Holder[request[w].secret]
          /\ request[w].kind = "put" =>
               Phone[request[w].token] = Holder[request[w].secret]

(* The verified bit and the subscriptions of a row, each by its owner.     *)
OwnedBy(d) ==
  /\ row[d].verified /\ Phone[row[d].token] \in Honest =>
       Holder[row[d].secret] = Phone[row[d].token]
  /\ \A p \in Honest : p \in row[d].subs => Holder[row[d].secret] = p

Owned == \A d \in Device : CodeStays(d) /\ HonestHands(d) /\ OwnedBy(d)

LEMMA AskedFields ==
  ASSUME NEW r \in Row, NEW q \in {Asked(r), AskedDrop(r), AskedDropIfStale(r)}
  PROVE  /\ q.here = r.here /\ q.token = r.token /\ q.secret = r.secret
         /\ q.verified = r.verified /\ q.subs = r.subs
         /\ \/ q.code = r.code /\ q.known = r.known
            \/ q.code = None /\ q.known = {}
<1>1. CASE q = Asked(r)
  BY <1>1 DEF Asked, Row
<1>2. CASE q = AskedDrop(r)
  BY <1>2 DEF AskedDrop, Asked, Row
<1> QED BY <1>1, <1>2 DEF AskedDropIfStale

LEMMA UpdatedFields ==
  ASSUME NEW r \in Row, NEW t
  PROVE  /\ Updated(r, t).here = r.here /\ Updated(r, t).token = t
         /\ Updated(r, t).secret = r.secret /\ Updated(r, t).verified = FALSE
         /\ Updated(r, t).subs = r.subs
         /\ Updated(r, t).code = None /\ Updated(r, t).known = {}
BY DEF Updated, AskedDrop, Asked, Row

(* A row that keeps its token and its secret, and gains nothing, stays as  *)
(* it was, and so it is when a request is answered.                        *)
LEMMA RowKept ==
  ASSUME NEW e \in Device, CodeStays(e), HonestHands(e), OwnedBy(e), RequestsOK,
         sender' = sender,
         request' = request \/ \E w \in Worker :
                                 request' = [request EXCEPT ![w] = NoRequest],
         row'[e].here # "none" => row[e].here # "none",
         row'[e].token = row[e].token, row'[e].secret = row[e].secret,
         row'[e].verified => row[e].verified, row'[e].subs \subseteq row[e].subs,
         row'[e].known \subseteq row[e].known, row'[e].code \in {row[e].code, None}
  PROVE  CodeStays(e)' /\ HonestHands(e)' /\ OwnedBy(e)'
<1>1. CodeStays(e)'
  BY NoneAssumption DEF CodeStays, Here
<1>2. HonestHands(e)'
  BY DEF HonestHands, Here, RequestsOK, NoRequest
<1>3. OwnedBy(e)'
  BY DEF OwnedBy
<1> QED BY <1>1, <1>2, <1>3

(* Whatever order codes, token changes, confirmations and retirements come *)
(* in, a row stays with the phone it names.                                *)
LEMMA OwnedInvariant == Spec => []Owned
<1>1. Init => Owned
  BY DEF Init, Owned, CodeStays, HonestHands, OwnedBy, NoRow, Resting, NoRequest, Here
<1>2. TypeInv /\ Owned /\ [Next]_vars => Owned'
  <2> SUFFICES ASSUME TypeInv, Owned, [Next]_vars, NEW e \in Device
               PROVE  (CodeStays(e) /\ HonestHands(e) /\ OwnedBy(e))'
      BY DEF Owned
  <2>0. /\ RowsOK /\ SendersOK /\ RequestsOK
        /\ CodeStays(e) /\ HonestHands(e) /\ OwnedBy(e)
        /\ row \in [Device -> Row] /\ GoodRow(row[e])
    BY DEF TypeInv, Owned, RowsOK
  <2> SUFFICES CodeStays(e)' /\ HonestHands(e)' /\ OwnedBy(e)'
      OBVIOUS
  <2>1. ASSUME NEW d \in Device, NEW t \in Token, NEW x \in Secret,
               RegisterNew(d, t, x)
        PROVE  CodeStays(e)' /\ HonestHands(e)' /\ OwnedBy(e)'
    <3>1. CodeStays(e)'
      BY <2>0, <2>1, PeopleAssumption, NoneAssumption
         DEF RegisterNew, NewId, NewSecret, MayName, CodeStays, RowsOK, GoodRow, Row, NoRow, SendersOK, AtWork, Resting, RequestsOK,
             Request, NoRequest, Here
    <3>2. HonestHands(e)'
      BY <2>0, <2>1, PeopleAssumption, NoneAssumption
         DEF RegisterNew, NewId, NewSecret, MayName, HonestHands, CodeStays, RowsOK, GoodRow, Row, NoRow, SendersOK, AtWork, Resting, RequestsOK,
             Request, NoRequest, Here
    <3>3. OwnedBy(e)'
      BY <2>0, <2>1, PeopleAssumption, NoneAssumption
         DEF RegisterNew, NewId, NewSecret, MayName, OwnedBy, CodeStays, HonestHands, RowsOK, GoodRow, Row, NoRow, SendersOK, AtWork, Resting, RequestsOK,
             Request, NoRequest, Here
    <3> QED BY <3>1, <3>2, <3>3
  <2>2. ASSUME NEW d \in Device, NEW x \in Secret,
               RegisterKnown(d, x)
        PROVE  CodeStays(e)' /\ HonestHands(e)' /\ OwnedBy(e)'
    <3>1. CodeStays(e)'
      BY <2>0, <2>2, PeopleAssumption, NoneAssumption
         DEF RegisterKnown, NewSecret, MayName, Asked, CodeStays, RowsOK, GoodRow, Row, NoRow, SendersOK, AtWork, Resting, RequestsOK,
             Request, NoRequest, Here
    <3>2. HonestHands(e)'
      BY <2>0, <2>2, PeopleAssumption, NoneAssumption
         DEF RegisterKnown, NewSecret, MayName, Asked, HonestHands, CodeStays, RowsOK, GoodRow, Row, NoRow, SendersOK, AtWork, Resting, RequestsOK,
             Request, NoRequest, Here
    <3>3. OwnedBy(e)'
      BY <2>0, <2>2, PeopleAssumption, NoneAssumption
         DEF RegisterKnown, NewSecret, MayName, Asked, OwnedBy, CodeStays, HonestHands, RowsOK, GoodRow, Row, NoRow, SendersOK, AtWork, Resting, RequestsOK,
             Request, NoRequest, Here
    <3> QED BY <3>1, <3>2, <3>3
  <2>3. ASSUME NEW w \in Worker, NEW kind \in {"delete", "verify", "resend", "subscribe"},
               NEW d \in Device, NEW x \in Secret, NEW main \in BOOLEAN,
               Call(w, kind, d, x, main, None)
        PROVE  CodeStays(e)' /\ HonestHands(e)' /\ OwnedBy(e)'
    <3>1. CodeStays(e)'
      BY <2>0, <2>3, PeopleAssumption, NoneAssumption
         DEF Call, Authenticates, Allowed, CodeStays, RowsOK, GoodRow, Row, NoRow, SendersOK, AtWork, Resting, RequestsOK,
             Request, NoRequest, Here
    <3>2. HonestHands(e)'
      BY <2>0, <2>3, PeopleAssumption, NoneAssumption
         DEF Call, Authenticates, Allowed, HonestHands, CodeStays, RowsOK, GoodRow, Row, NoRow, SendersOK, AtWork, Resting, RequestsOK,
             Request, NoRequest, Here
    <3>3. OwnedBy(e)'
      BY <2>0, <2>3, PeopleAssumption, NoneAssumption
         DEF Call, Authenticates, Allowed, OwnedBy, CodeStays, HonestHands, RowsOK, GoodRow, Row, NoRow, SendersOK, AtWork, Resting, RequestsOK,
             Request, NoRequest, Here
    <3> QED BY <3>1, <3>2, <3>3
  <2>4. ASSUME NEW w \in Worker, NEW d \in Device, NEW x \in Secret,
               NEW main \in BOOLEAN, NEW t \in Token,
               Call(w, "put", d, x, main, t)
        PROVE  CodeStays(e)' /\ HonestHands(e)' /\ OwnedBy(e)'
    <3>1. CodeStays(e)'
      BY <2>0, <2>4, PeopleAssumption, NoneAssumption
         DEF Call, Authenticates, Allowed, MayName, CodeStays, RowsOK, GoodRow, Row, NoRow, SendersOK, AtWork, Resting, RequestsOK,
             Request, NoRequest, Here
    <3>2. HonestHands(e)'
      BY <2>0, <2>4, PeopleAssumption, NoneAssumption
         DEF Call, Authenticates, Allowed, MayName, HonestHands, CodeStays, RowsOK, GoodRow, Row, NoRow, SendersOK, AtWork, Resting, RequestsOK,
             Request, NoRequest, Here
    <3>3. OwnedBy(e)'
      BY <2>0, <2>4, PeopleAssumption, NoneAssumption
         DEF Call, Authenticates, Allowed, MayName, OwnedBy, CodeStays, HonestHands, RowsOK, GoodRow, Row, NoRow, SendersOK, AtWork, Resting, RequestsOK,
             Request, NoRequest, Here
    <3> QED BY <3>1, <3>2, <3>3
  <2>5. ASSUME NEW w \in Worker, NEW d \in Device,
               Put(w, d)
        PROVE  CodeStays(e)' /\ HonestHands(e)' /\ OwnedBy(e)'
    <3>1. request' = [request EXCEPT ![w] = NoRequest] /\ sender' = sender
      BY <2>5 DEF Put, Refused, Done
    <3>2. CASE row'[e] = row[e]
      BY <2>0, <3>1, <3>2, RowKept
    <3>3. CASE /\ e = d /\ StillMain(w, d) /\ Asks(w, "put", d)
               /\ row'[e] = Updated(row[e], request[w].token)
      <4>1. /\ row'[e].here = row[e].here /\ row'[e].token = request[w].token
            /\ row'[e].secret = row[e].secret /\ row'[e].verified = FALSE
            /\ row'[e].subs = row[e].subs
            /\ row'[e].code = None /\ row'[e].known = {}
        <5>1. row[e] \in Row
          BY <2>0 DEF GoodRow
        <5> DEFINE r == row[e]
                   u == request[w].token
        <5>2. /\ Updated(r, u).here = r.here /\ Updated(r, u).token = u
              /\ Updated(r, u).secret = r.secret /\ Updated(r, u).verified = FALSE
              /\ Updated(r, u).subs = r.subs
              /\ Updated(r, u).code = None /\ Updated(r, u).known = {}
          <6> HIDE DEF r, u
          <6> QED BY <5>1, UpdatedFields DEF r
        <5> QED BY <3>3, <5>2
      <4>2. CodeStays(e)'
        BY <2>0, <3>1, <4>1, NoneAssumption DEF CodeStays, Here
      <4>3. HonestHands(e)'
        BY <2>0, <3>1, <3>3, <4>1
           DEF HonestHands, StillMain, Asks, RequestsOK, NoRequest, Here
      <4>4. OwnedBy(e)'
        BY <2>0, <4>1 DEF OwnedBy
      <4> QED BY <4>2, <4>3, <4>4
    <3> QED
      BY <2>0, <2>5, <3>2, <3>3 DEF Put, Refused, Done
  <2>6. ASSUME NEW w \in Worker, NEW d \in Device,
               Delete(w, d)
        PROVE  CodeStays(e)' /\ HonestHands(e)' /\ OwnedBy(e)'
    <3>1. request' = [request EXCEPT ![w] = NoRequest] /\ sender' = sender
      BY <2>6 DEF Delete, Refused, Done
    <3>2. CASE row'[e] = row[e]
      BY <2>0, <3>1, <3>2, RowKept
    <3>3. CASE row'[e] = NoRow
      BY <2>0, <3>1, <3>3, NoneAssumption
         DEF CodeStays, HonestHands, OwnedBy, NoRow, NoRequest, RequestsOK, Here
    <3> QED
      BY <2>0, <2>6, <3>2, <3>3 DEF Delete, Refused, Done
  <2>7. ASSUME NEW w \in Worker, NEW d \in Device,
               Verify(w, d)
        PROVE  CodeStays(e)' /\ HonestHands(e)' /\ OwnedBy(e)'
    <3>1. request' = [request EXCEPT ![w] = NoRequest] /\ sender' = sender
      BY <2>7 DEF Verify, Refused, Done
    <3>2. CASE row'[e] = row[e]
      BY <2>0, <3>1, <3>2, RowKept
    <3> DEFINE q == row[e]
               proven == [q EXCEPT !.verified = TRUE, !.code = None, !.known = {},
                                   !.pending = None, !.fresh = FALSE]
               taken == [proven EXCEPT !.secret = q.pending]
    <3>3. ASSUME e = d, Here(e), Asks(w, "verify", e), Caller(w) \in row[e].known,
                 \/ request[w].main /\ row'[e] = proven
                 \/ Promotable(w, q) /\ row'[e] = taken
          PROVE  CodeStays(e)' /\ HonestHands(e)' /\ OwnedBy(e)'
      <4>1. /\ row'[e].here = row[e].here /\ row'[e].token = row[e].token
            /\ row'[e].code = None /\ row'[e].known = {}
            /\ row'[e].subs = row[e].subs
            /\ \/ request[w].main /\ row'[e].secret = row[e].secret
               \/ row'[e].secret = request[w].secret
        <5>1. q \in Row
          BY <2>0 DEF GoodRow
        <5>2. /\ proven.here = q.here /\ proven.token = q.token
              /\ proven.code = None /\ proven.known = {} /\ proven.subs = q.subs
              /\ proven.secret = q.secret
              /\ taken.here = q.here /\ taken.token = q.token
              /\ taken.code = None /\ taken.known = {} /\ taken.subs = q.subs
              /\ taken.secret = q.pending
          <6> HIDE DEF q
          <6> QED BY <5>1 DEF Row
        <5> HIDE DEF proven, taken
        <5> QED BY <3>3, <5>2 DEF Promotable
      <4>2. Holder[request[w].secret] = Phone[row[e].token]
        BY <2>0, <3>3 DEF CodeStays, Caller, Here
      <4>3. Phone[row[e].token] \in Honest \/ Holder[row[e].secret] \in Honest =>
              Holder[row'[e].secret] = Phone[row[e].token]
        BY <2>0, <3>3, <4>1, <4>2 DEF HonestHands, Asks, Here
      <4>4. CodeStays(e)'
        BY <2>0, <3>1, <4>1, NoneAssumption DEF CodeStays, Here
      <4>5. HonestHands(e)'
        BY <2>0, <3>1, <3>3, <4>1, <4>2, <4>3
           DEF HonestHands, RequestsOK, NoRequest, Here
      <4>6. OwnedBy(e)'
        BY <2>0, <3>3, <4>1, <4>3 DEF OwnedBy, HonestHands, Here
      <4> QED BY <4>4, <4>5, <4>6
    <3> QED
      BY <2>0, <2>7, <3>2, <3>3 DEF Verify, Refused, Done, Asks
  <2>8. ASSUME NEW w \in Worker, NEW d \in Device,
               Resend(w, d)
        PROVE  CodeStays(e)' /\ HonestHands(e)' /\ OwnedBy(e)'
    <3>1. request' = [request EXCEPT ![w] = NoRequest] /\ sender' = sender
      BY <2>8 DEF Resend, Refused, Done
    <3>2. CASE row'[e] = row[e]
      BY <2>0, <3>1, <3>2, RowKept
    <3>3. CASE row'[e] = AskedDropIfStale(row[e])
      <4> DEFINE q == AskedDropIfStale(row[e])
      <4>1. row[e] \in Row
        BY <2>0 DEF GoodRow
      <4>2. /\ q.here = row[e].here /\ q.token = row[e].token
            /\ q.secret = row[e].secret /\ q.verified = row[e].verified
            /\ q.subs = row[e].subs
            /\ \/ q.code = row[e].code /\ q.known = row[e].known
               \/ q.code = None /\ q.known = {}
        BY <4>1, AskedFields
      <4> HIDE DEF q
      <4> QED BY <2>0, <3>1, <3>3, <4>2, RowKept DEF q
    <3> QED
      BY <2>0, <2>8, <3>2, <3>3 DEF Resend, Refused, Done
  <2>9. ASSUME NEW w \in Worker, NEW d \in Device,
               Subscribe(w, d)
        PROVE  CodeStays(e)' /\ HonestHands(e)' /\ OwnedBy(e)'
    <3>1. request' = [request EXCEPT ![w] = NoRequest] /\ sender' = sender
      BY <2>9 DEF Subscribe, Refused, Done
    <3>2. CASE row'[e] = row[e]
      BY <2>0, <3>1, <3>2, RowKept
    <3>3. CASE /\ e = d /\ Here(e) /\ Asks(w, "subscribe", e)
               /\ row'[e] = [row[e] EXCEPT !.subs = @ \cup {Caller(w)}]
      <4>1. /\ row'[e].here = row[e].here /\ row'[e].token = row[e].token
            /\ row'[e].secret = row[e].secret /\ row'[e].verified = row[e].verified
            /\ row'[e].code = row[e].code /\ row'[e].known = row[e].known
            /\ row'[e].subs = row[e].subs \cup {Caller(w)}
        BY <2>0, <3>3 DEF GoodRow, Row
      <4>2. CodeStays(e)'
        BY <2>0, <3>1, <4>1 DEF CodeStays, Here
      <4>3. HonestHands(e)'
        BY <2>0, <3>1, <4>1 DEF HonestHands, RequestsOK, NoRequest, Here
      <4>4. OwnedBy(e)'
        BY <2>0, <3>3, <4>1 DEF OwnedBy, HonestHands, Asks, Caller, RequestsOK, Here
      <4> QED BY <4>2, <4>3, <4>4
    <3> QED
      BY <2>0, <2>9, <3>2, <3>3 DEF Subscribe, Refused, Done
  <2>10. ASSUME NEW d \in Device,
               CodeAges(d)
        PROVE  CodeStays(e)' /\ HonestHands(e)' /\ OwnedBy(e)'
    <3>1. CodeStays(e)'
      BY <2>0, <2>10, PeopleAssumption, NoneAssumption
         DEF CodeAges, CodeStays, RowsOK, GoodRow, Row, NoRow, SendersOK, AtWork, Resting, RequestsOK,
             Request, NoRequest, Here
    <3>2. HonestHands(e)'
      BY <2>0, <2>10, PeopleAssumption, NoneAssumption
         DEF CodeAges, HonestHands, CodeStays, RowsOK, GoodRow, Row, NoRow, SendersOK, AtWork, Resting, RequestsOK,
             Request, NoRequest, Here
    <3>3. OwnedBy(e)'
      BY <2>0, <2>10, PeopleAssumption, NoneAssumption
         DEF CodeAges, OwnedBy, CodeStays, HonestHands, RowsOK, GoodRow, Row, NoRow, SendersOK, AtWork, Resting, RequestsOK,
             Request, NoRequest, Here
    <3> QED BY <3>1, <3>2, <3>3
  <2>11. ASSUME NEW d \in Device,
               Lapse(d)
        PROVE  CodeStays(e)' /\ HonestHands(e)' /\ OwnedBy(e)'
    <3>1. CASE row'[e] = row[e]
      BY <2>0, <2>11, <3>1, RowKept DEF Lapse
    <3>2. CASE row'[e] \in {[row[e] EXCEPT !.code = None, !.known = {}],
                            [row[e] EXCEPT !.asked = FALSE],
                            [row[e] EXCEPT !.fresh = FALSE]}
      <4>1. /\ row'[e].here = row[e].here /\ row'[e].token = row[e].token
            /\ row'[e].secret = row[e].secret /\ row'[e].verified = row[e].verified
            /\ row'[e].subs = row[e].subs /\ row'[e].known \subseteq row[e].known
            /\ row'[e].code \in {row[e].code, None}
        BY <2>0, <3>2 DEF GoodRow, Row
      <4> QED BY <2>0, <2>11, <4>1, RowKept DEF Lapse
    <3> QED
      BY <2>0, <2>11, <3>1, <3>2 DEF Lapse
  <2>12. ASSUME NEW d \in Device,
               EndSubs(d)
        PROVE  CodeStays(e)' /\ HonestHands(e)' /\ OwnedBy(e)'
    <3>1. CodeStays(e)'
      BY <2>0, <2>12, PeopleAssumption, NoneAssumption
         DEF EndSubs, CodeStays, RowsOK, GoodRow, Row, NoRow, SendersOK, AtWork, Resting, RequestsOK,
             Request, NoRequest, Here
    <3>2. HonestHands(e)'
      BY <2>0, <2>12, PeopleAssumption, NoneAssumption
         DEF EndSubs, HonestHands, CodeStays, RowsOK, GoodRow, Row, NoRow, SendersOK, AtWork, Resting, RequestsOK,
             Request, NoRequest, Here
    <3>3. OwnedBy(e)'
      BY <2>0, <2>12, PeopleAssumption, NoneAssumption
         DEF EndSubs, OwnedBy, CodeStays, HonestHands, RowsOK, GoodRow, Row, NoRow, SendersOK, AtWork, Resting, RequestsOK,
             Request, NoRequest, Here
    <3> QED BY <3>1, <3>2, <3>3
  <2>13. ASSUME NEW d \in Device,
               Prune(d)
        PROVE  CodeStays(e)' /\ HonestHands(e)' /\ OwnedBy(e)'
    <3>1. CodeStays(e)'
      BY <2>0, <2>13, PeopleAssumption, NoneAssumption
         DEF Prune, CodeStays, RowsOK, GoodRow, Row, NoRow, SendersOK, AtWork, Resting, RequestsOK,
             Request, NoRequest, Here
    <3>2. HonestHands(e)'
      BY <2>0, <2>13, PeopleAssumption, NoneAssumption
         DEF Prune, HonestHands, CodeStays, RowsOK, GoodRow, Row, NoRow, SendersOK, AtWork, Resting, RequestsOK,
             Request, NoRequest, Here
    <3>3. OwnedBy(e)'
      BY <2>0, <2>13, PeopleAssumption, NoneAssumption
         DEF Prune, OwnedBy, CodeStays, HonestHands, RowsOK, GoodRow, Row, NoRow, SendersOK, AtWork, Resting, RequestsOK,
             Request, NoRequest, Here
    <3> QED BY <3>1, <3>2, <3>3
  <2>14. ASSUME NEW s \in Sender,
               Stop(s)
        PROVE  CodeStays(e)' /\ HonestHands(e)' /\ OwnedBy(e)'
    <3>1. CodeStays(e)'
      BY <2>0, <2>14, PeopleAssumption, NoneAssumption
         DEF Stop, Rest, CodeStays, RowsOK, GoodRow, Row, NoRow, SendersOK, AtWork, Resting, RequestsOK,
             Request, NoRequest, Here
    <3>2. HonestHands(e)'
      BY <2>0, <2>14, PeopleAssumption, NoneAssumption
         DEF Stop, Rest, HonestHands, CodeStays, RowsOK, GoodRow, Row, NoRow, SendersOK, AtWork, Resting, RequestsOK,
             Request, NoRequest, Here
    <3>3. OwnedBy(e)'
      BY <2>0, <2>14, PeopleAssumption, NoneAssumption
         DEF Stop, Rest, OwnedBy, CodeStays, HonestHands, RowsOK, GoodRow, Row, NoRow, SendersOK, AtWork, Resting, RequestsOK,
             Request, NoRequest, Here
    <3> QED BY <3>1, <3>2, <3>3
  <2>15. ASSUME NEW s \in Sender, NEW d \in Device,
               Pick(s, d)
        PROVE  CodeStays(e)' /\ HonestHands(e)' /\ OwnedBy(e)'
    <3>1. CodeStays(e)'
      BY <2>0, <2>15, PeopleAssumption, NoneAssumption
         DEF Pick, Awaits, CodeStays, RowsOK, GoodRow, Row, NoRow, SendersOK, AtWork, Resting, RequestsOK,
             Request, NoRequest, Here
    <3>2. HonestHands(e)'
      BY <2>0, <2>15, PeopleAssumption, NoneAssumption
         DEF Pick, Awaits, HonestHands, CodeStays, RowsOK, GoodRow, Row, NoRow, SendersOK, AtWork, Resting, RequestsOK,
             Request, NoRequest, Here
    <3>3. OwnedBy(e)'
      BY <2>0, <2>15, PeopleAssumption, NoneAssumption
         DEF Pick, Awaits, OwnedBy, CodeStays, HonestHands, RowsOK, GoodRow, Row, NoRow, SendersOK, AtWork, Resting, RequestsOK,
             Request, NoRequest, Here
    <3> QED BY <3>1, <3>2, <3>3
  <2>16. ASSUME NEW s \in Sender, NEW d \in Device,
               Claim(s, d)
        PROVE  CodeStays(e)' /\ HonestHands(e)' /\ OwnedBy(e)'
    <3>1. CodeStays(e)'
      BY <2>0, <2>16, PeopleAssumption, NoneAssumption
         DEF Claim, Step, Rest, CodeStays, RowsOK, GoodRow, Row, NoRow, SendersOK, AtWork, Resting, RequestsOK,
             Request, NoRequest, Here
    <3>2. HonestHands(e)'
      BY <2>0, <2>16, PeopleAssumption, NoneAssumption
         DEF Claim, Step, Rest, HonestHands, CodeStays, RowsOK, GoodRow, Row, NoRow, SendersOK, AtWork, Resting, RequestsOK,
             Request, NoRequest, Here
    <3>3. OwnedBy(e)'
      BY <2>0, <2>16, PeopleAssumption, NoneAssumption
         DEF Claim, Step, Rest, OwnedBy, CodeStays, HonestHands, RowsOK, GoodRow, Row, NoRow, SendersOK, AtWork, Resting, RequestsOK,
             Request, NoRequest, Here
    <3> QED BY <3>1, <3>2, <3>3
  <2>17. ASSUME NEW s \in Sender, NEW d \in Device,
               Open(s, d)
        PROVE  CodeStays(e)' /\ HonestHands(e)' /\ OwnedBy(e)'
    <3>1. /\ row' = row /\ request' = request
          /\ \A z \in Sender \ {s} : sender'[z] = sender[z]
          /\ \/ sender'[s] = Resting
             \/ sender'[s].dev = d /\ sender'[s].token = row[d].token
      <4>1. sender \in [Sender -> AtWork] /\ sender[s] \in AtWork
        BY <2>0 DEF SendersOK
      <4>2. CASE Rest(s)
        BY <2>17, <4>1, <4>2 DEF Open, Rest
      <4>3. CASE SameToken(s, d) /\ Step(s, "open")
        <5>1. sender'[s] = [sender[s] EXCEPT !.at = "open"]
          BY <4>1, <4>3 DEF Step
        <5>2. sender'[s].dev = sender[s].dev /\ sender'[s].token = sender[s].token
          BY <4>1, <5>1 DEF AtWork
        <5> QED BY <2>17, <4>1, <4>3, <5>2 DEF Open, Step, SameToken
      <4> QED BY <2>17, <4>2, <4>3 DEF Open
    <3>2. CodeStays(e)'
      BY <2>0, <3>1 DEF CodeStays, Here, Resting
    <3> QED BY <2>0, <3>1, <3>2 DEF HonestHands, OwnedBy, Here
  <2>18. ASSUME NEW s \in Sender, NEW d \in Device,
               Deliver(s, d)
        PROVE  CodeStays(e)' /\ HonestHands(e)' /\ OwnedBy(e)'
    <3>1. CodeStays(e)'
      BY <2>0, <2>18, PeopleAssumption, NoneAssumption
         DEF Deliver, Step, CodeStays, RowsOK, GoodRow, Row, NoRow, SendersOK, AtWork, Resting, RequestsOK,
             Request, NoRequest, Here
    <3>2. HonestHands(e)'
      BY <2>0, <2>18, PeopleAssumption, NoneAssumption
         DEF Deliver, Step, HonestHands, CodeStays, RowsOK, GoodRow, Row, NoRow, SendersOK, AtWork, Resting, RequestsOK,
             Request, NoRequest, Here
    <3>3. OwnedBy(e)'
      BY <2>0, <2>18, PeopleAssumption, NoneAssumption
         DEF Deliver, Step, OwnedBy, CodeStays, HonestHands, RowsOK, GoodRow, Row, NoRow, SendersOK, AtWork, Resting, RequestsOK,
             Request, NoRequest, Here
    <3> QED BY <3>1, <3>2, <3>3
  <2>19. ASSUME NEW s \in Sender, NEW d \in Device,
               Mark(s, d)
        PROVE  CodeStays(e)' /\ HonestHands(e)' /\ OwnedBy(e)'
    <3>1. CodeStays(e)'
      BY <2>0, <2>19, PeopleAssumption, NoneAssumption
         DEF Mark, Rest, CodeStays, RowsOK, GoodRow, Row, NoRow, SendersOK, AtWork, Resting, RequestsOK,
             Request, NoRequest, Here
    <3>2. HonestHands(e)'
      BY <2>0, <2>19, PeopleAssumption, NoneAssumption
         DEF Mark, Rest, HonestHands, CodeStays, RowsOK, GoodRow, Row, NoRow, SendersOK, AtWork, Resting, RequestsOK,
             Request, NoRequest, Here
    <3>3. OwnedBy(e)'
      BY <2>0, <2>19, PeopleAssumption, NoneAssumption
         DEF Mark, Rest, OwnedBy, CodeStays, HonestHands, RowsOK, GoodRow, Row, NoRow, SendersOK, AtWork, Resting, RequestsOK,
             Request, NoRequest, Here
    <3> QED BY <3>1, <3>2, <3>3
  <2>20. ASSUME NEW s \in Sender, NEW d \in Device,
               Retire(s, d)
        PROVE  CodeStays(e)' /\ HonestHands(e)' /\ OwnedBy(e)'
    <3>1. CodeStays(e)'
      BY <2>0, <2>20, PeopleAssumption, NoneAssumption
         DEF Retire, Rest, SameToken, CodeStays, RowsOK, GoodRow, Row, NoRow, SendersOK, AtWork, Resting, RequestsOK,
             Request, NoRequest, Here
    <3>2. HonestHands(e)'
      BY <2>0, <2>20, PeopleAssumption, NoneAssumption
         DEF Retire, Rest, SameToken, HonestHands, CodeStays, RowsOK, GoodRow, Row, NoRow, SendersOK, AtWork, Resting, RequestsOK,
             Request, NoRequest, Here
    <3>3. OwnedBy(e)'
      BY <2>0, <2>20, PeopleAssumption, NoneAssumption
         DEF Retire, Rest, SameToken, OwnedBy, CodeStays, HonestHands, RowsOK, GoodRow, Row, NoRow, SendersOK, AtWork, Resting, RequestsOK,
             Request, NoRequest, Here
    <3> QED BY <3>1, <3>2, <3>3
  <2>21. CASE UNCHANGED vars
    BY <2>0, <2>21, PeopleAssumption, NoneAssumption
         DEF vars, CodeStays, HonestHands, OwnedBy, RowsOK, GoodRow, Row, NoRow, SendersOK, AtWork, Resting, RequestsOK,
             Request, NoRequest, Here
  <2> QED
    BY <2>1, <2>2, <2>3, <2>4, <2>5, <2>6, <2>7, <2>8, <2>9, <2>10, <2>11, <2>12, <2>13, <2>14, <2>15, <2>16, <2>17, <2>18, <2>19, <2>20, <2>21
       DEF Next, Register, Begin, Commit, Send
<1> QED BY <1>1, <1>2, TypeInvariant, PTL DEF Spec

(* The bit follows the token: pushes for an honest person's phone are the  *)
(* affair of nobody else.                                                  *)
THEOREM BitFollowsTokenHolds == Spec => []BitFollowsToken
<1>1. TypeInv /\ Owned => BitFollowsToken
  <2> SUFFICES ASSUME TypeInv, Owned, NEW d \in Device, row[d].verified,
                      Honest \cap {Holder[row[d].secret], Phone[row[d].token]} # {}
               PROVE  Holder[row[d].secret] = Phone[row[d].token]
      BY DEF BitFollowsToken
  <2>1. CodeStays(d) /\ HonestHands(d) /\ OwnedBy(d) /\ GoodRow(row[d])
    BY DEF Owned, TypeInv, RowsOK
  <2> QED BY <2>1 DEF HonestHands, OwnedBy, GoodRow, Here
<1> QED BY <1>1, TypeInvariant, OwnedInvariant, PTL

(* Subscriptions stay with the honest person who made them.                *)
THEOREM SubsStayHolds == Spec => []SubsStayWithTheirOwner
<1>1. Owned => SubsStayWithTheirOwner
  BY DEF Owned, OwnedBy, SubsStayWithTheirOwner
<1> QED BY <1>1, OwnedInvariant, PTL

-----------------------------------------------------------------------------
(* What may become of a verified row in honest hands.                      *)
Access(d) ==
  row[d].verified /\ Holder[row[d].secret] \in Honest =>
    \/ row'[d].verified /\ Holder[row'[d].secret] = Holder[row[d].secret]
    \/ \E w \in Worker : /\ request[w].kind \in {"put", "delete"}
                         /\ request[w].secret = row[d].secret
                         /\ request'[w] = NoRequest
    \/ row'[d] = NoRow /\ row[d].subs = {}

(* No step of a stranger, and none of a sender or of housekeeping, takes a *)
(* verified row from the honest person who holds it.                       *)
THEOREM AccessHolds == Spec => AccessOutlivesStrangers
<1>1. TypeInv /\ Owned /\ [Next]_vars => [\A d \in Device : Access(d)]_vars
  <2> SUFFICES ASSUME TypeInv, Owned, [Next]_vars, NEW e \in Device
               PROVE  Access(e)
      OBVIOUS
  <2>0. /\ row \in [Device -> Row] /\ GoodRow(row[e]) /\ row[e] \in Row
        /\ request \in [Worker -> Request]
        /\ CodeStays(e) /\ HonestHands(e)
    BY DEF TypeInv, Owned, RowsOK, RequestsOK, GoodRow
  <2>1. row'[e] = row[e] => Access(e)
    BY DEF Access
  <2>2. row'[e].verified = row[e].verified /\ row'[e].secret = row[e].secret => Access(e)
    BY DEF Access
  <2>3. ASSUME NEW d \in Device, NEW t \in Token, NEW x \in Secret,
               RegisterNew(d, t, x)
        PROVE  Access(e)
    BY <2>0, <2>1, <2>3 DEF RegisterNew, NewId, GoodRow, Access
  <2>4. ASSUME NEW d \in Device, NEW x \in Secret, RegisterKnown(d, x)
        PROVE  Access(e)
    <3>1. row'[e] = row[e] \/ row'[e] = [Asked(row[e]) EXCEPT !.here = "live", !.pending = x,
                                                !.fresh = TRUE]
      BY <2>0, <2>4 DEF RegisterKnown
    <3> QED BY <2>0, <2>1, <2>2, <3>1 DEF Asked, Row
  <2>5. ASSUME NEW w \in Worker, NEW d \in Device, Put(w, d) \/ Delete(w, d)
        PROVE  Access(e)
    BY <2>0, <2>1, <2>5 DEF Put, Delete, Refused, Done, Asks, StillMain, Access
  <2>6. ASSUME NEW w \in Worker, NEW d \in Device, Verify(w, d)
        PROVE  Access(e)
    <3> DEFINE q == row[e]
               proven == [q EXCEPT !.verified = TRUE, !.code = None, !.known = {},
                                   !.pending = None, !.fresh = FALSE]
               taken == [proven EXCEPT !.secret = q.pending]
    <3>1. /\ proven.verified /\ proven.secret = q.secret
          /\ taken.verified /\ taken.secret = q.pending
      <4> HIDE DEF q
      <4> QED BY <2>0 DEF Row, q
    <3>2. CASE q.here # "none" /\ Caller(w) \in q.known /\ Promotable(w, q) /\ row'[e] = taken
      <4>1. Holder[q.pending] = Phone[q.token]
        BY <2>0, <3>2 DEF CodeStays, Caller, Promotable, Here
      <4> HIDE DEF taken
      <4> QED BY <2>0, <3>1, <3>2, <4>1 DEF HonestHands, Here, Access
    <3>3. CASE row'[e] = proven
      <4> HIDE DEF proven
      <4> QED BY <3>1, <3>3 DEF Access
    <3> QED
      BY <2>0, <2>1, <2>6, <3>2, <3>3 DEF Verify, Refused, Done, Here
  <2>7. ASSUME NEW w \in Worker, NEW d \in Device, Resend(w, d)
        PROVE  Access(e)
    <3>1. row'[e] = row[e] \/ row'[e] = AskedDropIfStale(row[e])
      BY <2>0, <2>7 DEF Resend, Refused, Done
    <3>2. CASE row'[e] = AskedDropIfStale(row[e])
      <4> DEFINE q == AskedDropIfStale(row[e])
      <4>1. q.verified = row[e].verified /\ q.secret = row[e].secret
        BY <2>0, AskedFields
      <4> HIDE DEF q
      <4> QED BY <2>2, <3>2, <4>1 DEF q
    <3> QED BY <2>1, <3>1, <3>2
  <2>8. ASSUME NEW w \in Worker, NEW d \in Device, Subscribe(w, d)
        PROVE  Access(e)
    <3>1. row'[e] = row[e] \/ row'[e] = [row[e] EXCEPT !.subs = @ \cup {Caller(w)}]
      BY <2>0, <2>8 DEF Subscribe, Refused, Done
    <3> QED BY <2>0, <2>1, <2>2, <3>1 DEF Row
  <2>9. ASSUME NEW d \in Device, CodeAges(d) \/ Lapse(d) \/ EndSubs(d)
        PROVE  Access(e)
    <3>1. row'[e] \in {row[e], [row[e] EXCEPT !.young = FALSE],
                       [row[e] EXCEPT !.code = None, !.known = {}],
                       [row[e] EXCEPT !.asked = FALSE],
                       [row[e] EXCEPT !.fresh = FALSE], [row[e] EXCEPT !.subs = {}]}
      BY <2>0, <2>9 DEF CodeAges, Lapse, EndSubs
    <3> QED BY <2>0, <2>2, <3>1 DEF Row
  <2>10. ASSUME NEW d \in Device, Prune(d)
         PROVE  Access(e)
    BY <2>0, <2>1, <2>10 DEF Prune, Access
  <2>11. ASSUME NEW s \in Sender, NEW d \in Device,
                Pick(s, d) \/ Open(s, d)
         PROVE  Access(e)
    BY <2>1, <2>11 DEF Pick, Open
  <2>12. ASSUME NEW s \in Sender, NEW d \in Device,
                Claim(s, d) \/ Deliver(s, d) \/ Mark(s, d) \/ Retire(s, d)
         PROVE  Access(e)
    <3>1. row'[e] \in {row[e], [row[e] EXCEPT !.code = s, !.known = {}, !.young = TRUE],
                       [row[e] EXCEPT !.known = @ \cup {Phone[sender[s].token]}],
                       [row[e] EXCEPT !.sent = TRUE],
                       [row[e] EXCEPT !.here = "retired", !.subs = {}]}
      BY <2>0, <2>12 DEF Claim, Deliver, Mark, Retire
    <3> QED BY <2>0, <2>2, <3>1 DEF Row
  <2>13. ASSUME NEW w \in Worker, Begin(w)
         PROVE  Access(e)
    BY <2>1, <2>13 DEF Begin, Call
  <2>14. ASSUME NEW s \in Sender, Stop(s)
         PROVE  Access(e)
    BY <2>1, <2>14 DEF Stop
  <2>15. CASE UNCHANGED vars
    BY <2>1, <2>15 DEF vars
  <2> QED
    BY <2>3, <2>4, <2>5, <2>6, <2>7, <2>8, <2>9, <2>10, <2>11, <2>12, <2>13, <2>14,
       <2>15 DEF Next, Register, Commit, Send
<1> QED
  BY <1>1, TypeInvariant, OwnedInvariant, PTL DEF Spec, AccessOutlivesStrangers, Access
=============================================================================
