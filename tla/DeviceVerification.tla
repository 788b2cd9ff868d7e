------------------------- MODULE DeviceVerification -------------------------
(***************************************************************************)
(* Who a push device belongs to: registration, the verification by a code  *)
(* pushed to the token, the change of tokens, the two credentials of a     *)
(* row (app/api.py and app/repo.py), and the senders of the codes, which   *)
(* run beside the handlers in the web workers and in the poller            *)
(* (app/push.py, send_verifications).                                      *)
(*                                                                         *)
(* A token is an address: whoever knows it can register it, but only the   *)
(* phone behind it receives what is pushed to it.  Secrets and codes are   *)
(* random, so nobody guesses one: a secret belongs to the caller it was    *)
(* handed to, and a code is known to the phones it reached.                *)
(*                                                                         *)
(* A handler is two steps, the authentication that reads the row and the   *)
(* transaction that writes it.  How often a code may be sent is the matter *)
(* of VerifyBudget; here a sender may go for every row that waits.         *)
(***************************************************************************)
EXTENDS Naturals, FiniteSets

CONSTANTS Device,      \* row ids of push_devices
          Token,       \* push tokens
          Person,      \* who calls the API
          Phone,       \* the person whose phone a token reaches
          Honest,      \* persons whose app names its own phone's tokens only
          Secret,      \* secrets the server hands out
          Holder,      \* the person a secret was handed to
          Worker,      \* web workers handling a request
          Sender,      \* processes that send codes: web workers, the poller
          None,
          MaxInFlight  \* bound: requests and senders at work at a time

ASSUME PeopleAssumption == /\ Phone \in [Token -> Person]
                           /\ Holder \in [Secret -> Person]
                           /\ Honest \subseteq Person
ASSUME NoneAssumption == None \notin Secret \cup Sender \cup Token \cup Device
ASSUME InFlightAssumption == /\ IsFiniteSet(Sender) /\ IsFiniteSet(Worker)
                             /\ MaxInFlight \in Nat

VARIABLES
  row,       \* push_devices
  sender,    \* a verification sender at work, and what it read
  request    \* a worker's handler between authentication and transaction

vars == <<row, sender, request>>

(* A row: here "none" (no row), "live" or "retired"; the token it names;   *)
(* secret and pending, the two secrets; fresh: the pending one is not a    *)
(* day old; verified; code: whose code's hash is stored; known: the        *)
(* persons that code has reached; young: it was made in the last minute;   *)
(* asked: its push was requested within a day; sent: and delivered; subs:  *)
(* the persons who subscribed here.                                        *)
Row == [here: {"none", "live", "retired"}, token: Token \cup {None},
        secret: Secret \cup {None}, pending: Secret \cup {None}, fresh: BOOLEAN,
        verified: BOOLEAN, code: Sender \cup {None}, known: SUBSET Person,
        young: BOOLEAN, asked: BOOLEAN, sent: BOOLEAN, subs: SUBSET Person]

NoRow == [here |-> "none", token |-> None, secret |-> None, pending |-> None,
          fresh |-> FALSE, verified |-> FALSE, code |-> None, known |-> {},
          young |-> FALSE, asked |-> FALSE, sent |-> FALSE, subs |-> {}]

AtWork == [at: {"idle", "picked", "claimed", "open", "delivered"},
           dev: Device \cup {None}, token: Token \cup {None}]
Resting == [at |-> "idle", dev |-> None, token |-> None]

Request == [kind: {"none", "put", "delete", "verify", "resend", "subscribe"},
            dev: Device \cup {None}, secret: Secret \cup {None},
            main: BOOLEAN, token: Token \cup {None}]
NoRequest == [kind |-> "none", dev |-> None, secret |-> None, main |-> FALSE,
              token |-> None]

-----------------------------------------------------------------------------
InFlight == Cardinality({s \in Sender : sender[s].at # "idle"})
              + Cardinality({w \in Worker : request[w] # NoRequest})

Here(d) == row[d].here # "none"

(* Ids are not reused (AUTOINCREMENT): an id counts as new again only when *)
(* nothing at work remembers it.                                           *)
NewId(d) == /\ row[d].here = "none"
            /\ \A s \in Sender : sender[s].dev # d
            /\ \A w \in Worker : request[w].dev # d

(* secrets.token_urlsafe: never one that is in use.                        *)
NewSecret(x) == /\ \A d \in Device : x \notin {row[d].secret, row[d].pending}
                /\ \A w \in Worker : request[w].secret # x

(* request_verification, with what each caller says of the stored code.    *)
Asked(r) == [r EXCEPT !.asked = TRUE, !.sent = FALSE]
AskedDrop(r) == [Asked(r) EXCEPT !.code = None, !.known = {}, !.young = FALSE]
AskedDropIfStale(r) == IF r.young THEN Asked(r) ELSE AskedDrop(r)

-----------------------------------------------------------------------------
(* POST /devices needs no credential.                                      *)

MayName(p, t) == p \in Honest => Phone[t] = p

(* A token no row holds.                                                   *)
RegisterNew(d, t, x) ==
  /\ NewId(d) /\ NewSecret(x) /\ MayName(Holder[x], t)
  /\ \A e \in Device : Here(e) => row[e].token # t
  /\ row' = [row EXCEPT ![d] = [NoRow EXCEPT !.here = "live", !.token = t,
                                             !.secret = x, !.asked = TRUE]]
  /\ UNCHANGED <<sender, request>>

(* Mutant: on a row that is not verified the secret is rotated.            *)
RegisterKnownRotates(d, x) ==
  /\ Here(d) /\ NewSecret(x) /\ MayName(Holder[x], row[d].token)
  /\ row' = [row EXCEPT ![d] =
       IF @.verified
       THEN [Asked(@) EXCEPT !.here = "live", !.pending = x, !.fresh = TRUE]
       ELSE [Asked(@) EXCEPT !.here = "live", !.secret = x]]
  /\ UNCHANGED <<sender, request>>

(* A known token: the row comes back to life, the new secret is pending,   *)
(* and everything else stays as it is.                                     *)
RegisterKnown(d, x) ==
  /\ Here(d) /\ NewSecret(x) /\ MayName(Holder[x], row[d].token)
  /\ row' = [row EXCEPT ![d] = [Asked(@) EXCEPT !.here = "live", !.pending = x,
                                                !.fresh = TRUE]]
  /\ UNCHANGED <<sender, request>>

-----------------------------------------------------------------------------
(* The credential of a request, read outside its transaction: the main     *)
(* secret, or the pending one while it is fresh; 410 for a retired row.    *)
Authenticates(d, x, main) ==
  /\ row[d].here = "live"
  /\ IF main THEN row[d].secret = x ELSE row[d].pending = x /\ row[d].fresh

(* device_owner for PUT and DELETE, any_credential for the verify routes,  *)
(* authenticated for the subscriptions.  A verified credential's post      *)
(* matters only while a pending secret is there, and its resend never.     *)
Allowed(kind, r, main) ==
  CASE kind \in {"put", "delete"} -> main
    [] kind = "subscribe"         -> main /\ r.verified
    [] kind = "verify"            -> main /\ r.verified => r.pending # None
    [] OTHER                      -> ~(main /\ r.verified)

Call(w, kind, d, x, main, t) ==
  /\ request[w] = NoRequest /\ InFlight < MaxInFlight
  /\ Authenticates(d, x, main)
  /\ Allowed(kind, row[d], main)
  /\ kind = "put" => t # row[d].token /\ MayName(Holder[x], t)
  /\ request' = [request EXCEPT ![w] = [kind |-> kind, dev |-> d, secret |-> x,
                                        main |-> main, token |-> t]]
  /\ UNCHANGED <<row, sender>>

(* 401, 409, 400: nothing is written.                                      *)
Refused(w) ==
  /\ request' = [request EXCEPT ![w] = NoRequest]
  /\ UNCHANGED <<row, sender>>

Caller(w) == Holder[request[w].secret]
Asks(w, kind, d) == request[w].kind = kind /\ request[w].dev = d
Done(w, d, r) == /\ row' = [row EXCEPT ![d] = r]
                 /\ request' = [request EXCEPT ![w] = NoRequest]
                 /\ UNCHANGED sender

(* Mutant: the row is found by its id alone.                               *)
StillMainById(w, d) == Here(d)

(* WHERE id = ? AND secret_hash = ?                                        *)
StillMain(w, d) == Here(d) /\ row[d].secret = request[w].secret

(* update_device with a new token: unverified, the code and the pending    *)
(* secret gone, a new request stamped.                                     *)
Updated(r, t) ==
  [AskedDrop(r) EXCEPT !.token = t, !.verified = FALSE, !.pending = None]

(* The transaction of PUT /device: only while the secret is still the main *)
(* one, and no other row holds the token.                                  *)
Put(w, d) ==
  LET r == row[d]
      t == request[w].token
  IN /\ Asks(w, "put", d)
     /\ IF \/ ~StillMain(w, d)
           \/ \E e \in Device \ {d} : Here(e) /\ row[e].token = t
        THEN Refused(w)
        ELSE Done(w, d, IF t = r.token THEN r ELSE Updated(r, t))

(* DELETE /device: the row and, by cascade, its subscriptions.             *)
Delete(w, d) ==
  /\ Asks(w, "delete", d)
  /\ IF StillMain(w, d) THEN Done(w, d, NoRow) ELSE Refused(w)

(* A pending caller's secret is promoted only while it is the pending one. *)
Promotable(w, r) == r.pending = request[w].secret

(* POST /device/verify: with the stored code, the main holder verifies the *)
(* row and drops the pending secret; the pending holder takes the row.     *)
Verify(w, d) ==
  LET r == row[d]
      proven == [r EXCEPT !.verified = TRUE, !.code = None, !.known = {},
                          !.pending = None, !.fresh = FALSE]
  IN /\ Asks(w, "verify", d)
     /\ IF \/ ~Here(d) \/ r.code = None
           \/ Caller(w) \notin r.known
           \/ ~request[w].main /\ ~Promotable(w, r)
        THEN Refused(w)
        ELSE Done(w, d, IF request[w].main THEN proven
                     ELSE [proven EXCEPT !.secret = r.pending])

(* POST /device/verify/resend stamps the row by its id alone.              *)
Resend(w, d) ==
  /\ Asks(w, "resend", d)
  /\ IF Here(d) THEN Done(w, d, AskedDropIfStale(row[d]))
     ELSE Refused(w)

(* POST /subscriptions inserts by the row's id alone.                      *)
Subscribe(w, d) ==
  /\ Asks(w, "subscribe", d)
  /\ IF Here(d)
     THEN Done(w, d, [row[d] EXCEPT !.subs = @ \cup {Caller(w)}])
     ELSE Refused(w)

-----------------------------------------------------------------------------
(* A sender of codes.                                                      *)

Awaits(r) == /\ r.here = "live" /\ r.asked /\ ~r.sent
             /\ ~r.verified \/ r.pending # None

Step(s, at) == sender' = [sender EXCEPT ![s].at = at]
Rest(s) == sender' = [sender EXCEPT ![s] = Resting]

(* devices_awaiting_verification: the row and the token it holds.          *)
Pick(s, d) ==
  /\ sender[s].at = "idle" /\ InFlight < MaxInFlight
  /\ Awaits(row[d])
  /\ sender' = [sender EXCEPT ![s] = [at |-> "picked", dev |-> d,
                                      token |-> row[d].token]]
  /\ UNCHANGED <<row, request>>

(* set_verify_code: the write is the claim.  It looks at no token.         *)
Claim(s, d) ==
  /\ sender[s].at = "picked" /\ sender[s].dev = d
  /\ IF Here(d) /\ ~row[d].sent /\ ~row[d].young
     THEN /\ row' = [row EXCEPT ![d].code = s, ![d].known = {}, ![d].young = TRUE]
          /\ Step(s, "claimed")
     ELSE Rest(s) /\ UNCHANGED row
  /\ UNCHANGED request

(* Mutant: any live row will do.                                           *)
SameTokenUnchecked(s, d) == TRUE

SameToken(s, d) == row[d].token = sender[s].token

(* send_push_batch reads the live devices: the code goes out only while    *)
(* the row names the token it was made for.                                *)
Open(s, d) ==
  /\ sender[s].at = "claimed" /\ sender[s].dev = d
  /\ IF row[d].here = "live" /\ SameToken(s, d) THEN Step(s, "open") ELSE Rest(s)
  /\ UNCHANGED <<row, request>>

(* The relay delivers: the phone behind the token has the code, which is   *)
(* worth something only while the row stores it.                           *)
Deliver(s, d) ==
  /\ sender[s].at = "open" /\ sender[s].dev = d
  /\ row' = IF row[d].code = s
            THEN [row EXCEPT ![d].known = @ \cup {Phone[sender[s].token]}] ELSE row
  /\ Step(s, "delivered")
  /\ UNCHANGED request

(* mark_verification_sent: only while the row holds this code.             *)
Mark(s, d) ==
  /\ sender[s].at = "delivered" /\ sender[s].dev = d
  /\ row' = IF row[d].code = s THEN [row EXCEPT ![d].sent = TRUE] ELSE row
  /\ Rest(s)
  /\ UNCHANGED request

(* The relay says the token is dead, or has refused too often: the row     *)
(* retires, and its subscriptions end, while it names that token.          *)
Retire(s, d) ==
  /\ sender[s].at = "open" /\ sender[s].dev = d
  /\ row' = IF row[d].here = "live" /\ SameToken(s, d)
            THEN [row EXCEPT ![d].here = "retired", ![d].subs = {}] ELSE row
  /\ Rest(s)
  /\ UNCHANGED request

(* Refused, unreachable, or the process dies.                              *)
Stop(s) ==
  /\ sender[s].at # "idle"
  /\ Rest(s)
  /\ UNCHANGED <<row, request>>

-----------------------------------------------------------------------------
(* Time.                                                                   *)

(* The stored code is a minute old.                                        *)
CodeAges(d) ==
  /\ row[d].young
  /\ row' = [row EXCEPT ![d].young = FALSE]
  /\ UNCHANGED <<sender, request>>

(* A code, a request or a pending secret is a day old.                     *)
Lapse(d) ==
  /\ \/ /\ row[d].code # None /\ ~row[d].young
        /\ row' = [row EXCEPT ![d].code = None, ![d].known = {}]
     \/ /\ row[d].asked
        /\ row' = [row EXCEPT ![d].asked = FALSE]
     \/ /\ row[d].fresh
        /\ row' = [row EXCEPT ![d].fresh = FALSE]
  /\ UNCHANGED <<sender, request>>

(* The subscriptions of a row are deleted or end.                          *)
EndSubs(d) ==
  /\ row[d].subs # {}
  /\ row' = [row EXCEPT ![d].subs = {}]
  /\ UNCHANGED <<sender, request>>

(* Housekeeping: unproven, unasked and never used, or retired or unused    *)
(* for thirty days.                                                        *)
Prune(d) ==
  /\ Here(d) /\ row[d].subs = {} /\ ~row[d].asked /\ ~row[d].young
  /\ row' = [row EXCEPT ![d] = NoRow]
  /\ UNCHANGED <<sender, request>>

-----------------------------------------------------------------------------
Init ==
  /\ row = [d \in Device |-> NoRow]
  /\ sender = [s \in Sender |-> Resting]
  /\ request = [w \in Worker |-> NoRequest]

Register == \E d \in Device, x \in Secret :
  \/ \E t \in Token : RegisterNew(d, t, x)
  \/ RegisterKnown(d, x)

Begin(w) ==
  \E d \in Device, x \in Secret, main \in BOOLEAN :
    \/ \E kind \in {"delete", "verify", "resend", "subscribe"} :
         Call(w, kind, d, x, main, None)
    \/ \E t \in Token : Call(w, "put", d, x, main, t)

Commit(w) == \E d \in Device :
  Put(w, d) \/ Delete(w, d) \/ Verify(w, d) \/ Resend(w, d) \/ Subscribe(w, d)

Send(s, d) == Pick(s, d) \/ Claim(s, d) \/ Open(s, d) \/ Deliver(s, d)
                \/ Mark(s, d) \/ Retire(s, d)

Next ==
  \/ Register
  \/ \E w \in Worker : Begin(w) \/ Commit(w)
  \/ \E d \in Device : CodeAges(d) \/ Lapse(d) \/ EndSubs(d) \/ Prune(d)
  \/ \E s \in Sender : Stop(s) \/ \E d \in Device : Send(s, d)

Spec == Init /\ [][Next]_vars

-----------------------------------------------------------------------------
TypeOK ==
  /\ row \in [Device -> Row]
  /\ sender \in [Sender -> AtWork]
  /\ request \in [Worker -> Request]
  /\ \A d \in Device : IF Here(d) THEN None \notin {row[d].token, row[d].secret}
                      ELSE ~row[d].verified /\ row[d].subs = {}

(* The verified bit decides what is polled and pushed: it never stands on  *)
(* a row that names the token of an honest person's phone while somebody   *)
(* else holds the row, nor on one an honest person holds that names the    *)
(* token of somebody else's phone, whatever order codes, token changes,    *)
(* re-registrations and retirements come in.                               *)
BitFollowsToken ==
  \A d \in Device :
    row[d].verified /\ Honest \cap {Holder[row[d].secret], Phone[row[d].token]} # {}
      => Holder[row[d].secret] = Phone[row[d].token]

(* An honest person's subscriptions stay with them: nobody who only knows  *)
(* a token takes over a row that holds them.                               *)
SubsStayWithTheirOwner ==
  \A d \in Device, p \in Honest : p \in row[d].subs => Holder[row[d].secret] = p

(* Strangers cannot lock an honest person out: a verified row of theirs    *)
(* stays verified and theirs through every step but their own change of    *)
(* token, their own deletion, and the purge of a row without subscriptions.*)
AccessOutlivesStrangers ==
  [][\A d \in Device :
       row[d].verified /\ Holder[row[d].secret] \in Honest =>
         \/ row'[d].verified /\ Holder[row'[d].secret] = Holder[row[d].secret]
         \/ \E w \in Worker : /\ request[w].kind \in {"put", "delete"}
                              /\ request[w].secret = row[d].secret
                              /\ request'[w] = NoRequest
         \/ row'[d] = NoRow /\ row[d].subs = {}]_vars
=============================================================================
