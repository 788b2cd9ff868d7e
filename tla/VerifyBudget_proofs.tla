------------------------ MODULE VerifyBudget_proofs -------------------------
(***************************************************************************)
(* Proofs about VerifyBudget for any senders, budgets and limits; and, in  *)
(* the second half, about the limits in front of it, RateLimit, for any    *)
(* workers, networks, limits and windows.                                  *)
(***************************************************************************)
EXTENDS VerifyBudget, RateState, FiniteSetTheorems, WellFoundedInduction, TLAPS

(* The type of the state, but for the bound on the failures, which rests   *)
(* on the count of the senders at work.                                    *)
NatRow == [here: {"live", "retired"}, held: BOOLEAN, waits: BOOLEAN, asked: BOOLEAN,
           kind: Kinds, sent: BOOLEAN, failures: Nat, tries: 0..MaxRefusals,
           later: BOOLEAN, code: Sender \cup {None}, arrived: BOOLEAN,
           young: BOOLEAN, grace: BOOLEAN]

Types ==
  /\ row \in NatRow
  /\ credited \in [Kinds -> Nat] /\ bare \in Nat /\ recent \in BOOLEAN
  /\ sender \in [Sender -> AtWork]
  /\ charged \in Nat

LEMMA NewRowTyped == NewRow \in NatRow
BY BudgetAssumption DEF NewRow, NatRow, Kinds

LEMMA RequestedTyped ==
  ASSUME NEW r \in NatRow, NEW k \in Kinds
  PROVE  Requested(r, k) \in NatRow
BY DEF Requested, NatRow, Kinds

LEMMA CodeDroppedTyped ==
  ASSUME NEW r \in NatRow
  PROVE  CodeDropped(r) \in NatRow
BY DEF CodeDropped, NatRow

LEMMA FieldsTyped ==
  ASSUME NEW r \in NatRow, NEW b \in BOOLEAN, NEW s \in Sender
  PROVE  /\ [r EXCEPT !.here = "live", !.waits = TRUE] \in NatRow
         /\ [r EXCEPT !.waits = TRUE, !.tries = 0, !.held = b] \in NatRow
         /\ [r EXCEPT !.waits = FALSE, !.held = TRUE, !.code = None,
                      !.arrived = FALSE] \in NatRow
         /\ [r EXCEPT !.later = TRUE] \in NatRow
         /\ [r EXCEPT !.code = s, !.arrived = FALSE, !.young = TRUE] \in NatRow
         /\ [r EXCEPT !.arrived = TRUE] \in NatRow
         /\ [r EXCEPT !.here = "retired", !.held = b] \in NatRow
         /\ [r EXCEPT !.young = FALSE, !.later = FALSE, !.grace = FALSE] \in NatRow
         /\ [r EXCEPT !.asked = FALSE] \in NatRow
         /\ [r EXCEPT !.sent = TRUE, !.tries = 0] \in NatRow
<1> DEFINE T == 0..MaxRefusals
<1>1. 0 \in T
  BY BudgetAssumption
<1>2. NatRow = [here: {"live", "retired"}, held: BOOLEAN, waits: BOOLEAN, asked: BOOLEAN,
                kind: Kinds, sent: BOOLEAN, failures: Nat, tries: T,
                later: BOOLEAN, code: Sender \cup {None}, arrived: BOOLEAN,
                young: BOOLEAN, grace: BOOLEAN]
  BY DEF NatRow
<1> HIDE DEF T
<1>3. /\ [r EXCEPT !.here = "live", !.waits = TRUE] \in NatRow
      /\ [r EXCEPT !.waits = TRUE, !.tries = 0, !.held = b] \in NatRow
  BY <1>1, <1>2
<1>4. /\ [r EXCEPT !.waits = FALSE, !.held = TRUE, !.code = None,
                   !.arrived = FALSE] \in NatRow
      /\ [r EXCEPT !.later = TRUE] \in NatRow
  BY <1>1, <1>2
<1>5. /\ [r EXCEPT !.code = s, !.arrived = FALSE, !.young = TRUE] \in NatRow
      /\ [r EXCEPT !.arrived = TRUE] \in NatRow
  BY <1>1, <1>2
<1>6. /\ [r EXCEPT !.here = "retired", !.held = b] \in NatRow
      /\ [r EXCEPT !.young = FALSE, !.later = FALSE, !.grace = FALSE] \in NatRow
  BY <1>1, <1>2
<1>7. /\ [r EXCEPT !.asked = FALSE] \in NatRow
      /\ [r EXCEPT !.sent = TRUE, !.tries = 0] \in NatRow
  BY <1>1, <1>2
<1> QED BY <1>3, <1>4, <1>5, <1>6, <1>7

LEMMA RefusedTyped ==
  ASSUME NEW r \in NatRow
  PROVE  RefusedConfirmed(r) \in NatRow /\ RefusedBare(r) \in NatRow
<1> DEFINE T == 0..MaxRefusals
           n == Less(MaxRefusals, r.tries + 1)
           f == r.failures + 1
<1>1. r.tries \in T /\ r.failures \in Nat
  BY DEF NatRow
<1>2. n \in T /\ f \in Nat
  BY <1>1, BudgetAssumption DEF Less
<1>3. NatRow = [here: {"live", "retired"}, held: BOOLEAN, waits: BOOLEAN, asked: BOOLEAN,
                kind: Kinds, sent: BOOLEAN, failures: Nat, tries: T,
                later: BOOLEAN, code: Sender \cup {None}, arrived: BOOLEAN,
                young: BOOLEAN, grace: BOOLEAN]
  BY DEF NatRow
<1> HIDE DEF T, n, f
<1>4. [r EXCEPT !.failures = f, !.tries = n, !.later = TRUE] \in NatRow
  BY <1>2, <1>3
<1>5. \A h \in {"live", "retired"} :
        [r EXCEPT !.tries = n, !.later = TRUE, !.here = h] \in NatRow
  BY <1>2, <1>3
<1>6. RefusedConfirmed(r) = [r EXCEPT !.failures = f, !.tries = n, !.later = TRUE]
  BY DEF RefusedConfirmed, f, n
<1>7. \E h \in {"live", "retired"} :
        RefusedBare(r) = [r EXCEPT !.tries = n, !.later = TRUE, !.here = h]
  <2>1. r.here \in {"live", "retired"}
    BY DEF NatRow
  <2> DEFINE h == IF ~r.held /\ n = MaxRefusals THEN "retired" ELSE r.here
  <2>2. h \in {"live", "retired"}
    BY <2>1
  <2>3. RefusedBare(r) = [r EXCEPT !.tries = n, !.later = TRUE, !.here = h]
    BY DEF RefusedBare, n
  <2> QED BY <2>2, <2>3
<1> QED BY <1>4, <1>5, <1>6, <1>7

-----------------------------------------------------------------------------
THEOREM TypesHold == Spec => []Types
<1>1. Init => Types
  <2> SUFFICES ASSUME Init PROVE Types
      OBVIOUS
  <2>1. row \in NatRow
    BY NewRowTyped DEF Init
  <2>2. sender \in [Sender -> AtWork]
    BY DEF Init, Resting, AtWork, Kinds
  <2>3. credited \in [Kinds -> Nat]
    BY DEF Init
  <2> QED BY <2>1, <2>2, <2>3 DEF Init, Types
<1>2. Types /\ [Next]_vars => Types'
  <2> SUFFICES ASSUME Types, [Next]_vars PROVE Types'
      OBVIOUS
  <2>0. row \in NatRow
    BY DEF Types
  <2>1. CASE RegisterKnown
    <3>1. row' \in NatRow
      BY <2>0, <2>1, RequestedTyped, FieldsTyped, SenderAssumption
         DEF RegisterKnown, Kinds
    <3> QED BY <2>1, <3>1 DEF RegisterKnown, Types
  <2>2. CASE DeleteAndRegister
    <3>1. sender' \in [Sender -> AtWork]
      BY <2>2 DEF DeleteAndRegister, Types, AtWork
    <3> QED BY <2>2, <3>1, NewRowTyped DEF DeleteAndRegister, Types
  <2>3. ASSUME NEW held \in BOOLEAN, TokenChange(held)
        PROVE  Types'
    <3>1. CodeDropped(Requested(row, "owner")) \in NatRow
      BY <2>0, RequestedTyped, CodeDroppedTyped DEF Kinds
    <3>2. row' \in NatRow
      BY <2>3, <3>1, FieldsTyped, SenderAssumption DEF TokenChange
    <3> QED BY <2>3, <3>2 DEF TokenChange, Charge, Types
  <2>4. ASSUME NEW k \in Kinds, Resend(k)
        PROVE  Types'
    <3>1. row' \in NatRow
      BY <2>0, <2>4, RequestedTyped, CodeDroppedTyped DEF Resend
    <3> QED BY <2>4, <3>1 DEF Resend, Charge, Types
  <2>5. CASE Prove
    <3>1. row' \in NatRow
      BY <2>0, <2>5, FieldsTyped, SenderAssumption DEF Prove
    <3> QED BY <2>5, <3>1 DEF Prove, Types
  <2>6. ASSUME NEW s \in Sender, Pick(s)
        PROVE  Types'
    <3>1. row.kind \in Kinds
      BY <2>0 DEF NatRow
    <3>2. sender' \in [Sender -> AtWork]
      BY <2>6, <3>1 DEF Pick, Types, AtWork
    <3> QED BY <2>6, <3>2 DEF Pick, Types
  <2>7. ASSUME NEW s \in Sender, Hold(s)
        PROVE  Types'
    BY <2>0, <2>7, FieldsTyped DEF Hold, Types
  <2>8. ASSUME NEW s \in Sender, Claim(s)
        PROVE  Types'
    <3>1. row' \in NatRow
      <4>1. [row EXCEPT !.code = s, !.arrived = FALSE, !.young = TRUE] \in NatRow
        BY <2>0, FieldsTyped
      <4> QED BY <2>0, <2>8, <4>1 DEF Claim
    <3>2. sender' \in [Sender -> AtWork]
      <4>1. sender' \in {[sender EXCEPT ![s].at = "claimed"], [sender EXCEPT ![s] = Resting]}
        BY <2>8 DEF Claim, Rest
      <4>2. CASE sender' = [sender EXCEPT ![s].at = "claimed"]
        BY <4>2 DEF Types, AtWork
      <4>3. CASE sender' = [sender EXCEPT ![s] = Resting]
        BY <4>3 DEF Resting, Types, AtWork, Kinds
      <4> QED BY <4>1, <4>2, <4>3
    <3> QED BY <2>8, <3>1, <3>2 DEF Claim, Types
  <2>9. ASSUME NEW s \in Sender, Relay(s) \/ RelayRetires(s)
        PROVE  Types'
    <3>1. row' \in NatRow
      <4>1. \A held \in BOOLEAN :
              [row EXCEPT !.here = "retired", !.held = row.held /\ held] \in NatRow
        <5>1. \A held \in BOOLEAN : (row.held /\ held) \in BOOLEAN
          OBVIOUS
        <5> QED BY <2>0, <5>1, FieldsTyped
      <4>2. [row EXCEPT !.arrived = TRUE] \in NatRow
        BY <2>0, FieldsTyped
      <4>3. Relay(s) => row' \in {row, [row EXCEPT !.arrived = TRUE]}
        BY DEF Relay
      <4>4. RelayRetires(s) => \E held \in BOOLEAN :
              row' = [row EXCEPT !.here = "retired", !.held = row.held /\ held]
        BY DEF RelayRetires
      <4> QED BY <2>0, <2>9, <4>1, <4>2, <4>3, <4>4
    <3>2. sender' \in [Sender -> AtWork]
      <4>1. \E outcome \in Outcomes : sender' = [sender EXCEPT ![s].at = outcome]
        BY <2>9 DEF Relay, RelayRetires, Answer, Outcomes
      <4> QED BY <4>1 DEF Types, AtWork
    <3> QED BY <2>9, <3>1, <3>2 DEF Relay, RelayRetires, Types
  <2>10. ASSUME NEW s \in Sender, Record(s)
         PROVE  Types'
    <3>1. row' \in NatRow
      <4>1. Marked(s, row) \in NatRow
        BY <2>0, FieldsTyped DEF Marked
      <4> QED BY <2>0, <2>10, <4>1, FieldsTyped, RefusedTyped DEF Record
    <3>2. sender' \in [Sender -> AtWork] /\ sender[s].kind \in Kinds
      BY <2>10 DEF Record, Rest, Resting, Types, AtWork, Kinds
    <3>3. credited' \in [Kinds -> Nat] /\ bare' \in Nat /\ charged' \in Nat
          /\ recent' \in BOOLEAN
      BY <2>10, <3>2 DEF Record, Attempted, Types
    <3> QED BY <3>1, <3>2, <3>3 DEF Types
  <2>11. ASSUME NEW s \in Sender, Die(s)
         PROVE  Types'
    BY <2>11 DEF Die, Rest, Resting, Types, AtWork, Kinds
  <2>12. CASE MinutePasses \/ RequestLapses
    BY <2>0, <2>12, FieldsTyped, SenderAssumption DEF MinutePasses, RequestLapses, Types
  <2>13. CASE AttemptAges
    <3>1. credited' \in [Kinds -> Nat] /\ bare' \in Nat
      BY <2>13 DEF AttemptAges, Types
    <3> QED BY <2>13, <3>1 DEF AttemptAges, Types
  <2>14. CASE ConfigFixed
    BY <2>14 DEF ConfigFixed, Types, Resting, AtWork, Kinds
  <2>15. CASE UNCHANGED vars
    BY <2>15 DEF vars, Types
  <2> QED
    BY <2>1, <2>2, <2>3, <2>4, <2>5, <2>6, <2>7, <2>8, <2>9, <2>10, <2>11, <2>12,
       <2>13, <2>14, <2>15 DEF Next, Ask, Send
<1> QED BY <1>1, <1>2, PTL DEF Spec

-----------------------------------------------------------------------------
(* The senders at work for the kinds K, on the present row or on one that  *)
(* is gone (same \in J).                                                   *)
AtWorkFor(K, J) ==
  {s \in Sender : sender[s].at # "idle" /\ sender[s].kind \in K /\ sender[s].same \in J}
Busy(K, J) == Cardinality(AtWorkFor(K, J))

LEMMA OverlapIsNat == Overlap \in Nat /\ Cardinality(Sender) = Overlap + 1
<1>1. Cardinality(Sender) \in Nat /\ Cardinality({Sweep}) = 1
      /\ Cardinality({Sweep}) <= Cardinality(Sender)
  <2>1. {Sweep} \subseteq Sender
    BY SenderAssumption
  <2> QED BY <2>1, SenderAssumption, FS_CardinalityType, FS_Singleton, FS_Subset
<1> QED BY <1>1 DEF Overlap

LEMMA BusyBound ==
  ASSUME NEW K, NEW J
  PROVE  /\ IsFiniteSet(AtWorkFor(K, J)) /\ Busy(K, J) \in Nat
         /\ Busy(K, J) <= Overlap + 1
<1>1. AtWorkFor(K, J) \subseteq Sender
  BY DEF AtWorkFor
<1> QED BY <1>1, OverlapIsNat, SenderAssumption, FS_Subset, FS_CardinalityType DEF Busy

LEMMA BusyBoundNext ==
  ASSUME NEW K, NEW J
  PROVE  /\ IsFiniteSet(AtWorkFor(K, J)') /\ Busy(K, J)' \in Nat
         /\ Busy(K, J)' <= Overlap + 1
<1>1. AtWorkFor(K, J)' \subseteq Sender
  BY DEF AtWorkFor
<1> QED BY <1>1, OverlapIsNat, SenderAssumption, FS_Subset, FS_CardinalityType DEF Busy

(* A sender that goes on stays busy.                                       *)
LEMMA BusyStays ==
  ASSUME Types, NEW K, NEW J, NEW s \in Sender, sender[s].at # "idle",
         NEW at, at # "idle", sender' = [sender EXCEPT ![s].at = at]
  PROVE  Busy(K, J)' = Busy(K, J)
<1>1. AtWorkFor(K, J)' = AtWorkFor(K, J)
  BY DEF AtWorkFor, Types, AtWork
<1> QED BY <1>1 DEF Busy

(* One that rests does not.                                                *)
LEMMA BusyEnds ==
  ASSUME Types, NEW K, NEW J, NEW s \in Sender, Rest(s)
  PROVE  Busy(K, J)' = IF s \in AtWorkFor(K, J) THEN Busy(K, J) - 1 ELSE Busy(K, J)
<1>1. AtWorkFor(K, J)' = AtWorkFor(K, J) \ {s}
  BY DEF AtWorkFor, Rest, Resting, Types
<1>2. CASE s \in AtWorkFor(K, J)
  BY <1>1, <1>2, BusyBound, FS_RemoveElement DEF Busy
<1>3. CASE s \notin AtWorkFor(K, J)
  <2>1. AtWorkFor(K, J)' = AtWorkFor(K, J)
    BY <1>1, <1>3
  <2> QED BY <1>3, <2>1 DEF Busy
<1> QED BY <1>2, <1>3

LEMMA BusySame ==
  ASSUME sender' = sender, NEW K, NEW J
  PROVE  Busy(K, J)' = Busy(K, J)
BY DEF Busy, AtWorkFor

LEMMA RequestedFields ==
  ASSUME NEW r \in NatRow, NEW k \in Kinds
  PROVE  LET q == Requested(r, k)
         IN \/ q.kind = k /\ q.failures = 0 
            \/ k = "open" /\ q.kind = "owner" /\ r.kind = "owner" /\ q.failures = r.failures
BY DEF Requested, NatRow, Kinds

LEMMA FieldsKept ==
  ASSUME NEW r \in NatRow, NEW b, NEW s
  PROVE  \A q \in {CodeDropped(r), Marked(s, r),
                   [r EXCEPT !.here = "live", !.waits = TRUE],
                   [r EXCEPT !.waits = TRUE, !.tries = 0, !.held = b],
                   [r EXCEPT !.waits = FALSE, !.held = TRUE, !.code = None,
                             !.arrived = FALSE],
                   [r EXCEPT !.later = TRUE],
                   [r EXCEPT !.code = s, !.arrived = FALSE, !.young = TRUE],
                   [r EXCEPT !.arrived = TRUE],
                   [r EXCEPT !.here = "retired", !.held = b],
                   [r EXCEPT !.young = FALSE, !.later = FALSE, !.grace = FALSE],
                   [r EXCEPT !.asked = FALSE], RefusedBare(r)} :
           q.kind = r.kind /\ q.failures = r.failures
<1> DEFINE Same(q) == q.kind = r.kind /\ q.failures = r.failures
<1>1. Same(CodeDropped(r))
  BY DEF NatRow, CodeDropped
<1>2. Same(Marked(s, r))
  BY DEF NatRow, Marked
<1>3. Same([r EXCEPT !.here = "live", !.waits = TRUE])
  BY DEF NatRow
<1>4. Same([r EXCEPT !.waits = TRUE, !.tries = 0, !.held = b])
  BY DEF NatRow
<1>5. Same([r EXCEPT !.waits = FALSE, !.held = TRUE, !.code = None, !.arrived = FALSE])
  BY DEF NatRow
<1>6. Same([r EXCEPT !.later = TRUE])
  BY DEF NatRow
<1>7. Same([r EXCEPT !.code = s, !.arrived = FALSE, !.young = TRUE])
  BY DEF NatRow
<1>8. Same([r EXCEPT !.arrived = TRUE])
  BY DEF NatRow
<1>9. Same([r EXCEPT !.here = "retired", !.held = b])
  BY DEF NatRow
<1>10. Same([r EXCEPT !.young = FALSE, !.later = FALSE, !.grace = FALSE])
  BY DEF NatRow
<1>11. Same([r EXCEPT !.asked = FALSE])
  BY DEF NatRow
<1>12. Same(RefusedBare(r))
  BY DEF NatRow, RefusedBare
<1> QED
  BY <1>1, <1>2, <1>3, <1>4, <1>5, <1>6, <1>7, <1>8, <1>9, <1>10, <1>11, <1>12

LEMMA RecordedFields ==
  ASSUME NEW r \in NatRow, NEW s
  PROVE  \A q \in {Marked(s, r), RefusedBare(r), [r EXCEPT !.later = TRUE]} :
           q.kind = r.kind /\ q.failures = r.failures
<1> DEFINE Same(q) == q.kind = r.kind /\ q.failures = r.failures
<1>1. Same(Marked(s, r))
  BY DEF NatRow, Marked
<1>2. Same(RefusedBare(r))
  BY DEF NatRow, RefusedBare
<1>3. Same([r EXCEPT !.later = TRUE])
  BY DEF NatRow
<1> QED BY <1>1, <1>2, <1>3

LEMMA FailureCounted ==
  ASSUME NEW r \in NatRow
  PROVE  RefusedConfirmed(r).kind = r.kind /\ RefusedConfirmed(r).failures = r.failures + 1
BY DEF RefusedConfirmed, NatRow

-----------------------------------------------------------------------------
(* What is on record and what is under way together stay within the bound, *)
(* for each budget, the ceiling, the failures of the request, and those of *)
(* them that are charged to the owner.                                     *)
Spent(k) == credited[k] + Busy({k}, BOOLEAN) <= Budget[k] + Overlap
Total == credited["open"] + credited["owner"] + bare + Busy(Kinds, BOOLEAN)
           <= Ceiling + Overlap
Failed == row.failures + Busy(Kinds, {TRUE}) <= MaxFailures + Overlap
Charged == /\ charged + Busy({"owner"}, {TRUE}) <= MaxFailures + Overlap
           /\ row.kind = "owner" => charged <= row.failures

Counts == Spent("open") /\ Spent("owner") /\ Total /\ Failed /\ Charged

Numbers ==
  /\ credited["open"] \in Nat /\ credited["owner"] \in Nat /\ bare \in Nat
  /\ row.failures \in Nat /\ charged \in Nat
  /\ Busy({"open"}, BOOLEAN) \in 0..(Overlap + 1)
  /\ Busy({"owner"}, BOOLEAN) \in 0..(Overlap + 1)
  /\ Busy(Kinds, BOOLEAN) \in 0..(Overlap + 1)
  /\ Busy(Kinds, {TRUE}) \in 0..(Overlap + 1)
  /\ Busy({"owner"}, {TRUE}) \in 0..(Overlap + 1)

LEMMA NumbersAreNat ==
  /\ Types => Numbers
  /\ Types' => Numbers'
  /\ Overlap \in Nat /\ Budget["open"] = OpenBudget /\ Budget["owner"] = OwnerBudget
<1>1. Types => Numbers
  BY BusyBound, OverlapIsNat DEF Types, Numbers, NatRow, Kinds
<1>2. Types' => Numbers'
  BY BusyBoundNext, OverlapIsNat DEF Types, Numbers, NatRow, Kinds
<1> QED BY <1>1, <1>2, OverlapIsNat DEF Budget, Kinds

SameBusy ==
  /\ Busy({"open"}, BOOLEAN)' = Busy({"open"}, BOOLEAN)
  /\ Busy({"owner"}, BOOLEAN)' = Busy({"owner"}, BOOLEAN)
  /\ Busy(Kinds, BOOLEAN)' = Busy(Kinds, BOOLEAN)
  /\ Busy(Kinds, {TRUE})' = Busy(Kinds, {TRUE})
  /\ Busy({"owner"}, {TRUE})' = Busy({"owner"}, {TRUE})

(* A step in which no sender begins or ends, and that records nothing.     *)
LEMMA CalmStep ==
  ASSUME Types, Types', Counts, SameBusy,
         credited'["open"] <= credited["open"], credited'["owner"] <= credited["owner"],
         bare' <= bare,
         row'.failures \in {row.failures, 0}, charged' \in {charged, 0},
         row'.kind = "owner" =>
           charged' = 0 \/ (row.kind = "owner" /\ row'.failures = row.failures)
  PROVE  Counts'
<1>1. Numbers /\ Numbers' /\ Overlap \in Nat
  BY NumbersAreNat
<1> QED
  BY <1>1, BudgetAssumption, NumbersAreNat
     DEF Counts, Spent, Total, Failed, Charged, SameBusy, Numbers

(* A step in which the row, as far as it is counted, and the record stay.  *)
LEMMA StillStep ==
  ASSUME Types, Types', Counts, SameBusy,
         row'.kind = row.kind, row'.failures = row.failures,
         credited' = credited, bare' = bare, charged' = charged
  PROVE  Counts'
BY DEF Counts, Spent, Total, Failed, Charged, SameBusy

(* A sender that rests leaves room for what it records.                    *)
LEMMA RestStep ==
  ASSUME Types, Types', Counts, NEW s \in Sender, sender[s].at # "idle", Rest(s),
         NEW a \in {0, 1}, NEW b \in {0, 1}, NEW c \in {0, 1}, NEW f \in {0, 1},
         a + b <= 1, c <= f, f = 1 => sender[s].same, c = 1 => sender[s].kind = "owner",
         credited' = [credited EXCEPT ![sender[s].kind] = @ + a], bare' = bare + b,
         charged' = charged + c, row'.failures = row.failures + f, row'.kind = row.kind
  PROVE  Counts'
<1>1. Numbers /\ Numbers' /\ Overlap \in Nat
  BY NumbersAreNat
<1>2. credited \in [Kinds -> Nat] /\ sender[s].kind \in {"open", "owner"}
      /\ sender[s].same \in BOOLEAN
  BY DEF Types, AtWork, Kinds
<1>3. Spent("open")'
  <2>1. Busy({"open"}, BOOLEAN)' = IF sender[s].kind = "open" THEN Busy({"open"}, BOOLEAN) - 1
                                   ELSE Busy({"open"}, BOOLEAN)
    BY <1>2, BusyEnds DEF AtWorkFor
  <2>2. credited'["open"] = IF sender[s].kind = "open" THEN credited["open"] + a
                            ELSE credited["open"]
    BY <1>2 DEF Kinds
  <2> QED BY <1>1, <2>1, <2>2, NumbersAreNat, BudgetAssumption DEF Counts, Spent, Numbers
<1>4. Spent("owner")'
  <2>1. Busy({"owner"}, BOOLEAN)' = IF sender[s].kind = "owner" THEN Busy({"owner"}, BOOLEAN) - 1
                                    ELSE Busy({"owner"}, BOOLEAN)
    BY <1>2, BusyEnds DEF AtWorkFor
  <2>2. credited'["owner"] = IF sender[s].kind = "owner" THEN credited["owner"] + a
                             ELSE credited["owner"]
    BY <1>2 DEF Kinds
  <2> QED BY <1>1, <2>1, <2>2, NumbersAreNat, BudgetAssumption DEF Counts, Spent, Numbers
<1>5. Total'
  <2>1. Busy(Kinds, BOOLEAN)' = Busy(Kinds, BOOLEAN) - 1
    BY <1>2, BusyEnds DEF AtWorkFor, Kinds
  <2>2. credited'["open"] + credited'["owner"] = credited["open"] + credited["owner"] + a
    BY <1>1, <1>2 DEF Kinds, Numbers
  <2> QED BY <1>1, <2>1, <2>2, BudgetAssumption DEF Counts, Total, Numbers
<1>6. Failed'
  <2>1. Busy(Kinds, {TRUE})' = IF sender[s].same THEN Busy(Kinds, {TRUE}) - 1
                               ELSE Busy(Kinds, {TRUE})
    <3>1. s \in AtWorkFor(Kinds, {TRUE}) <=> sender[s].same
      BY <1>2, Zenon DEF AtWorkFor, Kinds
    <3> QED BY <3>1, BusyEnds
  <2> QED BY <1>1, <1>2, <2>1, BudgetAssumption DEF Counts, Failed, Numbers
<1>7. Charged'
  <2>1. Busy({"owner"}, {TRUE})' = IF sender[s].same /\ sender[s].kind = "owner"
                                   THEN Busy({"owner"}, {TRUE}) - 1
                                   ELSE Busy({"owner"}, {TRUE})
    <3>1. s \in AtWorkFor({"owner"}, {TRUE}) <=> sender[s].same /\ sender[s].kind = "owner"
      BY <1>2, Zenon DEF AtWorkFor, Kinds
    <3> QED BY <3>1, BusyEnds
  <2> QED BY <1>1, <1>2, <2>1, BudgetAssumption DEF Counts, Charged, Numbers
<1> QED BY <1>3, <1>4, <1>5, <1>6, <1>7 DEF Counts

(* The same for steps that leave the record alone.                         *)
LEMMA CalmStepHere ==
  ASSUME Types, Types', Counts, SameBusy, credited' = credited, bare' = bare,
         row'.failures \in {row.failures, 0}, charged' \in {charged, 0},
         row'.kind = "owner" =>
           charged' = 0 \/ (row.kind = "owner" /\ row'.failures = row.failures)
  PROVE  Counts'
<1>1. /\ credited'["open"] <= credited["open"]
      /\ credited'["owner"] <= credited["owner"] /\ bare' <= bare
  BY NumbersAreNat DEF Numbers
<1> QED BY <1>1, CalmStep

(* A sender that rests and records nothing.                                *)
LEMMA GiveUpStep ==
  ASSUME Types, Types', Counts, NEW s \in Sender, sender[s].at # "idle", Rest(s),
         row' = row, credited' = credited, bare' = bare, charged' = charged
  PROVE  Counts'
<1> DEFINE z == 0
<1>1. z \in {0, 1} /\ z + z <= 1 /\ z <= z /\ z # 1
  OBVIOUS
<1>2. credited' = [credited EXCEPT ![sender[s].kind] = @ + z]
  <2>1. \A k \in Kinds : credited[k] + z = credited[k]
    BY DEF Types
  <2> QED BY <2>1 DEF Types, AtWork
<1>3. bare' = bare + z /\ charged' = charged + z /\ row'.failures = row.failures + z
  BY NumbersAreNat DEF Numbers
<1> HIDE DEF z
<1> QED BY <1>1, <1>2, <1>3, RestStep

LEMMA CountsInvariant == Spec => []Counts
<1>1. Init => Counts
  <2> SUFFICES ASSUME Init PROVE Counts
      OBVIOUS
  <2>1. \A K, J : Busy(K, J) = 0
    <3> SUFFICES ASSUME NEW K, NEW J PROVE Busy(K, J) = 0
        OBVIOUS
    <3>1. AtWorkFor(K, J) = {}
      BY DEF Init, AtWorkFor, Resting
    <3> QED BY <3>1, FS_EmptySet DEF Busy
  <2> QED
    BY <2>1, NumbersAreNat, BudgetAssumption
       DEF Init, NewRow, Counts, Spent, Total, Failed, Charged, Kinds
<1>2. Types /\ Types' /\ Counts /\ [Next]_vars => Counts'
  <2> SUFFICES ASSUME Types, Types', Counts, [Next]_vars PROVE Counts'
      OBVIOUS
  <2>0. /\ row \in NatRow /\ credited \in [Kinds -> Nat] /\ bare \in Nat
        /\ charged \in Nat /\ row.failures \in Nat
        /\ sender' = sender => SameBusy
    BY BusySame DEF Types, NatRow, SameBusy
  <2>1. CASE RegisterKnown
    <3> DEFINE q == Requested(row, "open")
    <3>1. q \in NatRow
      BY <2>0, RequestedTyped DEF Kinds
    <3>2. row'.kind = q.kind /\ row'.failures = q.failures
      <4> HIDE DEF q
      <4> QED BY <2>1, <3>1, FieldsKept DEF RegisterKnown, q
    <3>3. \/ q.kind = "open" /\ q.failures = 0
          \/ q.kind = "owner" /\ row.kind = "owner" /\ q.failures = row.failures
      BY <2>0, RequestedFields DEF Kinds
    <3>4. /\ SameBusy /\ charged' = charged /\ credited' = credited /\ bare' = bare
      BY <2>0, <2>1 DEF RegisterKnown
    <3>5. /\ row'.failures \in {row.failures, 0}
          /\ row'.kind = "owner" => row.kind = "owner" /\ row'.failures = row.failures
      BY <3>2, <3>3
    <3> QED BY <2>0, <3>4, <3>5, CalmStepHere
  <2>2. CASE DeleteAndRegister
    <3>1. /\ row'.kind = "open" /\ row'.failures = 0
          /\ credited' = credited /\ bare' = bare /\ charged' = charged
      BY <2>2 DEF DeleteAndRegister, NewRow
    <3>2. \A s \in Sender : /\ sender'[s].at = sender[s].at
                            /\ sender'[s].kind = sender[s].kind
                            /\ sender'[s].same = FALSE
      BY <2>2 DEF DeleteAndRegister, Types, AtWork
    <3>3. \A K : Busy(K, BOOLEAN)' = Busy(K, BOOLEAN)
      <4> SUFFICES ASSUME NEW K PROVE Busy(K, BOOLEAN)' = Busy(K, BOOLEAN)
          OBVIOUS
      <4>1. \A s \in Sender : sender[s].same \in BOOLEAN
        BY DEF Types, AtWork
      <4>2. AtWorkFor(K, BOOLEAN)' = AtWorkFor(K, BOOLEAN)
        BY <3>2, <4>1 DEF AtWorkFor
      <4> QED BY <4>2 DEF Busy
    <3>4. \A K : Busy(K, {TRUE})' = 0
      <4> SUFFICES ASSUME NEW K PROVE Busy(K, {TRUE})' = 0
          OBVIOUS
      <4>1. AtWorkFor(K, {TRUE})' = {}
        BY <3>2 DEF AtWorkFor
      <4> QED BY <4>1, FS_EmptySet DEF Busy
    <3>5. Numbers /\ Overlap \in Nat
      BY NumbersAreNat
    <3> QED
      BY <3>1, <3>3, <3>4, <3>5, BudgetAssumption
         DEF Counts, Spent, Total, Failed, Charged, Numbers
  <2>3. ASSUME NEW held \in BOOLEAN, TokenChange(held)
        PROVE  Counts'
    <3> DEFINE q == Requested(row, "owner")
               u == CodeDropped(q)
    <3>1. q \in NatRow /\ u \in NatRow
      BY <2>0, RequestedTyped, CodeDroppedTyped DEF Kinds
    <3>2. q.kind = "owner" /\ q.failures = 0
      BY <2>0, RequestedFields DEF Kinds
    <3>3. u.failures = q.failures
      <4> HIDE DEF q
      <4> QED BY <3>1, FieldsKept
    <3>4. row'.failures = u.failures
      <4> HIDE DEF q, u
      <4> QED BY <2>3, <3>1, FieldsKept DEF TokenChange, q, u
    <3>5. /\ SameBusy /\ charged' = 0 /\ credited' = credited /\ bare' = bare
      BY <2>0, <2>3 DEF TokenChange, Charge
    <3>6. row'.failures = 0
      BY <3>2, <3>3, <3>4
    <3>7. row'.failures \in {row.failures, 0} /\ charged' \in {charged, 0}
      BY <3>5, <3>6
    <3>8. row'.kind = "owner" =>
            charged' = 0 \/ (row.kind = "owner" /\ row'.failures = row.failures)
      BY <3>5
    <3> HIDE DEF q, u
    <3> QED BY <3>5, <3>7, <3>8, CalmStepHere
  <2>4. ASSUME NEW k \in Kinds, Resend(k)
        PROVE  Counts'
    <3> DEFINE q == Requested(row, k)
    <3>1. q \in NatRow
      BY <2>0, RequestedTyped
    <3>2. row'.kind = q.kind /\ row'.failures = q.failures
      <4>1. CodeDropped(q).kind = q.kind /\ CodeDropped(q).failures = q.failures
        <5> HIDE DEF q
        <5> QED BY <3>1, FieldsKept
      <4>2. row' = q \/ row' = CodeDropped(q)
        BY <2>4 DEF Resend
      <4> HIDE DEF q
      <4> QED BY <4>1, <4>2
    <3>3. \/ q.kind = k /\ q.failures = 0
          \/ k = "open" /\ q.kind = "owner" /\ row.kind = "owner"
             /\ q.failures = row.failures
      BY <2>0, RequestedFields
    <3>4. /\ SameBusy /\ credited' = credited /\ bare' = bare
          /\ charged' = IF k = "owner" THEN 0 ELSE charged
      BY <2>0, <2>4 DEF Resend, Charge
    <3>5. /\ row'.failures \in {row.failures, 0}
          /\ row'.kind = "owner" =>
               k = "owner" \/ (row.kind = "owner" /\ row'.failures = row.failures)
      <4> HIDE DEF q
      <4>1. CASE q.kind = k /\ q.failures = 0
        BY <3>2, <4>1
      <4>2. CASE row.kind = "owner" /\ q.failures = row.failures
        BY <3>2, <4>2
      <4> QED BY <3>3, <4>1, <4>2
    <3>6. charged' \in {charged, 0}
      BY <3>4
    <3>7. row'.kind = "owner" =>
            charged' = 0 \/ (row.kind = "owner" /\ row'.failures = row.failures)
      BY <3>4, <3>5
    <3> HIDE DEF q
    <3> QED BY <3>4, <3>5, <3>6, <3>7, CalmStepHere
  <2>5. CASE Prove
    <3>1. row'.kind = row.kind /\ row'.failures = row.failures
      BY <2>0, <2>5, FieldsKept DEF Prove
    <3> QED BY <2>0, <2>5, <3>1, StillStep DEF Prove
  <2>6. ASSUME NEW s \in Sender, Pick(s)
        PROVE  Counts'
    <3> DEFINE k == row.kind
    <3>1. /\ row' = row /\ credited' = credited /\ bare' = bare /\ charged' = charged
          /\ credited[k] < Budget[k] /\ k \in {"open", "owner"}
          /\ credited["open"] + credited["owner"] + bare < Ceiling
          /\ row.failures < MaxFailures
      BY <2>0, <2>6 DEF Pick, NoWait, BudgetLeft, UnderTheCeiling, Awaits, NatRow, Kinds
    <3>2. \A z \in Sender \ {s} : sender'[z] = sender[z]
      BY <2>6 DEF Pick, Types
    <3>3. sender'[s].kind = k /\ sender[s].at = "idle"
      BY <2>6 DEF Pick, Types
    <3>4. ASSUME NEW j \in {"open", "owner"}, j # k
          PROVE  \A J : Busy({j}, J)' = Busy({j}, J)
      <4> SUFFICES ASSUME NEW J PROVE Busy({j}, J)' = Busy({j}, J)
          OBVIOUS
      <4>1. AtWorkFor({j}, J)' = AtWorkFor({j}, J)
        BY <3>2, <3>3, <3>4 DEF AtWorkFor
      <4> QED BY <4>1 DEF Busy
    <3>5. Numbers /\ Numbers' /\ Overlap \in Nat
      BY NumbersAreNat
    <3>6. Spent("open")'
      BY <3>1, <3>4, <3>5, NumbersAreNat, BudgetAssumption DEF Counts, Spent, Numbers
    <3>7. Spent("owner")'
      BY <3>1, <3>4, <3>5, NumbersAreNat, BudgetAssumption DEF Counts, Spent, Numbers
    <3>8. Total' /\ Failed'
      BY <3>1, <3>5, BudgetAssumption DEF Total, Failed, Numbers
    <3>9. Charged'
      BY <3>1, <3>4, <3>5, BudgetAssumption DEF Counts, Charged, Numbers
    <3> QED BY <3>6, <3>7, <3>8, <3>9 DEF Counts
  <2>7. ASSUME NEW s \in Sender, Hold(s)
        PROVE  Counts'
    <3>1. row'.kind = row.kind /\ row'.failures = row.failures
      BY <2>0, <2>7, FieldsKept DEF Hold
    <3> QED BY <2>0, <2>7, <3>1, StillStep DEF Hold
  <2>8. ASSUME NEW s \in Sender, Claim(s)
        PROVE  Counts'
    <3>1. CASE /\ sender' = [sender EXCEPT ![s].at = "claimed"]
               /\ row' = [row EXCEPT !.code = s, !.arrived = FALSE, !.young = TRUE]
      <4>1. SameBusy
        BY <2>8, <3>1, BusyStays DEF Claim, SameBusy
      <4>2. row'.kind = row.kind /\ row'.failures = row.failures
        BY <2>0, <3>1, FieldsKept
      <4> QED BY <2>0, <2>8, <4>1, <4>2, StillStep DEF Claim
    <3>2. CASE Rest(s) /\ row' = row
      BY <2>8, <3>2, GiveUpStep DEF Claim
    <3> QED BY <2>8, <3>1, <3>2 DEF Claim
  <2>9. ASSUME NEW s \in Sender, Relay(s) \/ RelayRetires(s)
        PROVE  Counts'
    <3>1. SameBusy
      <4>1. /\ sender[s].at = "claimed"
            /\ \E outcome \in Outcomes : sender' = [sender EXCEPT ![s].at = outcome]
        BY <2>9 DEF Relay, RelayRetires, Answer, Outcomes
      <4> QED BY <4>1, BusyStays DEF SameBusy, Outcomes
    <3>2. row'.kind = row.kind /\ row'.failures = row.failures
      <4>1. Relay(s) => row' \in {row, [row EXCEPT !.arrived = TRUE]}
        BY DEF Relay
      <4>2. RelayRetires(s) => \E held \in BOOLEAN :
              row' = [row EXCEPT !.here = "retired", !.held = row.held /\ held]
        BY DEF RelayRetires
      <4>3. \A b : LET q == [row EXCEPT !.here = "retired", !.held = b]
                   IN q.kind = row.kind /\ q.failures = row.failures
        BY <2>0, FieldsKept
      <4>4. CASE Relay(s)
        BY <2>0, <4>1, <4>4, FieldsKept
      <4>5. CASE RelayRetires(s)
        BY <4>2, <4>3, <4>5
      <4> QED BY <2>9, <4>4, <4>5
    <3> QED BY <2>0, <2>9, <3>1, <3>2, StillStep DEF Relay, RelayRetires
  <2>10. ASSUME NEW s \in Sender, Record(s)
         PROVE  Counts'
    <3> DEFINE a == IF sender[s].at \in {"delivered", "confirmed"} THEN 1 ELSE 0
               b == IF sender[s].at = "bare" THEN 1 ELSE 0
               f == IF sender[s].at = "confirmed" /\ sender[s].same THEN 1 ELSE 0
               c == IF f = 1 /\ sender[s].kind = "owner" THEN 1 ELSE 0
    <3>1. /\ credited' = [credited EXCEPT ![sender[s].kind] = @ + a]
          /\ bare' = bare + b /\ charged' = charged + c
      <4>1. sender[s].kind \in Kinds
        BY DEF Types, AtWork
      <4>2. bare' = bare + b /\ charged' = charged + c
        BY <2>0, <2>10 DEF Record, Attempted
      <4>3. credited' = [credited EXCEPT ![sender[s].kind] = @ + a]
        <5>1. CASE a = 1
          <6>1. sender[s].at \in {"delivered", "confirmed"}
            BY <5>1
          <6>2. credited' = [credited EXCEPT ![sender[s].kind] = @ + 1]
            BY <2>10, <6>1 DEF Record, Attempted
          <6> QED BY <5>1, <6>2
        <5>2. CASE a = 0
          <6>1. credited' = credited
            BY <2>10, <5>2 DEF Record, Attempted
          <6>2. credited[sender[s].kind] + a = credited[sender[s].kind]
            BY <2>0, <4>1, <5>2
          <6> QED BY <2>0, <6>1, <6>2
        <5> QED BY <5>1, <5>2
      <4> QED BY <4>2, <4>3
    <3>2. row'.failures = row.failures + f /\ row'.kind = row.kind
      <4>1. CASE f = 1
        BY <2>0, <2>10, <4>1, FailureCounted DEF Record
      <4>2. CASE f = 0
        <5>1. row' \in {row, Marked(s, row), RefusedBare(row), [row EXCEPT !.later = TRUE]}
          BY <2>10, <4>2 DEF Record
        <5>2. \A q \in {Marked(s, row), RefusedBare(row), [row EXCEPT !.later = TRUE]} :
                q.kind = row.kind /\ q.failures = row.failures
          BY <2>0, RecordedFields
        <5>3. row'.failures = row.failures /\ row'.kind = row.kind
          <6> HIDE DEF f
          <6>1. CASE row' = row
            BY <6>1
          <6>2. CASE row' # row
            BY <5>1, <5>2, <6>2
          <6> QED BY <6>1, <6>2
        <5> HIDE DEF f
        <5>4. row.failures = row.failures + f
          BY <2>0, <4>2
        <5> QED BY <5>3, <5>4
      <4> QED BY <4>1, <4>2
    <3>3. /\ a \in {0, 1} /\ b \in {0, 1} /\ c \in {0, 1} /\ f \in {0, 1}
          /\ a + b <= 1 /\ c <= f /\ (f = 1 => sender[s].same)
          /\ (c = 1 => sender[s].kind = "owner")
      OBVIOUS
    <3>4. sender[s].at # "idle" /\ Rest(s)
      BY <2>10 DEF Record, Outcomes
    <3> HIDE DEF a, b, c, f
    <3> QED BY <3>1, <3>2, <3>3, <3>4, RestStep
  <2>11. ASSUME NEW s \in Sender, Die(s)
         PROVE  Counts'
    BY <2>11, GiveUpStep DEF Die
  <2>12. CASE MinutePasses \/ RequestLapses
    <3>1. row'.kind = row.kind /\ row'.failures = row.failures
      BY <2>0, <2>12, FieldsKept DEF MinutePasses, RequestLapses
    <3> QED BY <2>0, <2>12, <3>1, StillStep DEF MinutePasses, RequestLapses
  <2>13. CASE AttemptAges
    <3>1. /\ credited'["open"] <= credited["open"]
          /\ credited'["owner"] <= credited["owner"] /\ bare' <= bare
      BY <2>0, <2>13 DEF AttemptAges, Kinds
    <3> QED BY <2>0, <2>13, <3>1, CalmStep DEF AttemptAges
  <2>14. CASE ConfigFixed
    <3>1. \A K, J : Busy(K, J)' = 0
      <4> SUFFICES ASSUME NEW K, NEW J PROVE Busy(K, J)' = 0
          OBVIOUS
      <4>1. AtWorkFor(K, J)' = {}
        BY <2>14 DEF ConfigFixed, AtWorkFor, Resting
      <4> QED BY <4>1, FS_EmptySet DEF Busy
    <3>2. Numbers /\ Overlap \in Nat
      BY NumbersAreNat
    <3> QED
      BY <2>14, <3>1, <3>2, NumbersAreNat, BudgetAssumption
         DEF ConfigFixed, Counts, Spent, Total, Failed, Charged, Numbers
  <2>15. CASE UNCHANGED vars
    BY <2>0, <2>15, StillStep DEF vars
  <2> QED
    BY <2>1, <2>2, <2>3, <2>4, <2>5, <2>6, <2>7, <2>8, <2>9, <2>10, <2>11, <2>12,
       <2>13, <2>14, <2>15 DEF Next, Ask, Send
<1> QED BY <1>1, <1>2, TypesHold, PTL DEF Spec

(* Every reachable state has its type: the failures of a request exceed    *)
(* their limit by no more than the further senders.                        *)
THEOREM TypeOKHolds == Spec => []TypeOK
<1>1. Types /\ Counts => TypeOK
  <2> SUFFICES ASSUME Types, Counts PROVE TypeOK
      OBVIOUS
  <2>1. Numbers /\ Overlap \in Nat
    BY NumbersAreNat
  <2>2. row.failures \in 0..(MaxFailures + Overlap)
    BY <2>1, BudgetAssumption DEF Counts, Failed, Numbers
  <2> DEFINE T == 0..MaxRefusals
             U == 0..(MaxFailures + Overlap)
  <2>3. row \in [here: {"live", "retired"}, held: BOOLEAN, waits: BOOLEAN, asked: BOOLEAN,
                 kind: Kinds, sent: BOOLEAN, failures: Nat, tries: T, later: BOOLEAN,
                 code: Sender \cup {None}, arrived: BOOLEAN, young: BOOLEAN,
                 grace: BOOLEAN]
    BY DEF Types, NatRow
  <2>4. row.failures \in U
    BY <2>2
  <2> HIDE DEF T, U
  <2>5. row \in [here: {"live", "retired"}, held: BOOLEAN, waits: BOOLEAN, asked: BOOLEAN,
                 kind: Kinds, sent: BOOLEAN, failures: U, tries: T, later: BOOLEAN,
                 code: Sender \cup {None}, arrived: BOOLEAN, young: BOOLEAN,
                 grace: BOOLEAN]
    BY <2>3, <2>4
  <2>6. row \in Row
    BY <2>5 DEF Row, T, U
  <2> QED BY <2>6 DEF Types, TypeOK
<1> QED BY <1>1, TypesHold, CountsInvariant, PTL

(* The record of attempts passes neither a kind's budget nor the ceiling   *)
(* of the token by more than one attempt per further sender.               *)
THEOREM BudgetsHoldAlways == Spec => []BudgetsHold
<1>1. Types /\ Counts => BudgetsHold
  BY NumbersAreNat, BudgetAssumption
     DEF Counts, Spent, Total, Numbers, BudgetsHold, Kinds
<1> QED BY <1>1, TypesHold, CountsInvariant, PTL

(* However strangers register the token, an owner's request is charged no  *)
(* more refusals than it may have failures, and one per further sender.    *)
THEOREM StrangersSpendTheirOwnAlways == Spec => []StrangersSpendTheirOwn
<1>1. Types /\ Counts => StrangersSpendTheirOwn
  BY NumbersAreNat, BudgetAssumption DEF Counts, Charged, Numbers, StrangersSpendTheirOwn
<1> QED BY <1>1, TypesHold, CountsInvariant, PTL

-----------------------------------------------------------------------------
(* What a delivered sender may still record: a code it holds has arrived.  *)
Unrecorded ==
  \A s \in Sender :
    sender[s].at = "delivered" /\ sender[s].same /\ row.code = s => row.arrived

Arrivals == SentCodeArrived /\ Unrecorded

(* A row that holds the same code, as sent and as arrived as before.       *)
Alike(q, r) == q.code = r.code /\ q.arrived = r.arrived /\ q.sent = r.sent

LEMMA AlikeFields ==
  ASSUME NEW r \in NatRow, NEW b
  PROVE  /\ Alike([r EXCEPT !.later = TRUE], r)
         /\ Alike([r EXCEPT !.here = "retired", !.held = b], r)
         /\ Alike([r EXCEPT !.young = FALSE, !.later = FALSE, !.grace = FALSE], r)
         /\ Alike([r EXCEPT !.asked = FALSE], r)
         /\ Alike(RefusedConfirmed(r), r) /\ Alike(RefusedBare(r), r)
<1>1. /\ Alike([r EXCEPT !.later = TRUE], r)
      /\ Alike([r EXCEPT !.here = "retired", !.held = b], r)
      /\ Alike([r EXCEPT !.young = FALSE, !.later = FALSE, !.grace = FALSE], r)
      /\ Alike([r EXCEPT !.asked = FALSE], r)
  BY DEF Alike, NatRow
<1>2. Alike(RefusedConfirmed(r), r)
  BY DEF Alike, RefusedConfirmed, NatRow
<1>3. Alike(RefusedBare(r), r)
  BY DEF Alike, RefusedBare, NatRow
<1> QED BY <1>1, <1>2, <1>3

LEMMA AlikeStep ==
  ASSUME Types, Arrivals, Alike(row', row),
         \A s \in Sender : sender'[s].at = "delivered" /\ sender'[s].same =>
                             sender[s].at = "delivered" /\ sender[s].same
  PROVE  Arrivals'
BY DEF Arrivals, SentCodeArrived, Unrecorded, Alike

(* A request starts with nothing sent, its code kept or dropped.           *)
LEMMA RequestedUnsent ==
  ASSUME NEW r \in NatRow, NEW k \in Kinds
  PROVE  LET q == Requested(r, k)
         IN /\ ~q.sent /\ q.code = r.code /\ q.arrived = r.arrived
            /\ ~CodeDropped(q).sent /\ CodeDropped(q).code = None
BY DEF Requested, CodeDropped, NatRow, Kinds

LEMMA UnsentStep ==
  ASSUME Types, Arrivals, sender' = sender, ~row'.sent,
         (row'.code = row.code /\ row'.arrived = row.arrived) \/ row'.code = None
  PROVE  Arrivals'
BY SenderAssumption DEF Arrivals, SentCodeArrived, Unrecorded

(* A row counts as sent for the code it holds only.                        *)
THEOREM SentCodeArrivedAlways == Spec => []SentCodeArrived
<1>1. Init => Arrivals
  BY DEF Init, NewRow, Resting, Arrivals, SentCodeArrived, Unrecorded
<1>2. Types /\ Arrivals /\ [Next]_vars => Arrivals'
  <2> SUFFICES ASSUME Types, Arrivals, [Next]_vars PROVE Arrivals'
      OBVIOUS
  <2>0. row \in NatRow /\ sender \in [Sender -> AtWork]
    BY DEF Types
  <2>1. CASE RegisterKnown
    <3> DEFINE q == Requested(row, "open")
    <3>1. q \in NatRow /\ ~q.sent /\ q.code = row.code /\ q.arrived = row.arrived
      BY <2>0, RequestedTyped, RequestedUnsent DEF Kinds
    <3>2. row' = [q EXCEPT !.here = "live", !.waits = TRUE] /\ sender' = sender
      BY <2>1 DEF RegisterKnown
    <3> HIDE DEF q
    <3>3. ~row'.sent /\ row'.code = row.code /\ row'.arrived = row.arrived
      BY <3>1, <3>2 DEF NatRow
    <3> QED BY <3>2, <3>3, UnsentStep
  <2>2. CASE DeleteAndRegister
    <3>1. \A s \in Sender : sender'[s].same = FALSE
      BY <2>0, <2>2 DEF DeleteAndRegister, AtWork
    <3> QED BY <2>2, <3>1
         DEF DeleteAndRegister, NewRow, Arrivals, SentCodeArrived, Unrecorded
  <2>3. ASSUME NEW held \in BOOLEAN, TokenChange(held)
        PROVE  Arrivals'
    <3> DEFINE u == CodeDropped(Requested(row, "owner"))
    <3>1. u \in NatRow /\ ~u.sent /\ u.code = None
      BY <2>0, RequestedTyped, CodeDroppedTyped, RequestedUnsent DEF Kinds
    <3>2. row' = [u EXCEPT !.waits = TRUE, !.tries = 0, !.held = held] /\ sender' = sender
      BY <2>3 DEF TokenChange
    <3> HIDE DEF u
    <3>3. ~row'.sent /\ row'.code = None
      BY <3>1, <3>2 DEF NatRow
    <3> QED BY <3>2, <3>3, UnsentStep
  <2>4. ASSUME NEW k \in Kinds, Resend(k)
        PROVE  Arrivals'
    <3>1. row' \in {Requested(row, k), CodeDropped(Requested(row, k))} /\ sender' = sender
      BY <2>4 DEF Resend
    <3> QED BY <2>0, <3>1, RequestedUnsent, UnsentStep
  <2>5. CASE Prove
    <3>1. row'.code = None /\ sender' = sender
      BY <2>0, <2>5 DEF Prove, NatRow
    <3> QED BY <3>1, SenderAssumption DEF Arrivals, SentCodeArrived, Unrecorded
  <2>6. ASSUME NEW s \in Sender, Pick(s)
        PROVE  Arrivals'
    BY <2>0, <2>6, AlikeStep DEF Pick, Alike
  <2>7. ASSUME NEW s \in Sender, Hold(s)
        PROVE  Arrivals'
    BY <2>0, <2>7, AlikeFields, AlikeStep DEF Hold
  <2>8. ASSUME NEW s \in Sender, Claim(s)
        PROVE  Arrivals'
    <3>1. CASE Claimable(s)
      <4>1. /\ row' = [row EXCEPT !.code = s, !.arrived = FALSE, !.young = TRUE]
            /\ sender' = [sender EXCEPT ![s].at = "claimed"] /\ ~row.sent
        BY <2>8, <3>1 DEF Claim, Claimable
      <4>2. row'.code = s /\ ~row'.sent /\ sender'[s].at = "claimed"
        BY <2>0, <4>1 DEF NatRow, AtWork
      <4> QED BY <4>2 DEF Arrivals, SentCodeArrived, Unrecorded
    <3>2. CASE ~Claimable(s)
      BY <2>0, <2>8, <3>2, AlikeStep DEF Claim, Rest, Resting, Alike
    <3> QED BY <3>1, <3>2
  <2>9. ASSUME NEW s \in Sender, Relay(s)
        PROVE  Arrivals'
    <3>1. PICK outcome \in Outcomes :
            /\ sender' = [sender EXCEPT ![s].at = outcome]
            /\ row' = row \/ (row.code = s /\ row' = [row EXCEPT !.arrived = TRUE])
            /\ outcome = "delivered" /\ row.code = s => row' = [row EXCEPT !.arrived = TRUE]
      BY <2>9 DEF Relay, Answer, Outcomes
    <3>2. \A t \in Sender \ {s} : sender'[t] = sender[t]
      BY <2>0, <3>1
    <3>3. sender'[s].at = outcome
      BY <2>0, <3>1 DEF AtWork
    <3>4. CASE row' = [row EXCEPT !.arrived = TRUE]
      <4>1. row'.arrived
        BY <2>0, <3>4 DEF NatRow
      <4> QED BY <4>1 DEF Arrivals, SentCodeArrived, Unrecorded
    <3>5. CASE row' = row /\ ~(outcome = "delivered" /\ row.code = s)
      BY <3>2, <3>3, <3>5 DEF Arrivals, SentCodeArrived, Unrecorded
    <3> QED BY <3>1, <3>4, <3>5
  <2>10. ASSUME NEW s \in Sender, RelayRetires(s)
         PROVE  Arrivals'
    <3>1. /\ sender' = [sender EXCEPT ![s].at = "confirmed"]
          /\ \E b : row' = [row EXCEPT !.here = "retired", !.held = b]
      BY <2>10 DEF RelayRetires, Answer
    <3>2. Alike(row', row)
      BY <2>0, <3>1, AlikeFields
    <3>3. \A t \in Sender : sender'[t].at = "delivered" /\ sender'[t].same =>
                              sender[t].at = "delivered" /\ sender[t].same
      BY <2>0, <3>1 DEF AtWork
    <3> QED BY <3>2, <3>3, AlikeStep
  <2>11. ASSUME NEW s \in Sender, Record(s)
         PROVE  Arrivals'
    <3>1. /\ sender'[s].at = "idle" /\ \A t \in Sender \ {s} : sender'[t] = sender[t]
      BY <2>0, <2>11 DEF Record, Rest, Resting
    <3>2. CASE Alike(row', row)
      BY <3>1, <3>2, AlikeStep
    <3>3. CASE sender[s].same /\ sender[s].at = "delivered" /\ row.code = s
      <4>1. row' = [row EXCEPT !.sent = TRUE, !.tries = 0] /\ row.arrived
        BY <2>11, <3>3 DEF Record, Marked, Arrivals, Unrecorded
      <4>2. row'.arrived
        BY <2>0, <4>1 DEF NatRow
      <4> QED BY <4>2 DEF Arrivals, SentCodeArrived, Unrecorded
    <3>4. CASE ~(sender[s].same /\ sender[s].at = "delivered" /\ row.code = s)
      <4>1. row' \in {row, RefusedConfirmed(row), RefusedBare(row),
                      [row EXCEPT !.later = TRUE]}
        BY <2>11, <3>4 DEF Record, Marked
      <4>2. Alike(row, row)
        BY DEF Alike
      <4>3. Alike(row', row)
        BY <2>0, <4>1, <4>2, AlikeFields
      <4> QED BY <3>2, <4>3
    <3> QED BY <3>3, <3>4
  <2>12. ASSUME NEW s \in Sender, Die(s)
         PROVE  Arrivals'
    BY <2>0, <2>12, AlikeStep DEF Die, Rest, Resting, Alike
  <2>13. CASE MinutePasses \/ RequestLapses
    BY <2>0, <2>13, AlikeFields, AlikeStep DEF MinutePasses, RequestLapses
  <2>14. CASE AttemptAges \/ ConfigFixed \/ UNCHANGED vars
    BY <2>0, <2>14, AlikeStep DEF AttemptAges, ConfigFixed, vars, Resting, Alike
  <2> QED
    BY <2>1, <2>2, <2>3, <2>4, <2>5, <2>6, <2>7, <2>8, <2>9, <2>10, <2>11, <2>12,
       <2>13, <2>14 DEF Next, Ask, Send
<1>3. Arrivals => SentCodeArrived
  BY DEF Arrivals
<1> QED BY <1>1, <1>2, <1>3, TypesHold, PTL DEF Spec

-----------------------------------------------------------------------------
(* The limits across the web workers, RateLimit: their state is RateState, *)
(* which has no name in common with VerifyBudget, and their actions are    *)
(* those of the instance Gate.                                             *)
Gate == INSTANCE RateLimit

LEMMA GateAssumptions ==
  /\ IsFiniteSet(Worker) /\ Worker # {} /\ IsFiniteSet(Token)
  /\ IsFiniteSet(Network) /\ IsFiniteSet(Area) /\ Network \cap Area = {}
  /\ Nothing \notin Gate!Bucket /\ AreaOf \in [Network -> Area \cup {Nothing}]
  /\ Limit \in [Gate!Bucket -> Nat \ {0}] /\ TokenLimit \in [Gate!Bucket -> Nat \ {0}]
  /\ FailLimit \in [Gate!Bucket -> Nat \ {0}] /\ DayLimit \in Nat \ {0}
  /\ Window \in Nat \ {0} /\ Hour \in Nat \ {0} /\ Day \in Nat \ {0}
BY NetworkAssumption, LimitAssumption DEF Bucket, Gate!Bucket

LEMMA GateCardinality == \A S : Gate!Cardinality(S) = Cardinality(S)
BY DEF Gate!Cardinality, Cardinality

(* The instance says of the state what RateState says of it.               *)
LEMMA SameLimits ==
  /\ Gate!PlacesAreServed <=> PlacesAreServed
  /\ Gate!RetryAfterSuffices <=> RetryAfterSuffices
  /\ Gate!ImmediateBound <=> ImmediateBound
  /\ Gate!CheckedThenFilled <=> CheckedThenFilled
<1>1. /\ Gate!Bucket = Bucket
      /\ \A n : Gate!BucketsOf(n) = BucketsOf(n)
      /\ \A bag, window : Gate!Count(bag, window) = Count(bag, window)
  BY GateCardinality DEF Gate!Bucket, Bucket, Gate!BucketsOf, BucketsOf, Gate!Count, Count,
                         Gate!Younger, Younger
<1>2. \A b : Gate!Full(b) <=> Full(b)
  BY <1>1 DEF Gate!Full, Full
<1>3. \A b : Gate!Recent(b) = Recent(b)
  BY <1>1 DEF Gate!Recent, Recent
<1> QED
  BY <1>1, <1>2, <1>3, GateCardinality
     DEF Gate!PlacesAreServed, PlacesAreServed, Gate!RetryAfterSuffices, RetryAfterSuffices,
         Gate!ImmediateBound, ImmediateBound, Gate!CheckedThenFilled, CheckedThenFilled

(* The greatest of some of the first numbers.                              *)
LEMMA GreatestUpTo ==
  ASSUME NEW n \in Nat, NEW S \in SUBSET (0..n), S # {}
  PROVE  Gate!Max(S) \in S /\ \A x \in S : x <= Gate!Max(S)
<1> DEFINE Below == {ss \in Nat \X Nat : ss[1] < ss[2]}
           T == {n - x : x \in S}
<1>1. IsWellFoundedOn(Below, Nat)
  BY NatLessThanWellFounded, Zenon DEF OpToRel
<1>2. T \in SUBSET Nat /\ T # {}
  <2>1. \A x \in S : n - x \in Nat /\ n - x \in T
    OBVIOUS
  <2>2. \E x : x \in S
    OBVIOUS
  <2> QED BY <2>1, <2>2
<1> HIDE DEF Below
<1>3. PICK t \in T : \A u \in T : ~(<<u, t>> \in Below)
  <2> HIDE DEF T
  <2> QED BY <1>1, <1>2, WFMin
<1>4. \A u \in T : ~(u < t)
  <2> HIDE DEF T
  <2> QED BY <1>2, <1>3 DEF Below
<1>5. PICK x \in S : t = n - x
  OBVIOUS
<1>6. \A y \in S : y <= x
  <2> SUFFICES ASSUME NEW y \in S PROVE y <= x
      OBVIOUS
  <2>1. ~(n - y < n - x)
    BY <1>4, <1>5
  <2> QED BY <2>1
<1>7. \E z \in S : \A y \in S : z >= y
  BY <1>6
<1>8. Gate!Max(S) \in S /\ \A y \in S : Gate!Max(S) >= y
  BY <1>7 DEF Gate!Max
<1> QED BY <1>8

-----------------------------------------------------------------------------
(* Counting a bag of ages.                                                 *)

(* An event is its age and its place among those of that age.              *)
LEMMA AnEvent ==
  ASSUME NEW bag, NEW k \in Nat, \A a \in 0..(k - 1) : bag[a] \in Nat
  PROVE  /\ Gate!Younger(bag, k) \in SUBSET (Nat \X Nat)
         /\ \A a, i \in Nat :
              <<a, i>> \in Gate!Younger(bag, k) <=> a < k /\ 0 < i /\ i <= bag[a]
<1>1. Gate!Younger(bag, k) \in SUBSET (Nat \X Nat)
  BY DEF Gate!Younger
<1>2. ASSUME NEW a \in Nat, NEW i \in Nat
      PROVE  <<a, i>> \in Gate!Younger(bag, k) <=> a < k /\ 0 < i /\ i <= bag[a]
  <2>1. <<a, i>> \in Gate!Younger(bag, k) <=>
           \E c \in 0..(k - 1) : <<a, i>> \in {c} \X (1..bag[c])
    BY DEF Gate!Younger
  <2>2. <<a, i>> \in Gate!Younger(bag, k) <=> \E c \in 0..(k - 1) : a = c /\ i \in 1..bag[c]
    BY <2>1
  <2>3. \A c \in 0..(k - 1) : i \in 1..bag[c] <=> 0 < i /\ i <= bag[c]
    OBVIOUS
  <2>4. (\E c \in 0..(k - 1) : a = c) <=> a < k
    OBVIOUS
  <2> QED BY <2>2, <2>3, <2>4
<1> QED BY <1>1, <1>2

(* There are finitely many.                                                *)
LEMMA CountIsNat ==
  ASSUME NEW bag, NEW k \in Nat, \A a \in 0..(k - 1) : bag[a] \in Nat
  PROVE  /\ IsFiniteSet(Gate!Younger(bag, k))
         /\ Gate!Count(bag, k) = Cardinality(Gate!Younger(bag, k))
         /\ Gate!Count(bag, k) \in Nat
<1> DEFINE Per == {{a} \X (1..bag[a]) : a \in 0..(k - 1)}
           f == [a \in 0..(k - 1) |-> {a} \X (1..bag[a])]
<1>1. IsFiniteSet(0..(k - 1))
  BY FS_Interval
<1>2. IsFiniteSet(Per)
  <2>1. f \in Surjection(0..(k - 1), Per)
    BY DEF Surjection
  <2> HIDE DEF Per, f
  <2> QED BY <1>1, <2>1, FS_Surjection
<1>3. \A P \in Per : IsFiniteSet(P)
  <2> SUFFICES ASSUME NEW a \in 0..(k - 1) PROVE IsFiniteSet({a} \X (1..bag[a]))
      OBVIOUS
  <2>1. bag[a] \in Nat
    OBVIOUS
  <2>2. IsFiniteSet(1..bag[a])
    BY <2>1, FS_Interval
  <2>3. IsFiniteSet({a})
    BY FS_Singleton
  <2> QED BY <2>2, <2>3, FS_Product
<1>4. IsFiniteSet(Gate!Younger(bag, k))
  <2>1. Gate!Younger(bag, k) = UNION Per
    BY DEF Gate!Younger
  <2> HIDE DEF Per
  <2> QED BY <1>2, <1>3, <2>1, FS_UNION
<1>5. Gate!Count(bag, k) = Cardinality(Gate!Younger(bag, k))
  BY GateCardinality DEF Gate!Count
<1> QED BY <1>4, <1>5, FS_CardinalityType

(* A shorter look, or at less, counts no more.                             *)
LEMMA CountLess ==
  ASSUME NEW bag, NEW less, NEW k \in Nat, NEW j \in Nat, j <= k,
         \A a \in 0..(k - 1) : bag[a] \in Nat,
         \A a \in 0..(j - 1) : less[a] \in Nat /\ less[a] <= bag[a]
  PROVE  Gate!Count(less, j) <= Gate!Count(bag, k)
<1>1. Gate!Younger(less, j) \in SUBSET Gate!Younger(bag, k)
  <2>1. ASSUME NEW a \in Nat, NEW i \in Nat, <<a, i>> \in Gate!Younger(less, j)
        PROVE  <<a, i>> \in Gate!Younger(bag, k)
    <3>1. a < j /\ 0 < i /\ i <= less[a]
      BY <2>1, AnEvent
    <3>2. a \in 0..(j - 1) /\ a \in 0..(k - 1)
      BY <3>1
    <3>3. less[a] \in Nat /\ less[a] <= bag[a] /\ bag[a] \in Nat
      BY <3>2
    <3>4. i <= bag[a]
      BY <3>1, <3>3
    <3> QED BY <3>1, <3>2, <3>4, AnEvent
  <2>2. Gate!Younger(less, j) \in SUBSET (Nat \X Nat)
    BY AnEvent
  <2> QED BY <2>1, <2>2
<1> QED BY <1>1, CountIsNat, FS_Subset

LEMMA CountSame ==
  ASSUME NEW bag, NEW like, NEW k \in Nat,
         \A a \in 0..(k - 1) : bag[a] \in Nat /\ like[a] = bag[a]
  PROVE  Gate!Count(like, k) = Gate!Count(bag, k)
<1>1. \A a \in 0..(k - 1) : /\ bag[a] \in Nat /\ like[a] \in Nat
                            /\ like[a] <= bag[a] /\ bag[a] <= like[a]
  OBVIOUS
<1>2. k <= k
  OBVIOUS
<1>3. Gate!Count(like, k) <= Gate!Count(bag, k)
  BY <1>1, <1>2, CountLess
<1>4. Gate!Count(bag, k) <= Gate!Count(like, k)
  BY <1>1, <1>2, CountLess
<1>5. Gate!Count(like, k) \in Nat /\ Gate!Count(bag, k) \in Nat
  BY <1>1, CountIsNat
<1> QED BY <1>3, <1>4, <1>5

(* A new event is one more.                                                *)
LEMMA CountOneMore ==
  ASSUME NEW bag, NEW more, NEW k \in Nat \ {0},
         \A a \in 0..(k - 1) : bag[a] \in Nat /\ more[a] = IF a = 0 THEN bag[a] + 1 ELSE bag[a]
  PROVE  Gate!Count(more, k) = Gate!Count(bag, k) + 1
<1> DEFINE new == <<0, bag[0] + 1>>
<1>1. bag[0] \in Nat /\ more[0] = bag[0] + 1 /\ \A a \in 0..(k - 1) : more[a] \in Nat
  OBVIOUS
<1>2. new \notin Gate!Younger(bag, k)
  BY <1>1, AnEvent
<1>3. Gate!Younger(more, k) = Gate!Younger(bag, k) \cup {new}
  <2>1. ASSUME NEW a \in Nat, NEW i \in Nat
        PROVE  <<a, i>> \in Gate!Younger(more, k)
                 <=> <<a, i>> \in Gate!Younger(bag, k) \/ <<a, i>> = new
    <3>1. CASE a = 0
      <4>1. <<a, i>> \in Gate!Younger(more, k) <=> 0 < i /\ i <= bag[0] + 1
        BY <1>1, <3>1, AnEvent
      <4>2. <<a, i>> \in Gate!Younger(bag, k) <=> 0 < i /\ i <= bag[0]
        BY <1>1, <3>1, AnEvent
      <4>3. <<a, i>> = new <=> i = bag[0] + 1
        BY <3>1
      <4> QED BY <1>1, <4>1, <4>2, <4>3
    <3>2. CASE a # 0
      <4>1. a < k => more[a] = bag[a]
        BY <3>2
      <4>2. <<a, i>> # new
        BY <3>2
      <4> QED BY <1>1, <4>1, <4>2, AnEvent
    <3> QED BY <3>1, <3>2
  <2>2. /\ Gate!Younger(more, k) \in SUBSET (Nat \X Nat)
        /\ Gate!Younger(bag, k) \in SUBSET (Nat \X Nat)
    BY <1>1, AnEvent
  <2>3. new \in Nat \X Nat
    BY <1>1
  <2> HIDE DEF new
  <2> QED BY <2>1, <2>2, <2>3
<1>4. IsFiniteSet(Gate!Younger(bag, k))
  BY CountIsNat
<1>5. Cardinality(Gate!Younger(more, k)) = Cardinality(Gate!Younger(bag, k)) + 1
  <2> HIDE DEF new
  <2> QED BY <1>2, <1>3, <1>4, FS_AddElement
<1> QED BY <1>1, <1>5, CountIsNat

(* A tick moves every event one on: what is younger than k + 1 was younger *)
(* than k.                                                                 *)
LEMMA CountOlder ==
  ASSUME NEW bag, NEW older, NEW k \in Nat, \A a \in 0..k : bag[a] \in Nat,
         \A a \in 0..k : older[a] = IF a = 0 THEN 0 ELSE bag[a - 1]
  PROVE  Gate!Count(older, k + 1) <= Gate!Count(bag, k)
<1> DEFINE Y == Gate!Younger(older, k + 1)
           f == [e \in Y |-> <<e[1] - 1, e[2]>>]
<1>1. \A a \in 0..k : older[a] \in Nat
  <2> SUFFICES ASSUME NEW a \in 0..k PROVE older[a] \in Nat
      OBVIOUS
  <2>1. a # 0 => a - 1 \in 0..k
    OBVIOUS
  <2> QED BY <2>1
<1>2. \A a \in 0..((k + 1) - 1) : older[a] \in Nat
  BY <1>1
<1>3. Y \in SUBSET (Nat \X Nat)
  BY <1>2, AnEvent
<1>4. ASSUME NEW e \in Y
      PROVE  /\ e[1] \in Nat \ {0} /\ e[2] \in Nat /\ e = <<e[1], e[2]>>
             /\ f[e] \in Gate!Younger(bag, k)
  <2>1. e[1] \in Nat /\ e[2] \in Nat /\ e = <<e[1], e[2]>>
    BY <1>3
  <2>2. e[1] < k + 1 /\ 0 < e[2] /\ e[2] <= older[e[1]]
    BY <1>2, <2>1, AnEvent
  <2>3. e[1] \in 0..k
    BY <2>1, <2>2
  <2>4. e[1] # 0 /\ e[2] <= bag[e[1] - 1]
    BY <2>1, <2>2, <2>3
  <2>5. e[1] - 1 \in Nat /\ e[1] - 1 < k
    BY <2>1, <2>2, <2>4
  <2>6. <<e[1] - 1, e[2]>> \in Gate!Younger(bag, k)
    BY <2>1, <2>2, <2>4, <2>5, AnEvent
  <2> QED BY <2>1, <2>4, <2>6
<1>5. ASSUME NEW d \in Y, NEW e \in Y, f[d] = f[e]
      PROVE  d = e
  <2>1. d[1] - 1 = e[1] - 1 /\ d[2] = e[2]
    BY <1>5
  <2>2. d[1] \in Nat /\ e[1] \in Nat /\ d = <<d[1], d[2]>> /\ e = <<e[1], e[2]>>
    BY <1>4
  <2>3. \A m, n \in Nat : m - 1 = n - 1 => m = n
    OBVIOUS
  <2>4. d[1] = e[1]
    <3> HIDE DEF Y, f
    <3> QED BY <2>1, <2>2, <2>3
  <2> QED BY <2>1, <2>2, <2>4
<1> HIDE DEF Y
<1>6. f \in Injection(Y, Gate!Younger(bag, k))
  BY <1>4, <1>5 DEF Injection, IsInjective
<1> HIDE DEF f
<1>7. IsFiniteSet(Gate!Younger(bag, k))
  BY CountIsNat
<1>8. Cardinality(Y) <= Cardinality(Gate!Younger(bag, k))
  BY <1>6, <1>7, FS_Injection
<1> QED BY <1>2, <1>8, CountIsNat DEF Y

-----------------------------------------------------------------------------
(* The gate's transaction, the tick and the prune, bucket by bucket.       *)

LEMMA BucketsAreBuckets ==
  ASSUME NEW n \in Network
  PROVE  n \in Gate!BucketsOf(n) /\ Gate!BucketsOf(n) \in SUBSET Gate!Bucket
  BY GateAssumptions DEF Gate!BucketsOf, Gate!Bucket

LEMMA Hit ==
  ASSUME Gate!TypeOK, NEW n \in Network, Gate!HitAll(n)
  PROVE  /\ req' \in [Gate!Bucket -> [0..Window -> Nat]]
         /\ \A b \in Gate!Bucket : \A a \in 0..(Window - 1) :
              req'[b][a] = IF b \in Gate!PlacesOf(n) /\ a = 0 THEN req[b][a] + 1
                           ELSE req[b][a]
         /\ Gate!PlacesOf(n) \in SUBSET Gate!BucketsOf(n)
<1>1. Gate!PlacesOf(n) \in SUBSET Gate!BucketsOf(n)
  BY DEF Gate!PlacesOf
<1>2. ASSUME NEW b \in Gate!Bucket
      PROVE  /\ req'[b] \in [0..Window -> Nat]
             /\ \A a \in 0..(Window - 1) :
                  req'[b][a] = IF b \in Gate!PlacesOf(n) /\ a = 0 THEN req[b][a] + 1
                               ELSE req[b][a]
  <2>0. req[b] \in [0..Window -> Nat] /\ Window \in Nat \ {0}
    BY GateAssumptions DEF Gate!TypeOK
  <2>1. CASE b \notin Gate!BucketsOf(n)
    <3>1. req'[b] = req[b]
      BY <2>1 DEF Gate!HitAll
    <3> QED BY <1>1, <2>0, <2>1, <3>1
  <2>2. CASE b \in Gate!BucketsOf(n)
    <3> DEFINE bag == Gate!Swept(req[b])
               one == IF b \in Gate!PlacesOf(n) THEN 1 ELSE 0
    <3>1. req'[b] = [bag EXCEPT ![0] = bag[0] + one]
      BY <2>2 DEF Gate!HitAll
    <3>2. bag \in [0..Window -> Nat] /\ \A a \in 0..(Window - 1) : bag[a] = req[b][a]
      BY <2>0 DEF Gate!Swept
    <3>3. one \in {0, 1} /\ (one = 1 <=> b \in Gate!PlacesOf(n))
      OBVIOUS
    <3>4. 0 \in 0..Window /\ 0 \in 0..(Window - 1)
      BY <2>0
    <3> HIDE DEF bag, one
    <3>5. bag[0] + one \in Nat
      BY <3>2, <3>3, <3>4
    <3>6. req'[b] \in [0..Window -> Nat]
      BY <3>1, <3>2, <3>5
    <3>7. ASSUME NEW a \in 0..(Window - 1)
          PROVE  req'[b][a] = IF b \in Gate!PlacesOf(n) /\ a = 0 THEN req[b][a] + 1
                              ELSE req[b][a]
      <4>1. a \in 0..Window /\ bag[a] = req[b][a] /\ req[b][a] \in Nat
        BY <2>0, <3>2
      <4>2. a = 0 => req'[b][a] = req[b][a] + one
        BY <3>1, <3>2, <3>4, <4>1
      <4>3. a # 0 => req'[b][a] = req[b][a]
        BY <3>1, <3>2, <4>1
      <4> QED BY <3>3, <4>1, <4>2, <4>3
    <3> QED BY <3>6, <3>7
  <2> QED BY <2>1, <2>2
<1>3. req' = [b \in Gate!Bucket |-> req'[b]]
  BY DEF Gate!HitAll
<1>4. req' \in [Gate!Bucket -> [0..Window -> Nat]]
  BY <1>2, <1>3
<1> QED BY <1>1, <1>2, <1>4

(* A bag after a tick.                                                     *)
LEMMA OlderBag ==
  ASSUME NEW n \in Nat, NEW bag, \A a \in 0..n : bag[a] \in Nat
  PROVE  /\ Gate!Older(bag, n) \in [0..n -> Nat]
         /\ \A a \in 0..n : Gate!Older(bag, n)[a] = IF a = 0 THEN 0 ELSE bag[a - 1]
<1>1. \A a \in 0..n : a # 0 => a - 1 \in 0..n
  OBVIOUS
<1> QED BY <1>1 DEF Gate!Older

LEMMA Ticked ==
  ASSUME Gate!TypeOK, Gate!Tick
  PROVE  /\ req' \in [Gate!Bucket -> [0..Window -> Nat]]
         /\ fails' \in [Gate!Bucket -> [0..(Window - 1) -> Nat]]
         /\ served' \in [Gate!Bucket -> [0..(Window - 1) -> Nat]]
         /\ rows' \in [0..(Day - 1) -> Nat]
         /\ \A b \in Gate!Bucket : \A a \in 0..(Window - 1) :
              /\ req'[b][a] = IF a = 0 THEN 0 ELSE req[b][a - 1]
              /\ served'[b][a] = IF a = 0 THEN 0 ELSE served[b][a - 1]
              /\ fails'[b][a] = IF a = 0 THEN 0 ELSE fails[b][a - 1]
         /\ \A a \in 0..(Day - 1) : rows'[a] = IF a = 0 THEN 0 ELSE rows[a - 1]
<1>0. Window \in Nat \ {0} /\ Day \in Nat \ {0} /\ Window - 1 \in Nat /\ Day - 1 \in Nat
  BY GateAssumptions
<1>1. ASSUME NEW b \in Gate!Bucket
      PROVE  /\ req'[b] \in [0..Window -> Nat]
             /\ \A a \in 0..(Window - 1) : req'[b][a] = IF a = 0 THEN 0 ELSE req[b][a - 1]
  <2>1. req[b] \in [0..Window -> Nat]
    BY DEF Gate!TypeOK
  <2> DEFINE O == Gate!Older(req[b], Window)
  <2>2. O \in [0..Window -> Nat]
        /\ \A a \in 0..Window : O[a] = IF a = 0 THEN 0 ELSE req[b][a - 1]
    <3>1. \A a \in 0..Window : req[b][a] \in Nat
      BY <2>1
    <3> QED BY <1>0, <3>1, OlderBag
  <2>3. req'[b] = [O EXCEPT ![Window] = O[Window] + req[b][Window]]
    BY DEF Gate!Tick
  <2> HIDE DEF O
  <2>4. O[Window] + req[b][Window] \in Nat
    BY <1>0, <2>1, <2>2
  <2>5. req'[b] \in [0..Window -> Nat]
    BY <2>2, <2>3, <2>4
  <2>6. ASSUME NEW a \in 0..(Window - 1)
        PROVE  req'[b][a] = IF a = 0 THEN 0 ELSE req[b][a - 1]
    <3>1. a \in 0..Window /\ a # Window
      BY <1>0
    <3>2. req'[b][a] = O[a]
      BY <2>2, <2>3, <3>1
    <3> QED BY <2>2, <3>1, <3>2
  <2> QED BY <2>5, <2>6
<1> DEFINE IsOlder(bag, older, k) ==
      /\ older \in [0..k -> Nat]
      /\ \A a \in 0..k : older[a] = IF a = 0 THEN 0 ELSE bag[a - 1]
<1>2. ASSUME NEW k \in Nat, NEW bag, \A a \in 0..k : bag[a] \in Nat
      PROVE  IsOlder(bag, Gate!Older(bag, k), k)
  BY <1>2, OlderBag
<1>3. ASSUME NEW b \in Gate!Bucket
      PROVE  /\ served'[b] \in [0..(Window - 1) -> Nat] /\ fails'[b] \in [0..(Window - 1) -> Nat]
             /\ \A a \in 0..(Window - 1) :
                  /\ served'[b][a] = IF a = 0 THEN 0 ELSE served[b][a - 1]
                  /\ fails'[b][a] = IF a = 0 THEN 0 ELSE fails[b][a - 1]
  <2>1. /\ \A a \in 0..(Window - 1) : served[b][a] \in Nat
        /\ \A a \in 0..(Window - 1) : fails[b][a] \in Nat
    BY DEF Gate!TypeOK
  <2>2. /\ served'[b] = Gate!Older(served[b], Window - 1)
        /\ fails'[b] = Gate!Older(fails[b], Window - 1)
    BY DEF Gate!Tick
  <2> HIDE DEF IsOlder
  <2>3. IsOlder(served[b], served'[b], Window - 1) /\ IsOlder(fails[b], fails'[b], Window - 1)
    BY <1>0, <1>2, <2>1, <2>2
  <2> QED BY <2>3 DEF IsOlder
<1>4. /\ rows' \in [0..(Day - 1) -> Nat]
      /\ \A a \in 0..(Day - 1) : rows'[a] = IF a = 0 THEN 0 ELSE rows[a - 1]
  <2>1. \A a \in 0..(Day - 1) : rows[a] \in Nat
    BY DEF Gate!TypeOK
  <2>2. rows' = Gate!Older(rows, Day - 1)
    BY DEF Gate!Tick
  <2> HIDE DEF IsOlder
  <2>3. IsOlder(rows, rows', Day - 1)
    BY <1>0, <1>2, <2>1, <2>2
  <2> QED BY <2>3 DEF IsOlder
<1>5. /\ req' = [b \in Gate!Bucket |-> req'[b]] /\ fails' = [b \in Gate!Bucket |-> fails'[b]]
      /\ served' = [b \in Gate!Bucket |-> served'[b]]
  BY DEF Gate!Tick
<1>6. req' \in [Gate!Bucket -> [0..Window -> Nat]]
  BY <1>1, <1>5
<1>7. /\ fails' \in [Gate!Bucket -> [0..(Window - 1) -> Nat]]
      /\ served' \in [Gate!Bucket -> [0..(Window - 1) -> Nat]]
  BY <1>3, <1>5
<1> QED BY <1>1, <1>3, <1>4, <1>6, <1>7

(* The prune takes nothing that counts.                                    *)
LEMMA Pruned ==
  ASSUME Gate!TypeOK, Gate!Prune
  PROVE  /\ req' \in [Gate!Bucket -> [0..Window -> Nat]]
         /\ \A b \in Gate!Bucket : \A a \in 0..(Window - 1) : req'[b][a] = req[b][a]
<1>0. Window \in Nat \ {0}
  BY GateAssumptions
<1>1. req' = [b \in Gate!Bucket |-> [a \in 0..Window |-> IF a >= Window THEN 0 ELSE req[b][a]]]
  BY DEF Gate!Prune, Gate!Lifetime
<1>2. \A b \in Gate!Bucket : \A a \in 0..Window : req[b][a] \in Nat
  BY DEF Gate!TypeOK
<1>3. req' \in [Gate!Bucket -> [0..Window -> Nat]]
  BY <1>1, <1>2
<1>4. \A b \in Gate!Bucket : \A a \in 0..(Window - 1) : req'[b][a] = req[b][a]
  BY <1>0, <1>1
<1> QED BY <1>3, <1>4

(* A full bucket has an oldest request, and retry_after lasts until it no  *)
(* longer counts.                                                          *)
LEMMA FullHasOldest ==
  ASSUME Gate!TypeOK, NEW b \in Gate!Bucket, Gate!Full(b)
  PROVE  /\ Gate!Oldest(b) \in 0..(Window - 1)
         /\ req[b][Gate!Oldest(b)] > 0
<1> DEFINE S == {a \in 0..(Window - 1) : req[b][a] > 0}
<1>0. /\ Window \in Nat \ {0} /\ Window - 1 \in Nat /\ Limit[b] \in Nat \ {0}
      /\ \A a \in 0..(Window - 1) : req[b][a] \in Nat
  BY GateAssumptions DEF Gate!TypeOK
<1>1. Gate!Younger(req[b], Window) # {}
  <2>1. Gate!Count(req[b], Window) > 0
    BY <1>0, CountIsNat DEF Gate!Full
  <2> QED BY <1>0, <2>1, CountIsNat, FS_EmptySet
<1>2. S # {}
  <2>1. PICK e \in Gate!Younger(req[b], Window) : TRUE
    BY <1>1
  <2>2. e \in Nat \X Nat
    BY <1>0, <2>1, AnEvent
  <2>3. e[1] \in Nat /\ e[2] \in Nat /\ <<e[1], e[2]>> \in Gate!Younger(req[b], Window)
    BY <2>1, <2>2
  <2>4. e[1] < Window /\ 0 < e[2] /\ e[2] <= req[b][e[1]]
    BY <1>0, <2>3, AnEvent
  <2>5. e[1] \in 0..(Window - 1) /\ req[b][e[1]] \in Nat
    BY <1>0, <2>3, <2>4
  <2>6. req[b][e[1]] > 0
    BY <2>3, <2>4, <2>5
  <2> QED BY <2>5, <2>6
<1>3. Gate!Oldest(b) = Gate!Max(S)
  BY DEF Gate!Oldest
<1>4. Gate!Max(S) \in S
  BY <1>0, <1>2, GreatestUpTo
<1> QED BY <1>3, <1>4

LEMMA WaitLasts ==
  ASSUME Gate!TypeOK, NEW n \in Network,
         \E b \in Gate!BucketsOf(n) : Gate!Full(b)
  PROVE  /\ Gate!Wait(n) \in 0..Window
         /\ \A b \in Gate!BucketsOf(n) :
              Gate!Full(b) => Window - Gate!Wait(n) <= Gate!Oldest(b)
<1> DEFINE F == {c \in Gate!BucketsOf(n) : Gate!Full(c)}
           S == {Window - Gate!Oldest(b) : b \in F}
<1>1. \A b \in F : Gate!Oldest(b) \in 0..(Window - 1)
  BY FullHasOldest, BucketsAreBuckets
<1>2. Window \in Nat
  BY GateAssumptions
<1>3. S \in SUBSET (0..Window)
  <2> HIDE DEF F
  <2> QED BY <1>1, <1>2
<1>4. S # {}
  OBVIOUS
<1>5. Gate!Wait(n) = Gate!Max(S)
  BY DEF Gate!Wait
<1> HIDE DEF S
<1>6. Gate!Wait(n) \in S /\ \A x \in S : x <= Gate!Wait(n)
  BY <1>2, <1>3, <1>4, <1>5, GreatestUpTo
<1>7. Gate!Wait(n) \in 0..Window
  BY <1>3, <1>6
<1>8. ASSUME NEW b \in Gate!BucketsOf(n), Gate!Full(b)
      PROVE  Window - Gate!Wait(n) <= Gate!Oldest(b)
  <2>1. Window - Gate!Oldest(b) \in S
    BY <1>8 DEF S
  <2>2. Gate!Oldest(b) \in 0..(Window - 1)
    BY <1>1, <1>8
  <2>3. Window - Gate!Oldest(b) <= Gate!Wait(n)
    BY <1>6, <2>1
  <2> QED BY <1>2, <1>7, <2>2, <2>3
<1> QED BY <1>7, <1>8

(* Only a request past the gate has a network.                             *)
LEMMA HeldRequest ==
  ASSUME NEW r \in Gate!Request, r.at \in {"gated", "checking"}
  PROVE  r \in [at: {"gated", "checking"}, net: Network, defer: BOOLEAN]
<1>1. r # Gate!Idle
  BY DEF Gate!Idle
<1>2. r # Gate!SigningUp
  BY DEF Gate!SigningUp
<1> QED BY <1>1, <1>2 DEF Gate!Request

(* The state keeps its type.                                               *)
THEOREM GateTypes == Gate!Spec => []Gate!TypeOK
<1>0. /\ Window \in Nat \ {0} /\ Day \in Nat \ {0} /\ Hour \in Nat \ {0}
      /\ Gate!Idle \in Gate!Request /\ Gate!SigningUp \in Gate!Request
  BY GateAssumptions DEF Gate!Request
<1>1. Gate!Init => Gate!TypeOK
  <2> SUFFICES ASSUME Gate!Init PROVE Gate!TypeOK
      OBVIOUS
  <2>1. /\ req \in [Gate!Bucket -> [0..Window -> Nat]]
        /\ fails \in [Gate!Bucket -> [0..(Window - 1) -> Nat]]
        /\ served \in [Gate!Bucket -> [0..(Window - 1) -> Nat]]
        /\ rows \in [0..(Day - 1) -> Nat]
    BY DEF Gate!Init
  <2>2. newdev \in [Token -> Gate!NewToken \cup {Nothing}] /\ worker \in [Worker -> Gate!Request]
    BY <1>0 DEF Gate!Init
  <2> QED BY <2>1, <2>2 DEF Gate!Init, Gate!TypeOK
<1>2. Gate!TypeOK /\ [Gate!Next]_Gate!vars => Gate!TypeOK'
  <2> SUFFICES ASSUME Gate!TypeOK, [Gate!Next]_Gate!vars PROVE Gate!TypeOK'
      OBVIOUS
  <2>0. /\ req \in [Gate!Bucket -> [0..Window -> Nat]]
        /\ newdev \in [Token -> Gate!NewToken \cup {Nothing}]
        /\ fails \in [Gate!Bucket -> [0..(Window - 1) -> Nat]]
        /\ rows \in [0..(Day - 1) -> Nat]
        /\ worker \in [Worker -> Gate!Request]
        /\ served \in [Gate!Bucket -> [0..(Window - 1) -> Nat]]
        /\ told \in Gate!Watch \cup {Nothing}
    BY DEF Gate!TypeOK
  <2>1. ASSUME NEW w \in Worker, NEW n \in Network, Gate!Admit(w, n)
        PROVE  Gate!TypeOK'
    <3>1. req' \in [Gate!Bucket -> [0..Window -> Nat]]
      BY <2>1, Hit DEF Gate!Admit
    <3>2. worker' \in [Worker -> Gate!Request]
      <4>1. Gate!Asked(n, Gate!Deferred(n)) \in Gate!Request
        <5>1. Gate!Deferred(n) \in BOOLEAN
          BY DEF Gate!Deferred
        <5> HIDE DEF Gate!Deferred
        <5> QED BY <5>1 DEF Gate!Asked, Gate!Request
      <4>2. worker' = [worker EXCEPT ![w] = Gate!Asked(n, Gate!Deferred(n))]
        BY <2>1 DEF Gate!Admit
      <4> QED BY <2>0, <4>1, <4>2
    <3>3. served' \in [Gate!Bucket -> [0..(Window - 1) -> Nat]]
      <4>1. \A b \in Gate!Bucket : [served[b] EXCEPT ![0] = served[b][0] + 1]
                                     \in [0..(Window - 1) -> Nat]
        BY <1>0, <2>0
      <4>2. served' = [b \in Gate!Bucket |->
                         IF b \in Gate!BucketsOf(n) THEN [served[b] EXCEPT ![0] = served[b][0] + 1]
                         ELSE served[b]]
        BY <2>1 DEF Gate!Admit
      <4> QED BY <2>0, <4>1, <4>2
    <3>4. told' \in Gate!Watch \cup {Nothing}
      BY <2>0, <2>1 DEF Gate!Admit
    <3>5. UNCHANGED <<newdev, fails, rows>>
      BY <2>1 DEF Gate!Admit
    <3> QED BY <2>0, <3>1, <3>2, <3>3, <3>4, <3>5 DEF Gate!TypeOK
  <2>2. ASSUME NEW w \in Worker, NEW n \in Network, Gate!Refuse(w, n)
        PROVE  Gate!TypeOK'
    <3>1. req' \in [Gate!Bucket -> [0..Window -> Nat]]
      BY <2>2, Hit DEF Gate!Refuse
    <3>2. Gate!Wait(n) \in 0..Window
      BY <2>2, WaitLasts DEF Gate!Refuse
    <3>3. told' \in Gate!Watch
      <4>1. told' = [net |-> n, left |-> Gate!Wait(n)]
        BY <2>2 DEF Gate!Refuse
      <4> HIDE DEF Gate!Wait
      <4> QED BY <3>2, <4>1 DEF Gate!Watch
    <3>4. UNCHANGED <<newdev, fails, rows, worker, served>>
      BY <2>2 DEF Gate!Refuse
    <3> QED BY <2>0, <3>1, <3>3, <3>4 DEF Gate!TypeOK
  <2>3. ASSUME NEW w \in Worker, Gate!Leave(w)
        PROVE  Gate!TypeOK'
    BY <1>0, <2>0, <2>3 DEF Gate!Leave, Gate!TypeOK
  <2>4. ASSUME NEW w \in Worker, Gate!CheckIntegrity(w)
        PROVE  Gate!TypeOK'
    <3>1. worker[w] \in [at: {"gated", "checking"}, net: Network, defer: BOOLEAN]
      BY <2>0, <2>4, HeldRequest DEF Gate!CheckIntegrity
    <3>2. [worker[w] EXCEPT !.at = "checking"] \in Gate!Request
      BY <3>1 DEF Gate!Request
    <3>3. worker' = [worker EXCEPT ![w] = [worker[w] EXCEPT !.at = "checking"]]
          /\ UNCHANGED <<req, newdev, fails, rows, served, told>>
      BY <2>4 DEF Gate!CheckIntegrity
    <3> QED BY <2>0, <3>2, <3>3 DEF Gate!TypeOK
  <2>5. ASSUME NEW w \in Worker, Gate!FailIntegrity(w)
        PROVE  Gate!TypeOK'
    <3>1. \A b \in Gate!Bucket : [fails[b] EXCEPT ![0] = fails[b][0] + 1]
                                   \in [0..(Window - 1) -> Nat]
      BY <1>0, <2>0
    <3>2. fails' = [b \in Gate!Bucket |->
                      IF b \in Gate!BucketsOf(worker[w].net)
                      THEN [fails[b] EXCEPT ![0] = fails[b][0] + 1] ELSE fails[b]]
      BY <2>5 DEF Gate!FailIntegrity
    <3>3. fails' \in [Gate!Bucket -> [0..(Window - 1) -> Nat]]
      BY <2>0, <3>1, <3>2
    <3> QED BY <1>0, <2>0, <2>5, <3>3 DEF Gate!FailIntegrity, Gate!TypeOK
  <2>6. ASSUME NEW w \in Worker, NEW t \in Token, Gate!RecordNewDevice(w, t)
        PROVE  Gate!TypeOK'
    <3> DEFINE n == worker[w].net
               kept == [u \in Token |->
                 IF newdev[u] # Nothing /\ newdev[u].age >= Hour
                    /\ Gate!BucketsOf(newdev[u].net) \subseteq Gate!BucketsOf(n)
                 THEN Nothing ELSE newdev[u]]
               new == [net |-> n, age |-> 0, device |-> "waits", now |-> ~worker[w].defer]
    <3>1. kept \in [Token -> Gate!NewToken \cup {Nothing}]
      BY <2>0
    <3>2. new \in Gate!NewToken
      <4>1. n \in Network
        <5>1. worker[w] \in Gate!Request /\ worker[w].at \in {"gated", "checking"}
          BY <2>0, <2>6 DEF Gate!RecordNewDevice, Gate!Holds
        <5> QED BY <5>1, HeldRequest
      <4> QED BY <1>0, <4>1 DEF Gate!NewToken
    <3>3. newdev' = [kept EXCEPT ![t] = new]
          /\ worker' = [worker EXCEPT ![w] = Gate!Idle]
          /\ UNCHANGED <<req, fails, rows, served, told>>
      BY <2>6, Zenon DEF Gate!RecordNewDevice
    <3> HIDE DEF kept, new
    <3> QED BY <1>0, <2>0, <3>1, <3>2, <3>3 DEF Gate!TypeOK
  <2>7. ASSUME NEW w \in Worker, Gate!AskEmail(w) \/ Gate!Insert(w)
        PROVE  Gate!TypeOK'
    <3>1. [rows EXCEPT ![0] = rows[0] + 1] \in [0..(Day - 1) -> Nat]
      BY <1>0, <2>0
    <3> QED BY <1>0, <2>0, <2>7, <3>1 DEF Gate!AskEmail, Gate!Insert, Gate!TypeOK
  <2>8. ASSUME NEW t \in Token, Gate!Verify(t)
        PROVE  Gate!TypeOK'
    <3>1. newdev[t] \in Gate!NewToken
      BY <2>0, <2>8 DEF Gate!Verify, Gate!Young
    <3>2. [newdev[t] EXCEPT !.device = "verified", !.now = FALSE] \in Gate!NewToken
      BY <3>1 DEF Gate!NewToken
    <3>3. newdev' = [newdev EXCEPT ![t] = [newdev[t] EXCEPT !.device = "verified", !.now = FALSE]]
          /\ UNCHANGED <<req, fails, rows, worker, served, told>>
      BY <2>0, <2>8 DEF Gate!Verify
    <3> QED BY <2>0, <3>2, <3>3 DEF Gate!TypeOK
  <2>9. ASSUME NEW t \in Token, NEW fate \in {"waits", "gone"}, Gate!Lose(t, fate)
        PROVE  Gate!TypeOK'
    <3>1. newdev[t] \in Gate!NewToken
      BY <2>0, <2>9 DEF Gate!Lose, Gate!Young
    <3>2. [newdev[t] EXCEPT !.device = fate] \in Gate!NewToken
      BY <3>1 DEF Gate!NewToken
    <3>3. newdev' = [newdev EXCEPT ![t] = [newdev[t] EXCEPT !.device = fate]]
          /\ UNCHANGED <<req, fails, rows, worker, served, told>>
      BY <2>9 DEF Gate!Lose
    <3> QED BY <2>0, <3>2, <3>3 DEF Gate!TypeOK
  <2>10. ASSUME Gate!Prune
         PROVE  Gate!TypeOK'
    <3>1. req' \in [Gate!Bucket -> [0..Window -> Nat]]
      BY <2>10, Pruned
    <3>2. newdev' \in [Token -> Gate!NewToken \cup {Nothing}]
      BY <2>0, <2>10 DEF Gate!Prune
    <3> QED BY <2>0, <2>10, <3>1, <3>2 DEF Gate!Prune, Gate!TypeOK
  <2>11. ASSUME Gate!Tick
         PROVE  Gate!TypeOK'
    <3>1. newdev' \in [Token -> Gate!NewToken \cup {Nothing}]
      <4>1. ASSUME NEW t \in Token, newdev[t] # Nothing
            PROVE  /\ [net |-> newdev[t].net, age |-> Hour, device |-> "gone", now |-> FALSE]
                        \in Gate!NewToken
                   /\ newdev[t].age + 1 < Hour =>
                        [newdev[t] EXCEPT !.age = newdev[t].age + 1] \in Gate!NewToken
        <5>1. newdev[t] \in Gate!NewToken
          BY <2>0, <4>1
        <5> QED BY <1>0, <5>1 DEF Gate!NewToken
      <4>2. \A t \in Token : newdev[t] # Nothing => newdev[t].age \in Nat
        BY <2>0 DEF Gate!NewToken
      <4>3. newdev' = [t \in Token |->
              IF newdev[t] = Nothing THEN Nothing
              ELSE IF newdev[t].age + 1 >= Hour
                   THEN [net |-> newdev[t].net, age |-> Hour, device |-> "gone", now |-> FALSE]
                   ELSE [newdev[t] EXCEPT !.age = newdev[t].age + 1]]
        BY <2>11, Zenon DEF Gate!Tick
      <4>4. ASSUME NEW t \in Token
            PROVE  newdev'[t] \in Gate!NewToken \cup {Nothing}
        BY <1>0, <4>1, <4>2, <4>3
      <4> QED BY <4>3, <4>4
    <3>2. told' \in Gate!Watch \cup {Nothing}
      <4>1. CASE told = Nothing \/ told.left = 0
        BY <2>0, <2>11, <4>1 DEF Gate!Tick
      <4>2. CASE ~(told = Nothing \/ told.left = 0)
        <5>1. told' = [told EXCEPT !.left = told.left - 1] /\ told \in Gate!Watch
          BY <2>0, <2>11, <4>2 DEF Gate!Tick
        <5> QED BY <1>0, <4>2, <5>1 DEF Gate!Watch
      <4> QED BY <4>1, <4>2
    <3>3. worker' = worker
      BY <2>11 DEF Gate!Tick
    <3> QED BY <2>0, <2>11, <3>1, <3>2, <3>3, Ticked DEF Gate!TypeOK
  <2>12. CASE UNCHANGED Gate!vars
    BY <2>0, <2>12 DEF Gate!vars, Gate!TypeOK
  <2> QED
    BY <2>1, <2>2, <2>3, <2>4, <2>5, <2>6, <2>7, <2>8, <2>9, <2>10, <2>11, <2>12
       DEF Gate!Next
<1> QED BY <1>1, <1>2, PTL DEF Gate!Spec

-----------------------------------------------------------------------------
(* The places of a window.                                                 *)

LEMMA PlacesCount ==
  ASSUME Gate!TypeOK, Gate!PlacesAreServed, NEW b \in Gate!Bucket
  PROVE  /\ Window \in Nat \ {0} /\ Limit[b] \in Nat \ {0}
         /\ \A a \in 0..(Window - 1) : req[b][a] \in Nat /\ served[b][a] = req[b][a]
         /\ Gate!Count(req[b], Window) = Gate!Count(served[b], Window)
         /\ Gate!Count(req[b], Window) \in Nat /\ Gate!Count(req[b], Window) <= Limit[b]
<1>1. Window \in Nat \ {0} /\ Limit[b] \in Nat \ {0}
  BY GateAssumptions
<1>2. \A a \in 0..(Window - 1) : req[b][a] \in Nat /\ served[b][a] = req[b][a]
  BY <1>1 DEF Gate!TypeOK, Gate!PlacesAreServed
<1>3. Gate!Count(served[b], Window) = Gate!Count(req[b], Window)
  BY <1>1, <1>2, CountSame
<1>4. Gate!Count(req[b], Window) \in Nat
  BY <1>1, <1>2, CountIsNat
<1>5. Gate!Count(served[b], Window) <= Limit[b]
  BY DEF Gate!PlacesAreServed
<1> QED BY <1>1, <1>2, <1>3, <1>4, <1>5

(* For any number of workers, networks and limits: a window's places are   *)
(* its requests, and no more than the limit.                               *)
THEOREM PlacesAreServedHold == Gate!Spec => []PlacesAreServed
<1>0. Window \in Nat \ {0} /\ 0 \in 0..(Window - 1)
  BY GateAssumptions
<1>1. Gate!Init => Gate!PlacesAreServed
  <2> SUFFICES ASSUME Gate!Init, NEW b \in Gate!Bucket
               PROVE  /\ \A a \in 0..(Window - 1) : req[b][a] = served[b][a]
                      /\ Gate!Count(served[b], Window) <= Limit[b]
      BY DEF Gate!PlacesAreServed
  <2>1. \A a \in 0..(Window - 1) : served[b][a] = 0 /\ req[b][a] = 0
    BY <1>0 DEF Gate!Init
  <2>2. Gate!Younger(served[b], Window) = {}
    <3>1. \A a \in 0..(Window - 1) : served[b][a] \in Nat
      BY <2>1
    <3>2. Gate!Younger(served[b], Window) \in SUBSET (Nat \X Nat)
      BY <1>0, <3>1, AnEvent
    <3>3. ASSUME NEW a \in Nat, NEW i \in Nat, <<a, i>> \in Gate!Younger(served[b], Window)
          PROVE  FALSE
      <4>1. a < Window /\ 0 < i /\ i <= served[b][a]
        BY <1>0, <3>1, <3>3, AnEvent
      <4>2. a \in 0..(Window - 1)
        BY <1>0, <4>1
      <4> QED BY <2>1, <4>1, <4>2
    <3> QED BY <3>2, <3>3
  <2>3. Gate!Count(served[b], Window) = 0
    BY <2>2, GateCardinality, FS_EmptySet DEF Gate!Count
  <2>4. Limit[b] \in Nat
    BY GateAssumptions
  <2> QED BY <2>1, <2>3, <2>4
<1>2. Gate!TypeOK /\ Gate!PlacesAreServed /\ [Gate!Next]_Gate!vars => Gate!PlacesAreServed'
  <2> SUFFICES ASSUME Gate!TypeOK, Gate!PlacesAreServed, [Gate!Next]_Gate!vars,
                      NEW b \in Gate!Bucket
               PROVE  /\ \A a \in 0..(Window - 1) : req'[b][a] = served'[b][a]
                      /\ Gate!Count(served'[b], Window) <= Limit[b]
      BY DEF Gate!PlacesAreServed, Gate!Count, Gate!Younger
  <2>0. /\ Limit[b] \in Nat \ {0}
        /\ \A a \in 0..(Window - 1) : req[b][a] \in Nat /\ served[b][a] = req[b][a]
        /\ \A a \in 0..(Window - 1) : served[b][a] \in Nat
        /\ Gate!Count(req[b], Window) = Gate!Count(served[b], Window)
        /\ Gate!Count(req[b], Window) \in Nat /\ Gate!Count(req[b], Window) <= Limit[b]
    BY PlacesCount
  <2>1. ASSUME \A a \in 0..(Window - 1) : req'[b][a] = req[b][a], served' = served
        PROVE  /\ \A a \in 0..(Window - 1) : req'[b][a] = served'[b][a]
               /\ Gate!Count(served'[b], Window) <= Limit[b]
    BY <2>0, <2>1
  <2>2. ASSUME NEW w \in Worker, NEW n \in Network, Gate!Admit(w, n)
        PROVE  /\ \A a \in 0..(Window - 1) : req'[b][a] = served'[b][a]
               /\ Gate!Count(served'[b], Window) <= Limit[b]
    <3>1. /\ Gate!PlacesOf(n) = Gate!BucketsOf(n)
          /\ Gate!HitAll(n)
          /\ b \in Gate!BucketsOf(n) => ~Gate!Full(b)
          /\ served'[b] = IF b \in Gate!BucketsOf(n)
                          THEN [served[b] EXCEPT ![0] = served[b][0] + 1] ELSE served[b]
      BY <2>2 DEF Gate!Admit, Gate!PlacesOf
    <3>2. \A a \in 0..(Window - 1) :
             req'[b][a] = IF b \in Gate!BucketsOf(n) /\ a = 0 THEN req[b][a] + 1
                          ELSE req[b][a]
      BY <3>1, Hit
    <3>3. CASE b \notin Gate!BucketsOf(n)
      BY <2>0, <3>1, <3>2, <3>3
    <3>4. CASE b \in Gate!BucketsOf(n)
      <4>1. served[b] \in [0..(Window - 1) -> Nat]
        BY DEF Gate!TypeOK
      <4>2. served'[b] = [served[b] EXCEPT ![0] = served[b][0] + 1]
        BY <3>1, <3>4
      <4>3. \A a \in 0..(Window - 1) :
               served'[b][a] = IF a = 0 THEN served[b][a] + 1 ELSE served[b][a]
        BY <4>1, <4>2
      <4>4. Gate!Count(served'[b], Window) = Gate!Count(served[b], Window) + 1
        BY <1>0, <2>0, <4>3, CountOneMore
      <4>5. Gate!Count(req[b], Window) < Limit[b]
        BY <2>0, <3>1, <3>4 DEF Gate!Full
      <4>6. Gate!Count(served'[b], Window) <= Limit[b]
        BY <2>0, <4>4, <4>5
      <4>7. \A a \in 0..(Window - 1) : req'[b][a] = served'[b][a]
        BY <2>0, <3>2, <3>4, <4>3
      <4> QED BY <4>6, <4>7
    <3> QED BY <3>3, <3>4
  <2>3. ASSUME NEW w \in Worker, NEW n \in Network, Gate!Refuse(w, n)
        PROVE  (\A a \in 0..(Window - 1) : req'[b][a] = req[b][a]) /\ served' = served
    <3>1. Gate!PlacesOf(n) = {} /\ Gate!HitAll(n) /\ served' = served
      BY <2>3 DEF Gate!Refuse, Gate!PlacesOf
    <3> QED BY <3>1, Hit
  <2>4. ASSUME Gate!Prune
        PROVE  (\A a \in 0..(Window - 1) : req'[b][a] = req[b][a]) /\ served' = served
    BY <2>4, Pruned DEF Gate!Prune
  <2>5. ASSUME Gate!Tick
        PROVE  /\ \A a \in 0..(Window - 1) : req'[b][a] = served'[b][a]
               /\ Gate!Count(served'[b], Window) <= Limit[b]
    <3>1. \A a \in 0..(Window - 1) :
             /\ req'[b][a] = IF a = 0 THEN 0 ELSE req[b][a - 1]
             /\ served'[b][a] = IF a = 0 THEN 0 ELSE served[b][a - 1]
      BY <2>5, Ticked
    <3>2. \A a \in 0..(Window - 1) : a # 0 => a - 1 \in 0..(Window - 1)
      BY <1>0
    <3>3. \A a \in 0..(Window - 1) : req'[b][a] = served'[b][a]
      BY <2>0, <3>1, <3>2
    <3>4. Gate!Count(served'[b], Window) <= Gate!Count(served[b], Window - 1)
      <4> DEFINE k == Window - 1
      <4>1. k \in Nat /\ k + 1 = Window /\ \A a \in 0..k : served[b][a] \in Nat
        BY <1>0, <2>0
      <4>2. \A a \in 0..k : served'[b][a] = IF a = 0 THEN 0 ELSE served[b][a - 1]
        BY <3>1
      <4> HIDE DEF k
      <4>3. Gate!Count(served'[b], k + 1) <= Gate!Count(served[b], k)
        BY <4>1, <4>2, CountOlder
      <4> QED BY <4>1, <4>3 DEF k
    <3>5. Gate!Count(served[b], Window - 1) <= Gate!Count(served[b], Window)
      <4>1. Window - 1 \in Nat /\ Window - 1 <= Window /\ Window \in Nat
        BY <1>0
      <4>2. \A a \in 0..((Window - 1) - 1) : served[b][a] \in Nat /\ served[b][a] <= served[b][a]
        BY <1>0, <2>0
      <4> QED BY <2>0, <4>1, <4>2, CountLess
    <3>6. Gate!Count(served'[b], Window) \in Nat /\ Gate!Count(served[b], Window - 1) \in Nat
      <4>1. \A a \in 0..(Window - 1) : served'[b][a] \in Nat
        BY <2>0, <3>1, <3>2
      <4>2. Window - 1 \in Nat /\ \A a \in 0..((Window - 1) - 1) : served[b][a] \in Nat
        BY <1>0, <2>0
      <4> QED BY <1>0, <4>1, <4>2, CountIsNat
    <3> QED BY <2>0, <3>3, <3>4, <3>5, <3>6
  <2>6. ASSUME UNCHANGED <<req, served>>
        PROVE  (\A a \in 0..(Window - 1) : req'[b][a] = req[b][a]) /\ served' = served
    BY <2>6
  <2>7. ASSUME NEW w \in Worker,
               \/ \E t \in Token : Gate!RecordNewDevice(w, t)
               \/ Gate!CheckIntegrity(w) \/ Gate!FailIntegrity(w)
               \/ Gate!Leave(w) \/ Gate!AskEmail(w) \/ Gate!Insert(w)
        PROVE  UNCHANGED <<req, served>>
    <3>1. ASSUME NEW t \in Token, Gate!RecordNewDevice(w, t)
          PROVE  UNCHANGED <<req, served>>
      BY <3>1, Zenon DEF Gate!RecordNewDevice
    <3> QED BY <2>7, <3>1 DEF Gate!CheckIntegrity, Gate!FailIntegrity, Gate!Leave,
                              Gate!AskEmail, Gate!Insert
  <2>8. ASSUME NEW t \in Token, Gate!Verify(t) \/ \E fate \in {"waits", "gone"} : Gate!Lose(t, fate)
        PROVE  UNCHANGED <<req, served>>
    BY <2>8 DEF Gate!Verify, Gate!Lose
  <2>9. UNCHANGED Gate!vars => UNCHANGED <<req, served>>
    BY DEF Gate!vars
  <2> QED
    BY <2>1, <2>2, <2>3, <2>4, <2>5, <2>6, <2>7, <2>8, <2>9 DEF Gate!Next
<1> QED BY <1>1, <1>2, SameLimits, GateTypes, PTL DEF Gate!Spec

(* A refused client: when what is left of its wait has passed too, the     *)
(* requests that then still count leave room.                              *)
Waited ==
  told # Nothing =>
    /\ told.net \in Network /\ told.left \in 0..Window
    /\ \A b \in Gate!BucketsOf(told.net) :
         Gate!Count(req[b], Window - told.left) < Limit[b]

LEMMA WaitedRefuse ==
  ASSUME Gate!TypeOK, Gate!PlacesAreServed, NEW w \in Worker,
         NEW n \in Network, Gate!Refuse(w, n)
  PROVE  Waited'
<1> DEFINE k == Window - Gate!Wait(n)
<1>1. /\ told' = [net |-> n, left |-> Gate!Wait(n)]
      /\ Gate!HitAll(n) /\ Gate!PlacesOf(n) = {}
      /\ \E b \in Gate!BucketsOf(n) : Gate!Full(b)
  BY DEF Gate!Refuse, Gate!PlacesOf
<1>2. /\ Gate!Wait(n) \in 0..Window
      /\ \A b \in Gate!BucketsOf(n) : Gate!Full(b) => k <= Gate!Oldest(b)
  BY <1>1, WaitLasts
<1>3. told'.net = n /\ told'.left = Gate!Wait(n)
  <2> HIDE DEF Gate!Wait
  <2> QED BY <1>1
<1>4. Window \in Nat \ {0} /\ k \in Nat /\ k <= Window
  BY <1>2, GateAssumptions
<1>5. ASSUME NEW b \in Gate!BucketsOf(n)
      PROVE  Gate!Count(req'[b], k) < Limit[b]
  <2>0. /\ b \in Gate!Bucket /\ Limit[b] \in Nat \ {0}
        /\ \A a \in 0..(Window - 1) : req[b][a] \in Nat
        /\ Gate!Count(req[b], Window) \in Nat /\ Gate!Count(req[b], Window) <= Limit[b]
    BY BucketsAreBuckets, PlacesCount
  <2>1. \A a \in 0..(Window - 1) : req'[b][a] = req[b][a]
    BY <1>1, <2>0, Hit
  <2>2. \A a \in 0..(k - 1) : req'[b][a] \in Nat /\ req'[b][a] <= req[b][a]
                              /\ req'[b][a] = req[b][a]
    <3> SUFFICES ASSUME NEW a \in 0..(k - 1)
                 PROVE  req'[b][a] \in Nat /\ req'[b][a] = req[b][a]
        OBVIOUS
    <3>1. a \in 0..(Window - 1)
      BY <1>4
    <3> QED BY <2>0, <2>1, <3>1
  <2> HIDE DEF k
  <2>3. Gate!Count(req'[b], k) \in Nat
    BY <1>4, <2>2, CountIsNat
  <2>4. CASE ~Gate!Full(b)
    <3>1. Gate!Count(req'[b], k) <= Gate!Count(req[b], Window)
      BY <1>4, <2>0, <2>2, CountLess
    <3>2. Gate!Count(req[b], Window) < Limit[b]
      BY <2>0, <2>4 DEF Gate!Full
    <3> QED BY <2>0, <2>3, <3>1, <3>2
  <2>5. CASE Gate!Full(b)
    <3> DEFINE old == <<Gate!Oldest(b), 1>>
    <3>1. Gate!Oldest(b) \in 0..(Window - 1) /\ req[b][Gate!Oldest(b)] > 0
      BY <2>0, <2>5, FullHasOldest
    <3>2. k <= Gate!Oldest(b)
      BY <1>2, <2>5
    <3>3. old \in Gate!Younger(req[b], Window)
      <4>1. /\ Gate!Oldest(b) \in Nat /\ Gate!Oldest(b) < Window
            /\ req[b][Gate!Oldest(b)] \in Nat
        BY <1>4, <2>0, <3>1
      <4>2. 1 \in Nat /\ 0 < 1 /\ 1 <= req[b][Gate!Oldest(b)]
        BY <3>1, <4>1
      <4> QED BY <1>4, <2>0, <4>1, <4>2, AnEvent
    <3>4. Gate!Younger(req'[b], k) \in SUBSET (Gate!Younger(req[b], Window) \ {old})
      <4>1. Gate!Younger(req'[b], k) \in SUBSET (Nat \X Nat)
        BY <1>4, <2>2, AnEvent
      <4>2. ASSUME NEW a \in Nat, NEW i \in Nat, <<a, i>> \in Gate!Younger(req'[b], k)
            PROVE  <<a, i>> \in Gate!Younger(req[b], Window) /\ <<a, i>> # old
        <5>1. a < k /\ 0 < i /\ i <= req'[b][a]
          BY <1>4, <2>2, <4>2, AnEvent
        <5>2. a \in 0..(k - 1) /\ a < Window
          BY <1>4, <5>1
        <5>3. i <= req[b][a]
          BY <2>2, <5>1, <5>2
        <5>4. <<a, i>> \in Gate!Younger(req[b], Window)
          BY <1>4, <2>0, <5>1, <5>2, <5>3, AnEvent
        <5>5. a # Gate!Oldest(b)
          BY <1>4, <3>1, <3>2, <5>1
        <5> QED BY <5>4, <5>5
      <4> HIDE DEF old
      <4> QED BY <4>1, <4>2
    <3>5. IsFiniteSet(Gate!Younger(req[b], Window))
          /\ Gate!Count(req[b], Window) = Cardinality(Gate!Younger(req[b], Window))
      BY <1>4, <2>0, CountIsNat
    <3> HIDE DEF old
    <3>6. IsFiniteSet(Gate!Younger(req[b], Window) \ {old})
          /\ Cardinality(Gate!Younger(req[b], Window) \ {old}) = Gate!Count(req[b], Window) - 1
      BY <3>3, <3>5, FS_RemoveElement
    <3>7. Gate!Count(req'[b], k) = Cardinality(Gate!Younger(req'[b], k))
      BY <1>4, <2>2, CountIsNat
    <3>8. Gate!Count(req'[b], k) <= Gate!Count(req[b], Window) - 1
      BY <3>4, <3>6, <3>7, FS_Subset
    <3> QED BY <2>0, <2>3, <3>8
  <2> QED BY <2>4, <2>5
<1> HIDE DEF k
<1>6. \A b \in Gate!BucketsOf(told'.net) : Gate!Count(req'[b], Window - told'.left) < Limit[b]
  BY <1>3, <1>5 DEF k
<1> QED BY <1>2, <1>3, <1>6 DEF Waited, Gate!Count, Gate!Younger, Gate!BucketsOf

LEMMA WaitedTick ==
  ASSUME Gate!TypeOK, Gate!TypeOK', Waited, Gate!Tick
  PROVE  Waited'
<1> SUFFICES ASSUME told' # Nothing,  told # Nothing
             PROVE  /\ told'.net \in Network /\ told'.left \in 0..Window
                    /\ \A b \in Gate!BucketsOf(told'.net) :
                         Gate!Count(req'[b], Window - told'.left) < Limit[b]
  BY DEF Waited, Gate!Tick, Gate!Count, Gate!Younger, Gate!BucketsOf
<1>0. Window \in Nat \ {0}
  BY GateAssumptions
<1>1. /\ told.net \in Network /\ told.left \in 0..Window
      /\ \A b \in Gate!BucketsOf(told.net) :
           Gate!Count(req[b], Window - told.left) < Limit[b]
  BY DEF Waited
<1>2. told'.net = told.net /\ told'.left = IF told.left = 0 THEN 0 ELSE told.left - 1
  <2>1. told' = IF told.left = 0 THEN told ELSE [told EXCEPT !.left = told.left - 1]
    BY DEF Gate!Tick
  <2>2. told \in Gate!Watch
    BY DEF Gate!TypeOK
  <2> QED BY <2>1, <2>2 DEF Gate!Watch
<1>3. told'.left \in 0..Window
  BY <1>0, <1>1, <1>2
<1>4. ASSUME NEW b \in Gate!BucketsOf(told.net)
      PROVE  Gate!Count(req'[b], Window - told'.left) < Limit[b]
  <2> DEFINE j == Window - told'.left
             k == j - 1
  <2>0. b \in Gate!Bucket /\ Limit[b] \in Nat
    BY <1>1, BucketsAreBuckets, GateAssumptions
  <2>1. \A a \in 0..Window : req[b][a] \in Nat /\ req'[b][a] \in Nat
    BY <2>0 DEF Gate!TypeOK
  <2>2. \A a \in 0..(Window - 1) : req'[b][a] = IF a = 0 THEN 0 ELSE req[b][a - 1]
    BY <2>0, Ticked
  <2>3. Gate!Count(req[b], Window - told.left) < Limit[b]
    BY <1>1
  <2>4. CASE j = 0
    <3>1. Gate!Count(req'[b], 0) <= Gate!Count(req[b], Window - told.left)
      <4>1. Window - told.left \in Nat /\ 0 <= Window - told.left /\ 0 \in Nat
        BY <1>0, <1>1
      <4>2. \A a \in 0..((Window - told.left) - 1) : req[b][a] \in Nat
        BY <1>0, <1>1, <2>1
      <4>3. \A a \in 0..(0 - 1) : req'[b][a] \in Nat /\ req'[b][a] <= req[b][a]
        OBVIOUS
      <4> QED BY <4>1, <4>2, <4>3, CountLess
    <3>2. Gate!Count(req'[b], 0) \in Nat
      <4>1. 0 \in Nat /\ \A a \in 0..(0 - 1) : req'[b][a] \in Nat
        OBVIOUS
      <4> QED BY <4>1, CountIsNat
    <3>3. Gate!Count(req[b], Window - told.left) \in Nat
      <4>1. Window - told.left \in Nat
        BY <1>0, <1>1
      <4>2. \A a \in 0..((Window - told.left) - 1) : req[b][a] \in Nat
        BY <1>0, <1>1, <2>1
      <4> QED BY <4>1, <4>2, CountIsNat
    <3> QED BY <2>0, <2>3, <2>4, <3>1, <3>2, <3>3
  <2>5. CASE j # 0
    <3>1. /\ k \in Nat /\ k + 1 = j /\ k < Window
          /\ k <= Window - told.left /\ Window - told.left \in Nat
      BY <1>0, <1>1, <1>2, <2>5
    <3> HIDE DEF k, j
    <3>2. \A a \in 0..k : /\ req[b][a] \in Nat
                          /\ req'[b][a] = IF a = 0 THEN 0 ELSE req[b][a - 1]
      <4>1. \A a \in 0..k : a \in 0..Window /\ a \in 0..(Window - 1)
        BY <1>0, <3>1
      <4> QED BY <2>1, <2>2, <4>1
    <3>3. Gate!Count(req'[b], k + 1) <= Gate!Count(req[b], k)
      BY <3>1, <3>2, CountOlder
    <3>4. Gate!Count(req[b], k) <= Gate!Count(req[b], Window - told.left)
      <4>1. \A a \in 0..((Window - told.left) - 1) : req[b][a] \in Nat
        BY <1>0, <1>1, <2>1
      <4>2. \A a \in 0..(k - 1) : req[b][a] \in Nat /\ req[b][a] <= req[b][a]
        BY <3>1, <3>2
      <4> QED BY <3>1, <4>1, <4>2, CountLess
    <3>5. Gate!Count(req'[b], k + 1) \in Nat /\ Gate!Count(req[b], k) \in Nat
      <4>1. \A a \in 0..(k - 1) : req[b][a] \in Nat
        BY <3>1, <3>2
      <4>2. \A a \in 0..((k + 1) - 1) : req'[b][a] \in Nat
        BY <1>0, <3>1, <2>1
      <4>3. k + 1 \in Nat
        BY <3>1
      <4> QED BY <3>1, <4>1, <4>2, <4>3, CountIsNat
    <3>6. Gate!Count(req[b], Window - told.left) \in Nat
      <4>1. \A a \in 0..((Window - told.left) - 1) : req[b][a] \in Nat
        BY <1>0, <1>1, <2>1
      <4> QED BY <3>1, <4>1, CountIsNat
    <3>7. Gate!Count(req'[b], j) < Limit[b]
      BY <2>0, <2>3, <3>1, <3>3, <3>4, <3>5, <3>6
    <3> QED BY <3>7 DEF j
  <2> QED BY <2>4, <2>5
<1> QED BY <1>1, <1>2, <1>3, <1>4

(* For any window and limits: who waits out its retry_after, alone, finds  *)
(* room in every bucket of its network.                                    *)
THEOREM RetryAfterSufficesHolds == Gate!Spec => []RetryAfterSuffices
<1>1. Gate!Init => Waited
  BY DEF Gate!Init, Waited
<1>2. Gate!TypeOK /\ Gate!TypeOK' /\ Gate!PlacesAreServed /\ Waited /\ [Gate!Next]_Gate!vars
        => Waited'
  <2> SUFFICES ASSUME Gate!TypeOK, Gate!TypeOK', Gate!PlacesAreServed, Waited,
                      [Gate!Next]_Gate!vars
               PROVE  Waited'
      OBVIOUS
  (* Only the network's own buckets bear on it. *)
  <2>1. ASSUME told' = told,
               told # Nothing => \A b \in Gate!BucketsOf(told.net) : \A a \in 0..(Window - 1) :
                                 req'[b][a] = req[b][a]
        PROVE  Waited'
    <3> SUFFICES ASSUME told # Nothing, NEW b \in Gate!BucketsOf(told.net)
                 PROVE  Gate!Count(req'[b], Window - told.left) < Limit[b]
        BY <2>1 DEF Waited, Gate!Count, Gate!Younger, Gate!BucketsOf
    <3>1. /\ told.net \in Network /\ told.left \in 0..Window
          /\ Gate!Count(req[b], Window - told.left) < Limit[b]
      BY DEF Waited
    <3>2. b \in Gate!Bucket
      BY <3>1, BucketsAreBuckets
    <3> DEFINE k == Window - told.left
    <3>3. k \in Nat /\ k <= Window
      BY <3>1, GateAssumptions
    <3>4. \A a \in 0..(k - 1) : req[b][a] \in Nat /\ req'[b][a] = req[b][a]
      <4> SUFFICES ASSUME NEW a \in 0..(k - 1)
                   PROVE  req[b][a] \in Nat /\ req'[b][a] = req[b][a]
          OBVIOUS
      <4>1. a \in 0..(Window - 1) /\ a \in 0..Window
        BY <3>3, GateAssumptions
      <4> QED BY <2>1, <3>2, <4>1 DEF Gate!TypeOK
    <3> HIDE DEF k
    <3>5. Gate!Count(req'[b], k) = Gate!Count(req[b], k)
      BY <3>3, <3>4, CountSame
    <3> QED BY <3>1, <3>5 DEF k
  <2>2. ASSUME NEW w \in Worker, NEW n \in Network, Gate!Admit(w, n)
        PROVE  Waited'
    <3>1. CASE told # Nothing /\ Gate!BucketsOf(told.net) \cap Gate!BucketsOf(n) # {}
      <4>1. told' = Nothing
        BY <2>2, <3>1 DEF Gate!Admit
      <4> QED BY <4>1 DEF Waited
    <3>2. CASE ~(told # Nothing /\ Gate!BucketsOf(told.net) \cap Gate!BucketsOf(n) # {})
      <4>1. told' = told /\ Gate!HitAll(n)
        BY <2>2, <3>2 DEF Gate!Admit
      <4>2. ASSUME told # Nothing, NEW b \in Gate!BucketsOf(told.net), NEW a \in 0..(Window - 1)
            PROVE  req'[b][a] = req[b][a]
        <5>1. b \in Gate!Bucket
          BY <4>2, BucketsAreBuckets DEF Waited
        <5>2. b \notin Gate!PlacesOf(n)
          BY <3>2, <4>1, <4>2, Hit
        <5> QED BY <4>1, <5>1, <5>2, Hit
      <4> QED BY <2>1, <4>1, <4>2
    <3> QED BY <3>1, <3>2
  <2>3. ASSUME NEW w \in Worker, NEW n \in Network, Gate!Refuse(w, n)
        PROVE  Waited'
    BY <2>3, WaitedRefuse
  <2>4. ASSUME Gate!Prune
        PROVE  Waited'
    <3>1. told' = told
      BY <2>4 DEF Gate!Prune
    <3>2. ASSUME told # Nothing, NEW b \in Gate!BucketsOf(told.net), NEW a \in 0..(Window - 1)
          PROVE  req'[b][a] = req[b][a]
      <4>1. b \in Gate!Bucket
        BY <3>2, BucketsAreBuckets DEF Waited
      <4> QED BY <2>4, <4>1, Pruned
    <3> QED BY <2>1, <3>1, <3>2
  <2>5. Gate!Tick => Waited'
    BY WaitedTick
  <2>6. ASSUME UNCHANGED <<req, told>>
        PROVE  Waited'
    BY <2>1, <2>6
  <2>7. ASSUME NEW w \in Worker,
               \/ \E t \in Token : Gate!RecordNewDevice(w, t)
               \/ Gate!CheckIntegrity(w) \/ Gate!FailIntegrity(w)
               \/ Gate!Leave(w) \/ Gate!AskEmail(w) \/ Gate!Insert(w)
        PROVE  UNCHANGED <<req, told>>
    <3>1. ASSUME NEW t \in Token, Gate!RecordNewDevice(w, t)
          PROVE  UNCHANGED <<req, told>>
      BY <3>1, Zenon DEF Gate!RecordNewDevice
    <3> QED BY <2>7, <3>1 DEF Gate!CheckIntegrity, Gate!FailIntegrity, Gate!Leave,
                              Gate!AskEmail, Gate!Insert
  <2>8. ASSUME NEW t \in Token, Gate!Verify(t) \/ \E fate \in {"waits", "gone"} : Gate!Lose(t, fate)
        PROVE  UNCHANGED <<req, told>>
    BY <2>8 DEF Gate!Verify, Gate!Lose
  <2>9. UNCHANGED Gate!vars => UNCHANGED <<req, told>>
    BY DEF Gate!vars
  <2> QED
    BY <2>2, <2>3, <2>4, <2>5, <2>6, <2>7, <2>8, <2>9 DEF Gate!Next
<1>3. Gate!TypeOK /\ Waited => Gate!RetryAfterSuffices
  <2> SUFFICES ASSUME Gate!TypeOK, Waited, told # Nothing, told.left = 0,
                      NEW b \in Gate!BucketsOf(told.net)
               PROVE  ~Gate!Full(b)
      BY DEF Gate!RetryAfterSuffices
  <2>1. b \in Gate!Bucket /\ Window \in Nat /\ Limit[b] \in Nat
    BY BucketsAreBuckets, GateAssumptions DEF Waited
  <2>2. Gate!Count(req[b], Window) < Limit[b]
    <3>1. Window - told.left = Window
      BY <2>1
    <3> QED BY <3>1 DEF Waited
  <2>3. Gate!Count(req[b], Window) \in Nat
    <3>1. \A a \in 0..(Window - 1) : req[b][a] \in Nat
      BY <2>1 DEF Gate!TypeOK
    <3> QED BY <2>1, <3>1, CountIsNat
  <2> QED BY <2>1, <2>2, <2>3 DEF Gate!Full
<1> QED BY <1>1, <1>2, <1>3, SameLimits, GateTypes, PlacesAreServedHold, PTL DEF Gate!Spec

-----------------------------------------------------------------------------
(* Limits that are read in one step and filled in another: the workers     *)
(* between the two are the places beyond the limit.                        *)
Asking      == {w \in Worker : worker[w] = Gate!SigningUp}
Checking(b) == {w \in Worker : worker[w].at = "checking" /\ b \in Gate!BucketsOf(worker[w].net)}

Room(limit, filled, under) == filled + under <= limit + Cardinality(Worker) - 1

AskedThenFilled == Room(DayLimit, Gate!Count(rows, Day), Cardinality(Asking))
FailsFilled(b)  == Room(FailLimit[b], Gate!Count(fails[b], Window), Cardinality(Checking(b)))

LEMMA WorkersAreFinite ==
  ASSUME NEW S \in SUBSET Worker
  PROVE  /\ IsFiniteSet(S) /\ Cardinality(S) \in Nat /\ Cardinality(S) <= Cardinality(Worker)
         /\ \A T \in SUBSET S : Cardinality(T) <= Cardinality(S) /\ Cardinality(T) \in Nat
         /\ \A w \in S : Cardinality(S \ {w}) = Cardinality(S) - 1
         /\ Cardinality(Worker) \in Nat \ {0}
<1>1. IsFiniteSet(Worker) /\ Worker # {}
  BY GateAssumptions
<1>2. IsFiniteSet(S) /\ Cardinality(S) <= Cardinality(Worker)
  BY <1>1, FS_Subset
<1>3. Cardinality(S) \in Nat /\ Cardinality(Worker) \in Nat
  BY <1>1, <1>2, FS_CardinalityType
<1>4. \A T \in SUBSET S : IsFiniteSet(T) /\ Cardinality(T) <= Cardinality(S)
  BY <1>2, FS_Subset
<1>5. \A T \in SUBSET S : Cardinality(T) \in Nat
  BY <1>4, FS_CardinalityType
<1>6. \A w \in S : Cardinality(S \ {w}) = Cardinality(S) - 1
  BY <1>2, FS_RemoveElement
<1>7. Cardinality(Worker) # 0
  BY <1>1, FS_EmptySet
<1> QED BY <1>2, <1>3, <1>4, <1>5, <1>6, <1>7

(* There is room for a worker that finds a place; a place is filled by one *)
(* of those under way; and whatever leaves, leaves room.                   *)
LEMMA RoomSteps ==
  ASSUME NEW limit \in Nat, NEW filled \in Nat, NEW under \in Nat
  PROVE  /\ filled < limit /\ under <= Cardinality(Worker) => Room(limit, filled, under)
         /\ Room(limit, filled, under) => Room(limit, filled + 1, under - 1)
         /\ \A f, u \in Nat : f <= filled /\ u <= under /\ Room(limit, filled, under)
                                => Room(limit, f, u)
         /\ Room(limit, filled, under) => filled <= limit + Cardinality(Worker) - 1
<1>1. Cardinality(Worker) \in Nat \ {0}
  BY WorkersAreFinite
<1> QED BY <1>1 DEF Room

(* A tick takes events away.                                               *)
LEMMA TickedCount ==
  ASSUME NEW bag, NEW older, NEW k \in Nat \ {0},
         \A a \in 0..(k - 1) : /\ bag[a] \in Nat
                               /\ older[a] = IF a = 0 THEN 0 ELSE bag[a - 1]
  PROVE  Gate!Count(older, k) <= Gate!Count(bag, k) /\ Gate!Count(older, k) \in Nat
<1> DEFINE j == k - 1
<1>1. j \in Nat /\ j + 1 = k /\ j <= k
  OBVIOUS
<1>2. \A a \in 0..j : bag[a] \in Nat /\ older[a] = IF a = 0 THEN 0 ELSE bag[a - 1]
  OBVIOUS
<1>3. \A a \in 0..j : a # 0 => a - 1 \in 0..j
  OBVIOUS
<1>4. \A a \in 0..(k - 1) : older[a] \in Nat /\ bag[a] \in Nat
  BY <1>2, <1>3
<1> HIDE DEF j
<1>5. \A a \in 0..(j - 1) : bag[a] \in Nat /\ bag[a] <= bag[a]
  BY <1>1, <1>2
<1>6. Gate!Count(older, j + 1) <= Gate!Count(bag, j)
  BY <1>1, <1>2, CountOlder
<1>7. Gate!Count(bag, j) <= Gate!Count(bag, k)
  BY <1>1, <1>4, <1>5, CountLess
<1>8. /\ Gate!Count(older, k) \in Nat /\ Gate!Count(bag, j) \in Nat
      /\ Gate!Count(bag, k) \in Nat
  BY <1>1, <1>4, <1>5, CountIsNat
<1> QED BY <1>1, <1>6, <1>7, <1>8

(* The counts are natural numbers.                                         *)
LEMMA FilledNumbers ==
  ASSUME Gate!TypeOK, NEW b \in Gate!Bucket
  PROVE  /\ Gate!Count(rows, Day) \in Nat /\ Gate!Count(fails[b], Window) \in Nat
         /\ Cardinality(Asking) \in Nat /\ Cardinality(Checking(b)) \in Nat
         /\ Asking \in SUBSET Worker /\ Checking(b) \in SUBSET Worker
<1>1. Day \in Nat /\ Window \in Nat
  BY GateAssumptions
<1>2. /\ \A a \in 0..(Day - 1) : rows[a] \in Nat
      /\ \A a \in 0..(Window - 1) : fails[b][a] \in Nat
  BY DEF Gate!TypeOK
<1>3. Gate!Count(rows, Day) \in Nat /\ Gate!Count(fails[b], Window) \in Nat
  BY <1>1, <1>2, CountIsNat
<1>4. Asking \in SUBSET Worker /\ Checking(b) \in SUBSET Worker
  BY DEF Asking, Checking
<1> QED BY <1>3, <1>4, WorkersAreFinite

(* What a step of a worker leaves of those under way.                      *)
LEMMA Unasked ==
  ASSUME Gate!TypeOK, NEW w \in Worker, NEW x,
         worker' = [worker EXCEPT ![w] = x]
  PROVE  /\ x # Gate!SigningUp => Asking' = Asking \ {w}
         /\ \A b : ~(x.at = "checking" /\ b \in Gate!BucketsOf(x.net))
                     => Checking(b)' = Checking(b) \ {w}
<1>1. worker'[w] = x /\ \A v \in Worker \ {w} : worker'[v] = worker[v]
  BY DEF Gate!TypeOK
<1>2. x # Gate!SigningUp => Asking' = Asking \ {w}
  BY <1>1 DEF Asking
<1>3. ASSUME NEW b, ~(x.at = "checking" /\ b \in Gate!BucketsOf(x.net))
      PROVE  Checking(b)' = Checking(b) \ {w}
  BY <1>1, <1>3 DEF Checking, Gate!BucketsOf
<1> QED BY <1>2, <1>3

LEMMA FilledInit ==
  ASSUME Gate!Init
  PROVE  AskedThenFilled /\ \A b \in Gate!Bucket : FailsFilled(b)
<1>0. /\ Day \in Nat \ {0} /\ Window \in Nat \ {0} /\ DayLimit \in Nat \ {0}
      /\ Cardinality({}) = 0
  BY FS_EmptySet, GateAssumptions
<1>1. ASSUME NEW bag, NEW k \in Nat, \A a \in 0..(k - 1) : bag[a] = 0
      PROVE  Gate!Count(bag, k) = 0
  <2>1. \A a \in 0..(k - 1) : bag[a] \in Nat
    BY <1>1
  <2>2. ASSUME NEW e \in Gate!Younger(bag, k)
        PROVE  FALSE
    <3>1. e \in Nat \X Nat
      BY <2>1, <2>2, AnEvent
    <3>2. e[1] \in Nat /\ e[2] \in Nat /\ <<e[1], e[2]>> \in Gate!Younger(bag, k)
      BY <2>2, <3>1
    <3>3. e[1] < k /\ 0 < e[2] /\ e[2] <= bag[e[1]]
      BY <2>1, <3>2, AnEvent
    <3>4. e[1] \in 0..(k - 1)
      BY <3>2, <3>3
    <3> QED BY <1>1, <3>2, <3>3, <3>4
  <2>3. Gate!Younger(bag, k) = {}
    BY <2>2
  <2> QED BY <1>0, <2>1, <2>3, CountIsNat
<1>2. Asking = {} /\ \A b : Checking(b) = {}
  BY DEF Gate!Init, Gate!Idle, Gate!SigningUp, Asking, Checking
<1>3. Gate!Count(rows, Day) = 0
  <2>1. \A a \in 0..(Day - 1) : rows[a] = 0
    BY DEF Gate!Init
  <2> QED BY <1>0, <1>1, <2>1
<1>4. ASSUME NEW b \in Gate!Bucket
      PROVE  Gate!Count(fails[b], Window) = 0
  <2>1. \A a \in 0..(Window - 1) : fails[b][a] = 0
    BY DEF Gate!Init
  <2> QED BY <1>0, <1>1, <2>1
<1>5. \A l \in Nat \ {0} : Room(l, 0, 0)
  <2>1. Cardinality(Worker) \in Nat \ {0}
    BY WorkersAreFinite
  <2> QED BY <2>1 DEF Room
<1>6. \A b \in Gate!Bucket : FailLimit[b] \in Nat \ {0}
  BY GateAssumptions
<1> QED BY <1>0, <1>2, <1>3, <1>4, <1>5, <1>6 DEF AskedThenFilled, FailsFilled

(* A sign-up that asks finds a place free; one that inserts fills it.      *)
LEMMA AskedStep ==
  ASSUME Gate!TypeOK, AskedThenFilled, [Gate!Next]_Gate!vars
  PROVE  AskedThenFilled'
<1>0. /\ Day \in Nat \ {0} /\ DayLimit \in Nat \ {0}
      /\ 0 \in 0..(Day - 1) /\ (0..(Day - 1)) \subseteq Nat
      /\ rows \in [0..(Day - 1) -> Nat]
  BY GateAssumptions DEF Gate!TypeOK
<1>1. /\ \A a \in 0..(Day - 1) : rows[a] \in Nat
      /\ Gate!Count(rows, Day) \in Nat /\ Cardinality(Asking) \in Nat
  <2>1. \A a \in 0..(Day - 1) : rows[a] \in Nat
    BY <1>0
  <2>2. Gate!Count(rows, Day) \in Nat
    BY <1>0, <2>1, CountIsNat
  <2>3. Asking \in SUBSET Worker
    BY DEF Asking
  <2> QED BY <2>1, <2>2, <2>3, WorkersAreFinite
<1>2. Room(DayLimit, Gate!Count(rows, Day), Cardinality(Asking))
  BY DEF AskedThenFilled
<1>3. SUFFICES Room(DayLimit, Gate!Count(rows', Day), Cardinality(Asking'))
  BY DEF AskedThenFilled, Room, Gate!Count, Gate!Younger
<1>4. Asking' \in SUBSET Worker /\ Asking \in SUBSET Worker
  BY DEF Asking
<1>5. Cardinality(Asking') \in Nat /\ Cardinality(Asking') <= Cardinality(Worker)
  BY <1>4, WorkersAreFinite
(* Nobody starts to ask, and no row is added. *)
<1>6. ASSUME rows' = rows, Asking' \in SUBSET Asking
      PROVE  Room(DayLimit, Gate!Count(rows', Day), Cardinality(Asking'))
  <2>1. Cardinality(Asking') <= Cardinality(Asking)
    BY <1>4, <1>6, WorkersAreFinite
  <2>2. Gate!Count(rows', Day) = Gate!Count(rows, Day)
    BY <1>6
  <2>3. Gate!Count(rows, Day) <= Gate!Count(rows, Day) /\ DayLimit \in Nat
    BY <1>0, <1>1
  <2> QED BY <1>1, <1>2, <1>5, <2>1, <2>2, <2>3, RoomSteps
<1>7. ASSUME NEW w \in Worker, NEW x, worker' = [worker EXCEPT ![w] = x],
             x # Gate!SigningUp
      PROVE  Asking' = Asking \ {w}
  BY <1>7, Unasked
<1>8. ASSUME NEW w \in Worker, Gate!AskEmail(w)
      PROVE  Room(DayLimit, Gate!Count(rows', Day), Cardinality(Asking'))
  <2>1. rows' = rows /\ Gate!Count(rows, Day) < DayLimit
    BY <1>8 DEF Gate!AskEmail, Gate!EmailOk
  <2>2. Gate!Count(rows', Day) = Gate!Count(rows, Day) /\ DayLimit \in Nat
    BY <1>0, <2>1
  <2> QED BY <1>1, <1>5, <2>1, <2>2, RoomSteps
<1>9. ASSUME NEW w \in Worker, Gate!Insert(w)
      PROVE  Room(DayLimit, Gate!Count(rows', Day), Cardinality(Asking'))
  <2>1. /\ w \in Asking /\ worker' = [worker EXCEPT ![w] = Gate!Idle]
        /\ rows' = [rows EXCEPT ![0] = rows[0] + 1]
    BY <1>9 DEF Gate!Insert, Asking
  <2>2. Gate!Idle # Gate!SigningUp
    BY DEF Gate!Idle, Gate!SigningUp
  <2>3. Asking' = Asking \ {w}
    BY <1>7, <2>1, <2>2
  <2>4. Cardinality(Asking') = Cardinality(Asking) - 1
    BY <1>4, <2>1, <2>3, WorkersAreFinite
  <2>5. \A a \in 0..(Day - 1) : rows'[a] = IF a = 0 THEN rows[a] + 1 ELSE rows[a]
    BY <1>0, <2>1
  <2>6. Gate!Count(rows', Day) = Gate!Count(rows, Day) + 1
    BY <1>0, <1>1, <2>5, CountOneMore
  <2>7. DayLimit \in Nat
    BY <1>0
  <2> QED BY <1>1, <1>2, <2>4, <2>6, <2>7, RoomSteps
<1>10. ASSUME Gate!Tick
       PROVE  Room(DayLimit, Gate!Count(rows', Day), Cardinality(Asking'))
  <2>1. worker' = worker /\ rows' = Gate!Older(rows, Day - 1)
    BY <1>10 DEF Gate!Tick
  <2>2. Asking' = Asking
    BY <2>1 DEF Asking
  <2>3. \A a \in 0..(Day - 1) : rows'[a] = IF a = 0 THEN 0 ELSE rows[a - 1]
    BY <2>1 DEF Gate!Older
  <2>4. Gate!Count(rows', Day) <= Gate!Count(rows, Day) /\ Gate!Count(rows', Day) \in Nat
    BY <1>0, <1>1, <2>3, TickedCount
  <2>5. Cardinality(Asking) <= Cardinality(Asking) /\ DayLimit \in Nat
    BY <1>0, <1>1
  <2> QED BY <1>1, <1>2, <2>2, <2>4, <2>5, RoomSteps
<1>11. ASSUME UNCHANGED <<rows, worker>>
       PROVE  rows' = rows /\ Asking' \in SUBSET Asking
  BY <1>11 DEF Asking
<1>12. ASSUME NEW w \in Worker,
              \/ \E n \in Network : Gate!Admit(w, n)
              \/ \E t \in Token : Gate!RecordNewDevice(w, t)
              \/ Gate!CheckIntegrity(w) \/ Gate!FailIntegrity(w) \/ Gate!Leave(w)
       PROVE  rows' = rows /\ Asking' \in SUBSET Asking
  <2>1. ASSUME NEW x, x # Gate!SigningUp, rows' = rows,
               worker' = [worker EXCEPT ![w] = x]
        PROVE  rows' = rows /\ Asking' \in SUBSET Asking
    BY <1>7, <2>1
  <2>2. ASSUME NEW n \in Network, Gate!Admit(w, n)
        PROVE  rows' = rows /\ Asking' \in SUBSET Asking
    <3>1. rows' = rows /\ worker' = [worker EXCEPT ![w] = Gate!Asked(n, Gate!Deferred(n))]
      BY <2>2, Zenon DEF Gate!Admit
    <3>2. Gate!Asked(n, Gate!Deferred(n)) # Gate!SigningUp
      BY DEF Gate!Asked, Gate!SigningUp
    <3> HIDE DEF Gate!Asked
    <3> QED BY <2>1, <3>1, <3>2
  <2>3. Gate!Idle # Gate!SigningUp
    BY DEF Gate!Idle, Gate!SigningUp
  <2>4. ASSUME NEW t \in Token, Gate!RecordNewDevice(w, t)
        PROVE  rows' = rows /\ worker' = [worker EXCEPT ![w] = Gate!Idle]
    BY <2>4, Zenon DEF Gate!RecordNewDevice
  <2>5. ASSUME Gate!CheckIntegrity(w)
        PROVE  rows' = rows /\ Asking' \in SUBSET Asking
    <3>1. /\ rows' = rows
          /\ worker' = [worker EXCEPT ![w] = [worker[w] EXCEPT !.at = "checking"]]
          /\ worker[w].at = "gated"
      BY <2>5, Zenon DEF Gate!CheckIntegrity
    <3>2. [worker[w] EXCEPT !.at = "checking"] # Gate!SigningUp
      <4>0. worker[w] \in Gate!Request
        BY DEF Gate!TypeOK
      <4>1. worker[w] \in [at : {"gated", "checking"}, net : Network, defer : BOOLEAN]
        BY <3>1, <4>0, HeldRequest
      <4> QED BY <4>1 DEF Gate!SigningUp
    <3> QED BY <2>1, <3>1, <3>2
  <2>6. ASSUME Gate!FailIntegrity(w) \/ Gate!Leave(w)
        PROVE  rows' = rows /\ worker' = [worker EXCEPT ![w] = Gate!Idle]
    BY <2>6, Zenon DEF Gate!FailIntegrity, Gate!Leave
  <2> QED BY <1>12, <2>1, <2>2, <2>3, <2>4, <2>5, <2>6
<1>13. ASSUME NEW w \in Worker, NEW n \in Network, Gate!Refuse(w, n)
       PROVE  UNCHANGED <<rows, worker>>
  BY <1>13 DEF Gate!Refuse
<1>14. ASSUME \/ Gate!Prune
              \/ \E t \in Token :
                   Gate!Verify(t) \/ (\E fate \in {"waits", "gone"} : Gate!Lose(t, fate))
              \/ UNCHANGED Gate!vars
       PROVE  UNCHANGED <<rows, worker>>
  BY <1>14, Zenon DEF Gate!Prune, Gate!Verify, Gate!Lose, Gate!vars
<1> QED
  BY <1>6, <1>8, <1>9, <1>10, <1>11, <1>12, <1>13, <1>14, Zenon DEF Gate!Next

(* A worker that asks Google finds room in its buckets; one that records a *)
(* failure fills them.                                                     *)
LEMMA CheckedStep ==
  ASSUME Gate!TypeOK, [Gate!Next]_Gate!vars, NEW b \in Gate!Bucket,
         FailsFilled(b)
  PROVE  FailsFilled(b)'
<1> DEFINE N == Gate!Count(fails[b], Window)
           L == FailLimit[b]
<1>0. /\ Window \in Nat \ {0} /\ L \in Nat \ {0}
      /\ 0 \in 0..(Window - 1) /\ (0..(Window - 1)) \subseteq Nat
      /\ fails[b] \in [0..(Window - 1) -> Nat]
  BY GateAssumptions DEF Gate!TypeOK
<1>1. /\ \A a \in 0..(Window - 1) : fails[b][a] \in Nat
      /\ N \in Nat /\ Cardinality(Checking(b)) \in Nat
      /\ Checking(b) \in SUBSET Worker
  BY <1>0, FilledNumbers
<1>2. Room(L, N, Cardinality(Checking(b)))
  BY DEF FailsFilled
<1>3. SUFFICES Room(L, Gate!Count(fails'[b], Window), Cardinality(Checking(b)'))
  BY DEF FailsFilled, Room, Gate!Count, Gate!Younger
<1>4. Checking(b)' \in SUBSET Worker
  BY DEF Checking
<1>5. Cardinality(Checking(b)') \in Nat /\ Cardinality(Checking(b)') <= Cardinality(Worker)
  BY <1>4, WorkersAreFinite
(* Nobody starts to ask for this bucket, and no failure is recorded in it. *)
<1>6. ASSUME fails'[b] = fails[b], Checking(b)' \in SUBSET Checking(b)
      PROVE  Room(L, Gate!Count(fails'[b], Window), Cardinality(Checking(b)'))
  <2>1. Cardinality(Checking(b)') <= Cardinality(Checking(b))
    BY <1>1, <1>6, WorkersAreFinite
  <2>2. Gate!Count(fails'[b], Window) = N /\ N <= N /\ L \in Nat
    BY <1>0, <1>1, <1>6
  <2> HIDE DEF N, L
  <2> QED BY <1>1, <1>2, <1>5, <2>1, <2>2, RoomSteps
<1>7. ASSUME NEW w \in Worker, NEW x, worker' = [worker EXCEPT ![w] = x],
             ~(x.at = "checking" /\ b \in Gate!BucketsOf(x.net))
      PROVE  Checking(b)' = Checking(b) \ {w}
  BY <1>7, Unasked
<1>8. ASSUME NEW w \in Worker, Gate!CheckIntegrity(w)
      PROVE  Room(L, Gate!Count(fails'[b], Window), Cardinality(Checking(b)'))
  <2>1. /\ worker[w].at = "gated"
        /\ \A c \in Gate!BucketsOf(worker[w].net) : Gate!Count(fails[c], Window) < FailLimit[c]
        /\ worker' = [worker EXCEPT ![w] = [worker[w] EXCEPT !.at = "checking"]]
        /\ fails' = fails
    BY <1>8 DEF Gate!CheckIntegrity, Gate!MayCheck
  <2>2. CASE b \in Gate!BucketsOf(worker[w].net)
    <3>1. N < L /\ Gate!Count(fails'[b], Window) = N /\ L \in Nat
      BY <1>0, <2>1, <2>2
    <3> HIDE DEF N, L
    <3> QED BY <1>1, <1>5, <3>1, RoomSteps
  <2>3. CASE b \notin Gate!BucketsOf(worker[w].net)
    <3>0. worker[w] \in Gate!Request
      BY DEF Gate!TypeOK
    <3>1. worker[w] \in [at : {"gated", "checking"}, net : Network, defer : BOOLEAN]
      BY <2>1, <3>0, HeldRequest
    <3>2. [worker[w] EXCEPT !.at = "checking"].net = worker[w].net
      BY <3>1
    <3>3. b \notin Gate!BucketsOf([worker[w] EXCEPT !.at = "checking"].net)
      BY <2>3, <3>2
    <3>4. Checking(b)' = Checking(b) \ {w}
      BY <1>7, <2>1, <3>3
    <3> QED BY <1>6, <2>1, <3>4
  <2> QED BY <2>2, <2>3
<1>9. Gate!Idle.at # "checking"
  BY DEF Gate!Idle
<1>10. ASSUME NEW w \in Worker, Gate!FailIntegrity(w)
       PROVE  Room(L, Gate!Count(fails'[b], Window), Cardinality(Checking(b)'))
  <2>1. /\ worker[w].at = "checking"
        /\ worker' = [worker EXCEPT ![w] = Gate!Idle]
        /\ fails'[b] = IF b \in Gate!BucketsOf(worker[w].net)
                       THEN [fails[b] EXCEPT ![0] = fails[b][0] + 1] ELSE fails[b]
    BY <1>10 DEF Gate!FailIntegrity
  <2>2. Checking(b)' = Checking(b) \ {w}
    BY <1>7, <1>9, <2>1
  <2>3. CASE b \in Gate!BucketsOf(worker[w].net)
    <3>1. w \in Checking(b)
      BY <2>1, <2>3 DEF Checking
    <3>2. Cardinality(Checking(b)') = Cardinality(Checking(b)) - 1
      BY <1>1, <2>2, <3>1, WorkersAreFinite
    <3>3. \A a \in 0..(Window - 1) :
             fails'[b][a] = IF a = 0 THEN fails[b][a] + 1 ELSE fails[b][a]
      BY <1>0, <2>1, <2>3
    <3>4. Gate!Count(fails'[b], Window) = N + 1
      BY <1>0, <1>1, <3>3, CountOneMore
    <3>5. L \in Nat
      BY <1>0
    <3> HIDE DEF N, L
    <3> QED BY <1>1, <1>2, <3>2, <3>4, <3>5, RoomSteps
  <2>4. CASE b \notin Gate!BucketsOf(worker[w].net)
    BY <1>6, <2>1, <2>2, <2>4
  <2> QED BY <2>3, <2>4
<1>11. ASSUME Gate!Tick
       PROVE  Room(L, Gate!Count(fails'[b], Window), Cardinality(Checking(b)'))
  <2>1. worker' = worker /\ fails'[b] = Gate!Older(fails[b], Window - 1)
    BY <1>11 DEF Gate!Tick
  <2>2. Checking(b)' = Checking(b)
    BY <2>1 DEF Checking, Gate!BucketsOf
  <2>3. \A a \in 0..(Window - 1) : fails'[b][a] = IF a = 0 THEN 0 ELSE fails[b][a - 1]
    BY <2>1 DEF Gate!Older
  <2>4. Gate!Count(fails'[b], Window) <= N /\ Gate!Count(fails'[b], Window) \in Nat
    BY <1>0, <1>1, <2>3, TickedCount
  <2>5. Cardinality(Checking(b)) <= Cardinality(Checking(b)) /\ L \in Nat
    BY <1>0, <1>1
  <2> HIDE DEF N, L
  <2> QED BY <1>1, <1>2, <2>2, <2>4, <2>5, RoomSteps
<1>12. ASSUME UNCHANGED <<fails, worker>>
       PROVE  fails'[b] = fails[b] /\ Checking(b)' \in SUBSET Checking(b)
  BY <1>12 DEF Checking, Gate!BucketsOf
<1>13. ASSUME NEW w \in Worker,
              \/ \E n \in Network : Gate!Admit(w, n)
              \/ \E t \in Token : Gate!RecordNewDevice(w, t)
              \/ Gate!Leave(w) \/ Gate!AskEmail(w) \/ Gate!Insert(w)
       PROVE  fails'[b] = fails[b] /\ Checking(b)' \in SUBSET Checking(b)
  <2>1. ASSUME NEW x, x.at # "checking", fails' = fails,
               worker' = [worker EXCEPT ![w] = x]
        PROVE  fails'[b] = fails[b] /\ Checking(b)' \in SUBSET Checking(b)
    <3>1. Checking(b)' = Checking(b) \ {w}
      BY <1>7, <2>1
    <3> QED BY <2>1, <3>1
  <2>2. ASSUME NEW n \in Network, Gate!Admit(w, n)
        PROVE  fails'[b] = fails[b] /\ Checking(b)' \in SUBSET Checking(b)
    <3>1. fails' = fails /\ worker' = [worker EXCEPT ![w] = Gate!Asked(n, Gate!Deferred(n))]
      BY <2>2, Zenon DEF Gate!Admit
    <3>2. Gate!Asked(n, Gate!Deferred(n)).at # "checking"
      BY DEF Gate!Asked
    <3> HIDE DEF Gate!Asked
    <3> QED BY <2>1, <3>1, <3>2
  <2>3. Gate!SigningUp.at # "checking"
    BY DEF Gate!SigningUp
  <2>4. ASSUME NEW t \in Token, Gate!RecordNewDevice(w, t)
        PROVE  fails' = fails /\ worker' = [worker EXCEPT ![w] = Gate!Idle]
    BY <2>4, Zenon DEF Gate!RecordNewDevice
  <2>5. ASSUME Gate!Leave(w) \/ Gate!Insert(w)
        PROVE  fails' = fails /\ worker' = [worker EXCEPT ![w] = Gate!Idle]
    BY <2>5, Zenon DEF Gate!Leave, Gate!Insert
  <2>6. ASSUME Gate!AskEmail(w)
        PROVE  fails' = fails /\ worker' = [worker EXCEPT ![w] = Gate!SigningUp]
    BY <2>6, Zenon DEF Gate!AskEmail
  <2> QED BY <1>9, <1>13, <2>1, <2>2, <2>3, <2>4, <2>5, <2>6
<1>14. ASSUME NEW w \in Worker, NEW n \in Network, Gate!Refuse(w, n)
       PROVE  UNCHANGED <<fails, worker>>
  BY <1>14 DEF Gate!Refuse
<1>15. ASSUME \/ Gate!Prune
              \/ \E t \in Token :
                   Gate!Verify(t) \/ (\E fate \in {"waits", "gone"} : Gate!Lose(t, fate))
              \/ UNCHANGED Gate!vars
       PROVE  UNCHANGED <<fails, worker>>
  BY <1>15, Zenon DEF Gate!Prune, Gate!Verify, Gate!Lose, Gate!vars
<1> HIDE DEF N, L
<1> QED
  BY <1>6, <1>8, <1>10, <1>11, <1>12, <1>13, <1>14, <1>15, Zenon DEF Gate!Next

(* For any number of workers and any limit: a limit that is read in one    *)
(* step and filled in another is passed by at most one for each further    *)
(* worker.                                                                 *)
THEOREM CheckedThenFilledHolds == Gate!Spec => []CheckedThenFilled
<1> DEFINE Fails == \A b \in Gate!Bucket : FailsFilled(b)
<1>1. Gate!Init => AskedThenFilled /\ Fails
  BY FilledInit
<1>2. Gate!TypeOK /\ AskedThenFilled /\ Fails /\ [Gate!Next]_Gate!vars
        => AskedThenFilled' /\ Fails'
  <2> SUFFICES ASSUME Gate!TypeOK, AskedThenFilled, Fails, [Gate!Next]_Gate!vars
               PROVE  AskedThenFilled' /\ Fails'
      OBVIOUS
  <2>1. AskedThenFilled'
    BY AskedStep
  <2>2. ASSUME NEW b \in Gate!Bucket
        PROVE  FailsFilled(b)'
    BY <2>2, CheckedStep
  <2>3. Fails'
    BY <2>2 DEF Gate!Bucket
  <2> QED BY <2>1, <2>3
<1>3. Gate!TypeOK /\ AskedThenFilled /\ Fails => Gate!CheckedThenFilled
  <2> SUFFICES ASSUME Gate!TypeOK, AskedThenFilled, Fails
               PROVE  Gate!CheckedThenFilled
      OBVIOUS
  <2>1. \A S : Gate!Cardinality(S) = Cardinality(S)
    BY GateCardinality
  <2>2. Gate!Count(rows, Day) <= DayLimit + Cardinality(Worker) - 1
    <3>1. Gate!Count(rows, Day) \in Nat /\ Cardinality(Asking) \in Nat
      <4>1. Asking \in SUBSET Worker
        BY DEF Asking
      <4>2. Day \in Nat /\ \A a \in 0..(Day - 1) : rows[a] \in Nat
        BY GateAssumptions DEF Gate!TypeOK
      <4> QED BY <4>1, <4>2, WorkersAreFinite, CountIsNat
    <3>2. DayLimit \in Nat
      BY GateAssumptions
    <3>3. Room(DayLimit, Gate!Count(rows, Day), Cardinality(Asking))
      BY DEF AskedThenFilled
    <3> QED BY <3>1, <3>2, <3>3, RoomSteps
  <2>3. ASSUME NEW b \in Gate!Bucket
        PROVE  Gate!Count(fails[b], Window) <= FailLimit[b] + Cardinality(Worker) - 1
    <3>1. Gate!Count(fails[b], Window) \in Nat /\ Cardinality(Checking(b)) \in Nat
      BY FilledNumbers
    <3>2. FailLimit[b] \in Nat
      BY GateAssumptions
    <3>3. Room(FailLimit[b], Gate!Count(fails[b], Window), Cardinality(Checking(b)))
      BY DEF FailsFilled
    <3> QED BY <3>1, <3>2, <3>3, RoomSteps
  <2> QED BY <2>1, <2>2, <2>3 DEF Gate!CheckedThenFilled
<1> QED BY <1>1, <1>2, <1>3, SameLimits, GateTypes, PTL DEF Gate!Spec

-----------------------------------------------------------------------------
(* The tokens whose push went out at once.  Each is one that its network's *)
(* count sees, for it has not verified; and a worker that was let past the *)
(* count holds a place until it records its token.                         *)
PushedNow(b) == {t \in Gate!Recent(b) : newdev[t].now}
Pushing(b)   == {w \in Worker : /\ worker[w].at \in {"gated", "checking"}
                                /\ worker[w].defer = FALSE
                                /\ b \in Gate!BucketsOf(worker[w].net)}

NowWaits == \A t \in Token :
  newdev[t] # Nothing /\ newdev[t].now => newdev[t].device # "verified"

NowInLine(b) == Room(TokenLimit[b], Cardinality(PushedNow(b)), Cardinality(Pushing(b)))

(* A token is pushed at once after a step only if it was before, by the    *)
(* same network, as young and as unverified.                               *)
Faded(t) ==
  newdev'[t] # Nothing /\ newdev'[t].now =>
    /\ newdev[t] # Nothing /\ newdev[t].now
    /\ newdev'[t].net = newdev[t].net
    /\ newdev'[t].device \in {newdev[t].device, "waits", "gone"}
    /\ newdev'[t].age < Hour => newdev[t].age < Hour

LEMMA TokensAreFinite ==
  ASSUME NEW S \in SUBSET Token
  PROVE  /\ IsFiniteSet(S) /\ Cardinality(S) \in Nat
         /\ \A T \in SUBSET S : Cardinality(T) <= Cardinality(S) /\ Cardinality(T) \in Nat
<1>1. IsFiniteSet(Token)
  BY GateAssumptions
<1>2. IsFiniteSet(S)
  BY <1>1, FS_Subset
<1>3. \A T \in SUBSET S : IsFiniteSet(T) /\ Cardinality(T) <= Cardinality(S)
  BY <1>2, FS_Subset
<1> QED BY <1>2, <1>3, FS_CardinalityType

LEMMA FadedTokens ==
  ASSUME NowWaits, \A t \in Token : Faded(t), NEW b
  PROVE  NowWaits' /\ PushedNow(b)' \in SUBSET PushedNow(b)
<1>1. NowWaits'
  BY DEF NowWaits, Faded
<1>2. ASSUME NEW t \in Token, t \in PushedNow(b)'
      PROVE  t \in PushedNow(b)
  <2>1. /\ newdev'[t] # Nothing /\ newdev'[t].now /\ newdev'[t].age < Hour
        /\ b \in Gate!BucketsOf(newdev'[t].net)
    BY <1>2 DEF PushedNow, Gate!Recent, Gate!BucketsOf
  <2>2. /\ newdev[t] # Nothing /\ newdev[t].now /\ newdev[t].age < Hour
        /\ newdev'[t].net = newdev[t].net
    BY <2>1 DEF Faded
  <2>3. b \in Gate!BucketsOf(newdev[t].net)
    BY <2>1, <2>2
  <2> QED BY <2>2, <2>3 DEF PushedNow, Gate!Recent
<1>3. PushedNow(b)' \in SUBSET Token
  BY DEF PushedNow, Gate!Recent
<1> QED BY <1>1, <1>2, <1>3

(* Every step but a recording leaves the tokens faded.                     *)
LEMMA TokensFade ==
  ASSUME Gate!TypeOK, [Gate!Next]_Gate!vars,
         ~\E w \in Worker, t \in Token : Gate!RecordNewDevice(w, t),
         NEW u \in Token
  PROVE  Faded(u)
<1>0. /\ newdev \in [Token -> Gate!NewToken \cup {Nothing}] /\ Hour \in Nat \ {0}
      /\ newdev[u] # Nothing => newdev[u] \in Gate!NewToken
  BY GateAssumptions DEF Gate!TypeOK
<1>1. ASSUME newdev'[u] = newdev[u]
      PROVE  Faded(u)
  BY <1>1 DEF Faded
<1>2. ASSUME newdev' = newdev
      PROVE  Faded(u)
  BY <1>1, <1>2
<1>3. ASSUME NEW t \in Token, Gate!Verify(t)
      PROVE  Faded(u)
  <2>1. newdev' = [newdev EXCEPT ![t] = [newdev[t] EXCEPT !.device = "verified", !.now = FALSE]]
    BY <1>0, <1>3 DEF Gate!Verify
  <2>2. newdev[t] \in Gate!NewToken
    BY <1>0, <1>3 DEF Gate!Verify, Gate!Young
  <2>3. CASE u = t
    <3>1. newdev'[u] = [newdev[t] EXCEPT !.device = "verified", !.now = FALSE]
      BY <1>0, <2>1, <2>3
    <3>2. newdev'[u].now = FALSE
      BY <2>2, <3>1 DEF Gate!NewToken
    <3> QED BY <3>2 DEF Faded
  <2>4. CASE u # t
    BY <1>0, <1>1, <2>1, <2>4
  <2> QED BY <2>3, <2>4
<1>4. ASSUME NEW t \in Token, NEW fate \in {"waits", "gone"}, Gate!Lose(t, fate)
      PROVE  Faded(u)
  <2>1. newdev' = [newdev EXCEPT ![t] = [newdev[t] EXCEPT !.device = fate]]
    BY <1>4 DEF Gate!Lose
  <2>2. newdev[t] \in Gate!NewToken /\ newdev[t] # Nothing
    BY <1>0, <1>4 DEF Gate!Lose, Gate!Young
  <2>3. CASE u = t
    <3>1. newdev'[u] = [newdev[t] EXCEPT !.device = fate]
      BY <1>0, <2>1, <2>3
    <3>2. /\ newdev'[u].net = newdev[u].net /\ newdev'[u].age = newdev[u].age
          /\ newdev'[u].now = newdev[u].now /\ newdev'[u].device = fate
      BY <2>2, <2>3, <3>1 DEF Gate!NewToken
    <3> QED BY <2>2, <2>3, <3>2 DEF Faded
  <2>4. CASE u # t
    BY <1>0, <1>1, <2>1, <2>4
  <2> QED BY <2>3, <2>4
<1>5. ASSUME Gate!Prune
      PROVE  Faded(u)
  <2>1. newdev'[u] \in {Nothing, newdev[u]}
    BY <1>5 DEF Gate!Prune
  <2>2. CASE newdev'[u] = Nothing
    BY <2>2 DEF Faded
  <2> QED BY <1>1, <2>1, <2>2
<1>6. ASSUME Gate!Tick
      PROVE  Faded(u)
  <2>1. newdev'[u] =
          IF newdev[u] = Nothing THEN Nothing
          ELSE IF newdev[u].age + 1 >= Hour
               THEN [net |-> newdev[u].net, age |-> Hour, device |-> "gone", now |-> FALSE]
               ELSE [newdev[u] EXCEPT !.age = newdev[u].age + 1]
    BY <1>6 DEF Gate!Tick
  <2>2. CASE newdev[u] = Nothing
    BY <1>1, <2>1, <2>2
  <2>3. CASE newdev[u] # Nothing /\ newdev[u].age + 1 >= Hour
    <3>1. newdev'[u].now = FALSE
      BY <2>1, <2>3
    <3> QED BY <3>1 DEF Faded
  <2>4. CASE newdev[u] # Nothing /\ ~(newdev[u].age + 1 >= Hour)
    <3>1. newdev'[u] = [newdev[u] EXCEPT !.age = newdev[u].age + 1]
      BY <2>1, <2>4
    <3>2. newdev[u] \in Gate!NewToken
      BY <1>0, <2>4
    <3>3. newdev[u].age \in Nat
      BY <3>2 DEF Gate!NewToken
    <3>4. newdev[u].age < Hour
      BY <1>0, <2>4, <3>3
    <3>5. /\ newdev'[u].net = newdev[u].net /\ newdev'[u].now = newdev[u].now
          /\ newdev'[u].device = newdev[u].device
      BY <3>1, <3>2 DEF Gate!NewToken
    <3> QED BY <2>4, <3>4, <3>5 DEF Faded
  <2> QED BY <2>2, <2>3, <2>4
<1>7. ASSUME NEW w \in Worker,
             \/ \E n \in Network : Gate!Admit(w, n) \/ Gate!Refuse(w, n)
             \/ Gate!CheckIntegrity(w) \/ Gate!FailIntegrity(w)
             \/ Gate!Leave(w) \/ Gate!AskEmail(w) \/ Gate!Insert(w)
      PROVE  newdev' = newdev
  BY <1>7, Zenon DEF Gate!Admit, Gate!Refuse, Gate!CheckIntegrity, Gate!FailIntegrity,
                     Gate!Leave, Gate!AskEmail, Gate!Insert
<1>8. UNCHANGED Gate!vars => newdev' = newdev
  BY Zenon DEF Gate!vars
<1> QED
  BY <1>2, <1>3, <1>4, <1>5, <1>6, <1>7, <1>8, Zenon DEF Gate!Next

(* A recorded token takes the place of a bucket that was free of it.       *)
LEMMA Recorded ==
  ASSUME Gate!TypeOK, NowWaits, NEW w \in Worker, NEW t \in Token,
         Gate!RecordNewDevice(w, t), NEW b
  PROVE  /\ NowWaits' /\ w \notin Pushing(b)'
         /\ Pushing(b)' = Pushing(b) \ {w}
         /\ PushedNow(b)' \in SUBSET (PushedNow(b) \cup (IF w \in Pushing(b) THEN {t} ELSE {}))
<1> DEFINE n == worker[w].net
           kept == [u \in Token |->
             IF newdev[u] # Nothing /\ newdev[u].age >= Hour
                /\ Gate!BucketsOf(newdev[u].net) \subseteq Gate!BucketsOf(n)
             THEN Nothing ELSE newdev[u]]
           new == [net |-> n, age |-> 0, device |-> "waits", now |-> ~worker[w].defer]
<1>0. Hour \in Nat \ {0}
  BY GateAssumptions
<1>1. /\ newdev' = [kept EXCEPT ![t] = new]
      /\ worker' = [worker EXCEPT ![w] = Gate!Idle]
      /\ worker[w].at \in {"gated", "checking"}
  BY Zenon DEF Gate!RecordNewDevice, Gate!Holds
<1>2. /\ newdev'[t] = new
      /\ \A u \in Token \ {t} : newdev'[u] \in {Nothing, newdev[u]}
  <2>1. \A u \in Token : kept[u] \in {Nothing, newdev[u]}
    OBVIOUS
  <2>2. kept = [u \in Token |-> kept[u]]
    OBVIOUS
  <2> HIDE DEF kept, new
  <2> QED BY <1>1, <2>1, <2>2
<1>3. worker[w] \in [at : {"gated", "checking"}, net : Network, defer : BOOLEAN]
  <2>1. worker[w] \in Gate!Request
    BY DEF Gate!TypeOK
  <2> QED BY <1>1, <2>1, HeldRequest
<1>4. /\ new.net = n /\ new.device = "waits" /\ new.age = 0
      /\ new.now = ~worker[w].defer
  OBVIOUS
<1> HIDE DEF new, kept
<1>5. NowWaits'
  <2> SUFFICES ASSUME NEW u \in Token, newdev'[u] # Nothing, newdev'[u].now
               PROVE  newdev'[u].device # "verified"
      BY DEF NowWaits
  <2>1. CASE u = t
    BY <1>2, <1>4, <2>1
  <2>2. CASE u # t
    BY <1>2, <2>2 DEF NowWaits
  <2> QED BY <2>1, <2>2
<1>6. Pushing(b)' = Pushing(b) \ {w}
  <2>1. /\ worker'[w] = Gate!Idle
        /\ \A v \in Worker \ {w} : worker'[v] = worker[v]
    BY <1>1 DEF Gate!TypeOK
  <2>2. worker'[w].at = "idle"
    BY <2>1 DEF Gate!Idle
  <2> QED BY <2>1, <2>2 DEF Pushing, Gate!BucketsOf
<1>7. ASSUME NEW u \in Token, u \in PushedNow(b)'
      PROVE  u \in PushedNow(b) \cup (IF w \in Pushing(b) THEN {t} ELSE {})
  <2>1. /\ newdev'[u] # Nothing /\ newdev'[u].now /\ newdev'[u].age < Hour
        /\ b \in Gate!BucketsOf(newdev'[u].net)
    BY <1>7 DEF PushedNow, Gate!Recent, Gate!BucketsOf
  <2>2. CASE u # t
    <3>1. newdev'[u] = newdev[u]
      BY <1>2, <2>1, <2>2
    <3>2. u \in PushedNow(b)
      BY <2>1, <3>1 DEF PushedNow, Gate!Recent
    <3> QED BY <3>2
  <2>3. CASE u = t
    <3>1. b \in Gate!BucketsOf(n)
      BY <1>2, <1>4, <2>1, <2>3
    <3>2. ~worker[w].defer
      BY <1>2, <1>4, <2>1, <2>3
    <3>3. worker[w].defer = FALSE
      BY <1>3, <3>2
    <3>4. w \in Pushing(b)
      BY <1>1, <3>1, <3>3 DEF Pushing
    <3> QED BY <2>3, <3>4
  <2> QED BY <2>2, <2>3
<1>8. PushedNow(b)' \in SUBSET Token
  BY DEF PushedNow, Gate!Recent
<1>9. PushedNow(b)' \in SUBSET (PushedNow(b) \cup (IF w \in Pushing(b) THEN {t} ELSE {}))
  BY <1>7, <1>8
<1> QED BY <1>5, <1>6, <1>9

(* Nobody but a worker let past the count starts to push at once.          *)
LEMMA PushingLeaves ==
  ASSUME Gate!TypeOK, NEW w \in Worker, NEW x, worker' = [worker EXCEPT ![w] = x], NEW b,
         ~(/\ x.at \in {"gated", "checking"} /\ x.defer = FALSE
           /\ b \in Gate!BucketsOf(x.net))
  PROVE  Pushing(b)' \in SUBSET Pushing(b)
<1>1. worker'[w] = x /\ \A v \in Worker \ {w} : worker'[v] = worker[v]
  BY DEF Gate!TypeOK
<1> QED BY <1>1 DEF Pushing, Gate!BucketsOf

LEMMA NowStep ==
  ASSUME Gate!TypeOK, [Gate!Next]_Gate!vars, NowWaits,
         NEW b \in Gate!Bucket, NowInLine(b)
  PROVE  NowWaits' /\ NowInLine(b)'
<1> DEFINE N == Cardinality(PushedNow(b))
           I == Cardinality(Pushing(b))
           L == TokenLimit[b]
<1>0. L \in Nat \ {0}
  BY GateAssumptions
<1>1. /\ PushedNow(b) \in SUBSET Token /\ PushedNow(b)' \in SUBSET Token
      /\ Pushing(b) \in SUBSET Worker /\ Pushing(b)' \in SUBSET Worker
  BY DEF PushedNow, Pushing, Gate!Recent
<1>2. /\ N \in Nat /\ I \in Nat
      /\ Cardinality(PushedNow(b)') \in Nat /\ Cardinality(Pushing(b)') \in Nat
      /\ Cardinality(Pushing(b)') <= Cardinality(Worker)
  BY <1>1, TokensAreFinite, WorkersAreFinite
<1>3. Room(L, N, I)
  BY DEF NowInLine
<1>4. Room(L, Cardinality(PushedNow(b)'), Cardinality(Pushing(b)')) => NowInLine(b)'
  BY DEF NowInLine, Room
<1>5. ASSUME PushedNow(b)' \in SUBSET PushedNow(b), Pushing(b)' \in SUBSET Pushing(b)
      PROVE  NowInLine(b)'
  <2>1. Cardinality(PushedNow(b)') <= N /\ Cardinality(Pushing(b)') <= I /\ L \in Nat
    BY <1>0, <1>1, <1>5, TokensAreFinite, WorkersAreFinite
  <2> HIDE DEF N, I, L
  <2>2. Room(L, Cardinality(PushedNow(b)'), Cardinality(Pushing(b)'))
    BY <1>2, <1>3, <2>1, RoomSteps
  <2> QED BY <1>4, <2>2
<1>6. ASSUME NEW w \in Worker, NEW t \in Token, Gate!RecordNewDevice(w, t)
      PROVE  NowWaits' /\ NowInLine(b)'
  <2>1. /\ NowWaits' /\ Pushing(b)' = Pushing(b) \ {w}
        /\ PushedNow(b)' \in SUBSET (PushedNow(b) \cup (IF w \in Pushing(b) THEN {t} ELSE {}))
    BY <1>6, Recorded
  <2>2. CASE w \notin Pushing(b)
    BY <1>5, <2>1, <2>2
  <2>3. CASE w \in Pushing(b)
    <3>1. Cardinality(Pushing(b)') = I - 1
      BY <1>1, <2>1, <2>3, WorkersAreFinite
    <3>2. I - 1 \in Nat
      BY <1>2, <3>1
    <3>3. IsFiniteSet(PushedNow(b))
      BY <1>1, TokensAreFinite
    <3>4. /\ IsFiniteSet(PushedNow(b) \cup {t})
          /\ Cardinality(PushedNow(b) \cup {t}) <= N + 1
      <4>1. /\ IsFiniteSet(PushedNow(b) \cup {t})
            /\ Cardinality(PushedNow(b) \cup {t}) = IF t \in PushedNow(b) THEN N ELSE N + 1
        BY <3>3, FS_AddElement
      <4> HIDE DEF N
      <4> QED BY <1>2, <4>1
    <3>5. PushedNow(b)' \in SUBSET (PushedNow(b) \cup {t})
      BY <2>1, <2>3
    <3>6. /\ Cardinality(PushedNow(b)') <= Cardinality(PushedNow(b) \cup {t})
          /\ Cardinality(PushedNow(b) \cup {t}) \in Nat
      BY <3>4, <3>5, FS_Subset, FS_CardinalityType
    <3>7. Cardinality(PushedNow(b)') <= N + 1 /\ N + 1 \in Nat
      BY <1>2, <3>4, <3>6
    <3>8. L \in Nat
      BY <1>0
    <3> HIDE DEF N, I, L
    <3>9. Room(L, N + 1, I - 1)
      BY <1>2, <1>3, <3>8, RoomSteps
    <3>10. Cardinality(Pushing(b)') <= I - 1
      BY <1>2, <3>1
    <3>11. Room(L, Cardinality(PushedNow(b)'), Cardinality(Pushing(b)'))
      BY <1>2, <3>2, <3>7, <3>8, <3>9, <3>10, RoomSteps
    <3> QED BY <1>4, <2>1, <3>11
  <2> QED BY <2>2, <2>3
<1>7. CASE \E w \in Worker, t \in Token : Gate!RecordNewDevice(w, t)
  BY <1>6, <1>7
<1>8. CASE ~\E w \in Worker, t \in Token : Gate!RecordNewDevice(w, t)
  <2>1. \A t \in Token : Faded(t)
    BY <1>8, TokensFade
  <2>2. NowWaits' /\ PushedNow(b)' \in SUBSET PushedNow(b)
    BY <2>1, FadedTokens
  <2>3. Pushing(b)' \in SUBSET Pushing(b) => NowInLine(b)'
    BY <1>5, <2>2
  <2>4. ASSUME NEW w \in Worker, NEW x, x.at \in {"idle", "signing"},
               worker' = [worker EXCEPT ![w] = x]
        PROVE  NowInLine(b)'
    BY <2>3, <2>4, PushingLeaves
  <2>5. Gate!Idle.at \in {"idle", "signing"} /\ Gate!SigningUp.at \in {"idle", "signing"}
    BY DEF Gate!Idle, Gate!SigningUp
  <2>6. ASSUME NEW w \in Worker, NEW n \in Network, Gate!Admit(w, n)
        PROVE  NowInLine(b)'
    <3> DEFINE x == Gate!Asked(n, Gate!Deferred(n))
    <3>1. worker' = [worker EXCEPT ![w] = x] /\ newdev' = newdev
      BY <2>6, Zenon DEF Gate!Admit
    <3>2. x.net = n /\ (x.defer = FALSE => ~Gate!Deferred(n))
      <4>1. Gate!Deferred(n) \in BOOLEAN
        BY DEF Gate!Deferred
      <4> HIDE DEF Gate!Deferred
      <4> QED BY <4>1 DEF Gate!Asked
    <3> HIDE DEF x
    <3>3. CASE b \in Gate!BucketsOf(n) /\ x.defer = FALSE
      <4>1. ~(Gate!Cardinality(Gate!Unverified(b)) >= TokenLimit[b])
        BY <3>2, <3>3 DEF Gate!Deferred
      <4>2. PushedNow(b) \in SUBSET Gate!Unverified(b)
        BY DEF PushedNow, Gate!Unverified, Gate!Recent, NowWaits
      <4>3. Gate!Unverified(b) \in SUBSET Token
        BY DEF Gate!Unverified, Gate!Recent
      <4>4. N <= Cardinality(Gate!Unverified(b)) /\ Cardinality(Gate!Unverified(b)) \in Nat
        BY <4>2, <4>3, TokensAreFinite
      <4>5. ~(Cardinality(Gate!Unverified(b)) >= L)
        BY <4>1, GateCardinality
      <4>6. N < L /\ L \in Nat
        BY <1>0, <1>2, <4>4, <4>5
      <4>7. PushedNow(b)' = PushedNow(b)
        BY <3>1 DEF PushedNow, Gate!Recent, Gate!BucketsOf
      <4>8. Cardinality(PushedNow(b)') = N
        BY <4>7
      <4> HIDE DEF N, L
      <4>9. Room(L, Cardinality(PushedNow(b)'), Cardinality(Pushing(b)'))
        BY <1>2, <4>6, <4>8, RoomSteps
      <4> QED BY <1>4, <4>9 DEF L
    <3>4. CASE ~(b \in Gate!BucketsOf(n) /\ x.defer = FALSE)
      BY <2>3, <3>1, <3>2, <3>4, PushingLeaves
    <3> QED BY <3>3, <3>4
  <2>7. ASSUME NEW w \in Worker, Gate!CheckIntegrity(w)
        PROVE  NowInLine(b)'
    <3>1. /\ worker' = [worker EXCEPT ![w] = [worker[w] EXCEPT !.at = "checking"]]
          /\ worker[w].at = "gated"
      BY <2>7, Zenon DEF Gate!CheckIntegrity
    <3>2. worker[w] \in [at : {"gated", "checking"}, net : Network, defer : BOOLEAN]
      <4>1. worker[w] \in Gate!Request
        BY DEF Gate!TypeOK
      <4> QED BY <3>1, <4>1, HeldRequest
    <3>3. /\ worker'[w] = [worker[w] EXCEPT !.at = "checking"]
          /\ \A v \in Worker \ {w} : worker'[v] = worker[v]
      BY <3>1 DEF Gate!TypeOK
    <3>4. worker'[w].net = worker[w].net /\ worker'[w].defer = worker[w].defer
      BY <3>2, <3>3
    <3>5. Pushing(b)' \in SUBSET Pushing(b)
      BY <3>1, <3>3, <3>4 DEF Pushing, Gate!BucketsOf
    <3> QED BY <2>3, <3>5
  <2>8. ASSUME NEW w \in Worker,
               \/ Gate!FailIntegrity(w) \/ Gate!Leave(w) \/ Gate!Insert(w)
               \/ Gate!AskEmail(w)
        PROVE  NowInLine(b)'
    <3>1. \/ worker' = [worker EXCEPT ![w] = Gate!Idle]
          \/ worker' = [worker EXCEPT ![w] = Gate!SigningUp]
      BY <2>8, Zenon DEF Gate!FailIntegrity, Gate!Leave, Gate!Insert, Gate!AskEmail
    <3> QED BY <2>4, <2>5, <3>1
  <2>9. ASSUME \/ \E w \in Worker : \E n \in Network : Gate!Refuse(w, n)
               \/ Gate!Prune \/ Gate!Tick
               \/ \E t \in Token :
                    Gate!Verify(t) \/ (\E fate \in {"waits", "gone"} : Gate!Lose(t, fate))
               \/ UNCHANGED Gate!vars
        PROVE  NowInLine(b)'
    <3>1. worker' = worker
      BY <2>9, Zenon DEF Gate!Refuse, Gate!Prune, Gate!Tick, Gate!Verify, Gate!Lose, Gate!vars
    <3>2. Pushing(b)' = Pushing(b)
      BY <3>1 DEF Pushing, Gate!BucketsOf
    <3> QED BY <2>3, <3>2
  <2>10. NowInLine(b)'
    BY <1>8, <2>6, <2>7, <2>8, <2>9, Zenon DEF Gate!Next
  <2> QED BY <2>2, <2>10
<1> QED BY <1>7, <1>8

(* For any number of workers and any limit: the young unverified tokens    *)
(* whose push went out at once pass the limit of their network and of its  *)
(* /48 by at most one for each further worker, whatever is deleted.        *)
THEOREM ImmediateBoundHolds == Gate!Spec => []ImmediateBound
<1> DEFINE Held == NowWaits /\ \A b \in Gate!Bucket : NowInLine(b)
<1>1. Gate!Init => Held
  <2> SUFFICES ASSUME Gate!Init PROVE Held
      OBVIOUS
  <2>1. \A t \in Token : newdev[t] = Nothing
    BY DEF Gate!Init
  <2>2. NowWaits /\ \A b : PushedNow(b) = {}
    BY <2>1 DEF NowWaits, PushedNow, Gate!Recent
  <2>3. \A b : Pushing(b) = {}
    BY DEF Gate!Init, Gate!Idle, Pushing
  <2>4. Cardinality({}) = 0 /\ Cardinality(Worker) \in Nat \ {0}
    BY WorkersAreFinite, FS_EmptySet
  <2>5. \A b \in Gate!Bucket : TokenLimit[b] \in Nat
    BY GateAssumptions
  <2>6. \A l \in Nat : Room(l, 0, 0)
    BY <2>4 DEF Room
  <2>7. ASSUME NEW b \in Gate!Bucket
        PROVE  NowInLine(b)
    BY <2>2, <2>3, <2>4, <2>5, <2>6 DEF NowInLine
  <2> QED BY <2>2, <2>7
<1>2. Gate!TypeOK /\ Held /\ [Gate!Next]_Gate!vars => Held'
  <2> SUFFICES ASSUME Gate!TypeOK, Held, [Gate!Next]_Gate!vars
               PROVE  Held'
      OBVIOUS
  <2>1. ASSUME NEW b \in Gate!Bucket
        PROVE  NowWaits' /\ NowInLine(b)'
    BY <2>1, NowStep
  <2>2. NowWaits'
    <3>1. CASE \E w \in Worker, t \in Token : Gate!RecordNewDevice(w, t)
      BY <3>1, Recorded
    <3>2. CASE ~\E w \in Worker, t \in Token : Gate!RecordNewDevice(w, t)
      <4>1. \A t \in Token : Faded(t)
        BY <3>2, TokensFade
      <4> QED BY <4>1, FadedTokens
    <3> QED BY <3>1, <3>2
  <2>3. (\A b \in Gate!Bucket : NowInLine(b))'
    BY <2>1 DEF Gate!Bucket
  <2> QED BY <2>2, <2>3
<1>3. Gate!TypeOK /\ Held => Gate!ImmediateBound
  <2> SUFFICES ASSUME Held, NEW b \in Gate!Bucket
               PROVE  Cardinality(PushedNow(b)) <= TokenLimit[b] + Cardinality(Worker) - 1
      BY GateCardinality DEF Gate!ImmediateBound, PushedNow
  <2>1. PushedNow(b) \in SUBSET Token /\ Pushing(b) \in SUBSET Worker
    BY DEF PushedNow, Pushing, Gate!Recent
  <2>2. Cardinality(PushedNow(b)) \in Nat /\ Cardinality(Pushing(b)) \in Nat
    BY <2>1, TokensAreFinite, WorkersAreFinite
  <2>3. TokenLimit[b] \in Nat
    BY GateAssumptions
  <2>4. Room(TokenLimit[b], Cardinality(PushedNow(b)), Cardinality(Pushing(b)))
    BY DEF NowInLine
  <2> QED BY <2>2, <2>3, <2>4, RoomSteps
<1> QED BY <1>1, <1>2, <1>3, SameLimits, GateTypes, PTL DEF Gate!Spec
=============================================================================
