---------------------------- MODULE VerifyBudget -----------------------------
(***************************************************************************)
(* How often a verification push goes out to one token: the requests for   *)
(* it (app/api.py, repo.request_verification), and the senders that answer *)
(* them, the web workers at once and the poller's sweep after a grace      *)
(* (push.send_verifications, with the waits, the records and the give-ups  *)
(* of app/repo.py).                                                        *)
(*                                                                         *)
(* A request is the owner's, made with the row's main credential, or open, *)
(* made by anybody who knows the token.  Each kind has a daily budget of   *)
(* its own, so that nobody spends the owner's.  The attempts are recorded  *)
(* by token and outlive the row.                                           *)
(*                                                                         *)
(* One token, and the row that names it.  Timers of a minute end together, *)
(* at any moment: they only ever hold a push back.                         *)
(***************************************************************************)
EXTENDS Naturals, FiniteSets

CONSTANTS Sender,       \* processes that send codes
          Sweep,        \* the one that is the poller
          None,
          OpenBudget,   \* MAX_VERIFY_PUSHES_PER_DAY
          OwnerBudget,  \* MAX_OWNER_VERIFY_PUSHES_PER_DAY
          Ceiling,      \* MAX_VERIFY_ATTEMPTS_PER_TOKEN_PER_DAY
          MaxFailures,  \* MAX_VERIFY_FAILURES
          MaxRefusals   \* MAX_UNCONFIRMED_REFUSALS

ASSUME SenderAssumption == IsFiniteSet(Sender) /\ Sweep \in Sender /\ None \notin Sender
ASSUME BudgetAssumption ==
  /\ OpenBudget \in Nat \ {0} /\ OwnerBudget \in Nat \ {0} /\ Ceiling \in Nat \ {0}
  /\ MaxFailures \in Nat \ {0} /\ MaxRefusals \in Nat \ {0}

VARIABLES
  row,       \* the row that names the token
  credited,  \* attempts of the day that count toward a kind's budget
  bare,      \* refusals of the day without evidence that the platform works
  recent,    \* the relay answered an attempt in the last minute
  sender,    \* a sender at work
  charged    \* history: the row's refusals charged to its owner since the owner asked

vars == <<row, credited, bare, recent, sender, charged>>

Kinds == {"open", "owner"}
Budget == [k \in Kinds |-> IF k = "owner" THEN OwnerBudget ELSE OpenBudget]

(* here: live or retired; held: has something to lose (verified once, or a *)
(* subscription); waits: has something to prove (not verified, or a        *)
(* pending secret); asked: its push was requested within a day; kind, sent *)
(* and failures of that request; tries: refusals of the token; later: not  *)
(* before some time; code: whose code's hash is stored; arrived (history): *)
(* a push with that code was delivered; young: the last code is not a      *)
(* minute old; grace: the request is younger than the sweep minds.         *)
Overlap == Cardinality(Sender) - 1
Row == [here: {"live", "retired"}, held: BOOLEAN, waits: BOOLEAN, asked: BOOLEAN,
        kind: Kinds, sent: BOOLEAN, failures: 0..(MaxFailures + Overlap),
        tries: 0..MaxRefusals, later: BOOLEAN, code: Sender \cup {None},
        arrived: BOOLEAN, young: BOOLEAN, grace: BOOLEAN]

NewRow == [here |-> "live", held |-> FALSE, waits |-> TRUE, asked |-> TRUE,
           kind |-> "open", sent |-> FALSE, failures |-> 0, tries |-> 0,
           later |-> FALSE, code |-> None, arrived |-> FALSE, young |-> FALSE,
           grace |-> TRUE]

Outcomes == {"delivered", "confirmed", "bare", "nothing"}
AtWork == [at: {"idle", "picked", "claimed"} \cup Outcomes, kind: Kinds, same: BOOLEAN]
Resting == [at |-> "idle", kind |-> "open", same |-> FALSE]

Less(a, b) == IF a < b THEN a ELSE b

-----------------------------------------------------------------------------
(* Requests.                                                               *)

(* Mutant: an open request starts the owner's count over.                  *)
RequestedAfresh(r, k) ==
  LET joins == k = "open" /\ r.kind = "owner" /\ ~r.sent
  IN [r EXCEPT !.asked = TRUE, !.grace = TRUE, !.sent = FALSE,
               !.kind = IF joins THEN "owner" ELSE k,
               !.failures = 0, !.later = FALSE]

(* request_verification: an open request joins an owner's that still waits *)
(* for its push, and changes nothing about it.                             *)
Requested(r, k) ==
  LET joins == k = "open" /\ r.kind = "owner" /\ ~r.sent
  IN [r EXCEPT !.asked = TRUE, !.grace = TRUE, !.sent = FALSE,
               !.kind = IF joins THEN "owner" ELSE k,
               !.failures = IF joins THEN @ ELSE 0,
               !.later = joins /\ @]

CodeDropped(r) == [r EXCEPT !.code = None, !.arrived = FALSE, !.young = FALSE]

Charge(k) == charged' = IF k = "owner" THEN 0 ELSE charged

(* POST /devices with a token a row holds: a pending secret, the row live  *)
(* again, the code kept.                                                   *)
RegisterKnown ==
  /\ row' = [Requested(row, "open") EXCEPT !.here = "live", !.waits = TRUE]
  /\ UNCHANGED <<credited, bare, recent, sender, charged>>

(* DELETE /device and a registration of the token: another row, of which   *)
(* a sender at work knows nothing, and the same record of attempts.        *)
DeleteAndRegister ==
  /\ row' = NewRow
  /\ sender' = [s \in Sender |-> [sender[s] EXCEPT !.same = FALSE]]
  /\ UNCHANGED <<credited, bare, recent, charged>>

(* PUT /device, from another token back to this one: unverified, the code  *)
(* dropped, an owner's request.  A row with a subscription keeps it.       *)
TokenChange(held) ==
  /\ row.here = "live"
  /\ row' = [CodeDropped(Requested(row, "owner")) EXCEPT !.waits = TRUE, !.tries = 0,
                                                         !.held = held]
  /\ Charge("owner")
  /\ UNCHANGED <<credited, bare, recent, sender>>

(* Mutant: one attempt too many.                                           *)
BudgetLeftByOne(k) == credited[k] <= Budget[k]

(* The daily budget of a kind: deliveries and refusals with evidence.      *)
BudgetLeft(k) == credited[k] < Budget[k]

(* The ceiling over every attempt the relay answered.                      *)
UnderTheCeiling == credited["open"] + credited["owner"] + bare < Ceiling

(* token_verify_wait and device_verify_wait say now.                       *)
NoWait(k) == ~recent /\ BudgetLeft(k) /\ UnderTheCeiling

(* POST /device/verify/resend, with the main credential of an unverified   *)
(* row or with a pending one: a code in flight or just delivered is kept.  *)
Resend(k) ==
  /\ row.here = "live" /\ row.waits
  /\ NoWait(k)
  /\ row' = LET r == Requested(row, k) IN IF r.young THEN r ELSE CodeDropped(r)
  /\ Charge(k)
  /\ UNCHANGED <<credited, bare, recent, sender>>

(* POST /device/verify with the code that was pushed.                      *)
Prove ==
  /\ row.here = "live" /\ row.waits /\ row.arrived
  /\ row' = [row EXCEPT !.waits = FALSE, !.held = TRUE, !.code = None, !.arrived = FALSE]
  /\ UNCHANGED <<credited, bare, recent, sender, charged>>

-----------------------------------------------------------------------------
(* A sender.                                                               *)

(* devices_awaiting_verification: the sweep leaves a new request alone.    *)
Awaits(s) ==
  /\ row.here = "live" /\ row.waits /\ row.asked /\ ~row.sent
  /\ row.failures < MaxFailures
  /\ ~row.later
  /\ s = Sweep => ~row.grace

Pick(s) ==
  /\ sender[s].at = "idle" /\ Awaits(s)
  /\ NoWait(row.kind)
  /\ sender' = [sender EXCEPT ![s] = [at |-> "picked", kind |-> row.kind, same |-> TRUE]]
  /\ UNCHANGED <<row, credited, bare, recent, charged>>

(* The budget says wait: look again later.                                 *)
Hold(s) ==
  /\ sender[s].at = "idle" /\ Awaits(s)
  /\ ~NoWait(row.kind)
  /\ row' = [row EXCEPT !.later = TRUE]
  /\ UNCHANGED <<credited, bare, recent, sender, charged>>

Rest(s) == sender' = [sender EXCEPT ![s] = Resting]

Claimable(s) == sender[s].same /\ ~row.sent /\ ~row.young

(* set_verify_code: storing the hash is the claim.                         *)
Claim(s) ==
  /\ sender[s].at = "picked"
  /\ IF Claimable(s)
     THEN /\ row' = [row EXCEPT !.code = s, !.arrived = FALSE, !.young = TRUE]
          /\ sender' = [sender EXCEPT ![s].at = "claimed"]
     ELSE Rest(s) /\ UNCHANGED row
  /\ UNCHANGED <<credited, bare, recent, charged>>

Answer(s, outcome) ==
  /\ sender[s].at = "claimed"
  /\ sender' = [sender EXCEPT ![s].at = outcome]

(* The batch's answer: delivered; refused while the platform showed it     *)
(* works; refused without that; or no answer, no credentials, a claim that *)
(* was taken, a row that retired or is gone.                               *)
Relay(s) ==
  /\ \/ sender[s].same /\ row.here = "live"
        /\ \E outcome \in Outcomes \ {"nothing"} :
             /\ Answer(s, outcome)
             /\ row' = IF outcome = "delivered" /\ row.code = s
                       THEN [row EXCEPT !.arrived = TRUE] ELSE row
     \/ Answer(s, "nothing") /\ UNCHANGED row
  /\ UNCHANGED <<credited, bare, recent, charged>>

(* The same, the token dead with evidence: the batch retires the row, and  *)
(* its subscriptions end.                                                  *)
RelayRetires(s) ==
  /\ sender[s].same /\ row.here = "live"
  /\ Answer(s, "confirmed")
  /\ \E held \in BOOLEAN : row' = [row EXCEPT !.here = "retired", !.held = @ /\ held]
  /\ UNCHANGED <<credited, bare, recent, charged>>

(* record_verify_attempts.                                                 *)
Attempted(s) ==
  LET k == sender[s].kind
      counts == sender[s].at \in {"delivered", "confirmed"}
  IN /\ credited' = IF counts THEN [credited EXCEPT ![k] = @ + 1] ELSE credited
     /\ bare' = IF sender[s].at = "bare" THEN bare + 1 ELSE bare
     /\ recent' = (recent \/ sender[s].at # "nothing")
     /\ charged' = IF sender[s].at = "confirmed" /\ k = "owner" /\ sender[s].same
                   THEN charged + 1 ELSE charged

(* record_verify_refusals.                                                 *)
RefusedConfirmed(r) ==
  [r EXCEPT !.failures = @ + 1, !.tries = Less(MaxRefusals, @ + 1), !.later = TRUE]

(* record_verify_refusals, and retire_unconfirmed for a row with nothing   *)
(* to lose.                                                                *)
RefusedBare(r) ==
  LET n == Less(MaxRefusals, r.tries + 1)
  IN [r EXCEPT !.tries = n, !.later = TRUE,
               !.here = IF ~r.held /\ n = MaxRefusals THEN "retired" ELSE @]

(* Mutant: the stamp is set whatever code the row holds by then.           *)
MarkedAnyway(s, r) == [r EXCEPT !.sent = TRUE, !.tries = 0]

(* mark_verification_sent: only while the row holds this code.             *)
Marked(s, r) == IF r.code = s THEN [r EXCEPT !.sent = TRUE, !.tries = 0] ELSE r

(* The transaction after the batch.                                        *)
Record(s) ==
  /\ sender[s].at \in Outcomes
  /\ Attempted(s)
  /\ Rest(s)
  /\ row' = IF ~sender[s].same THEN row
            ELSE CASE sender[s].at = "delivered" -> Marked(s, row)
                   [] sender[s].at = "confirmed" -> RefusedConfirmed(row)
                   [] sender[s].at = "bare"      -> RefusedBare(row)
                   [] OTHER                      -> [row EXCEPT !.later = TRUE]

(* The process dies: what the relay answered is on no record.              *)
Die(s) ==
  /\ sender[s].at # "idle"
  /\ Rest(s)
  /\ UNCHANGED <<row, credited, bare, recent, charged>>

-----------------------------------------------------------------------------
(* Time, and the operator.                                                 *)

MinutePasses ==
  /\ recent \/ row.young \/ row.later \/ row.grace
  /\ recent' = FALSE
  /\ row' = [row EXCEPT !.young = FALSE, !.later = FALSE, !.grace = FALSE]
  /\ UNCHANGED <<credited, bare, sender, charged>>

(* A request is a day old, and nobody sends for it any more.               *)
RequestLapses ==
  /\ row.asked
  /\ row' = [row EXCEPT !.asked = FALSE]
  /\ UNCHANGED <<credited, bare, recent, sender, charged>>

(* An attempt leaves the rolling day.                                      *)
AttemptAges ==
  /\ \/ /\ bare > 0 /\ bare' = bare - 1
        /\ UNCHANGED credited
     \/ /\ \E k \in Kinds : credited[k] > 0 /\ credited' = [credited EXCEPT ![k] = @ - 1]
        /\ UNCHANGED bare
  /\ UNCHANGED <<row, recent, sender, charged>>

(* The settings are corrected and the processes restarted: refusals made   *)
(* under the old ones are forgiven (config_fingerprint).                   *)
ConfigFixed ==
  /\ bare' = 0
  /\ sender' = [s \in Sender |-> Resting]
  /\ UNCHANGED <<row, credited, recent, charged>>

-----------------------------------------------------------------------------
Init ==
  /\ row = NewRow
  /\ credited = [k \in Kinds |-> 0] /\ bare = 0 /\ recent = FALSE
  /\ sender = [s \in Sender |-> Resting]
  /\ charged = 0

Ask == \/ RegisterKnown \/ DeleteAndRegister
       \/ \E held \in BOOLEAN : TokenChange(held)
       \/ \E k \in Kinds : Resend(k)

Send(s) == Pick(s) \/ Hold(s) \/ Claim(s) \/ Relay(s) \/ RelayRetires(s) \/ Record(s)

Next ==
  \/ Ask \/ Prove
  \/ \E s \in Sender : Send(s) \/ Die(s)
  \/ MinutePasses \/ RequestLapses \/ AttemptAges \/ ConfigFixed

Spec == Init /\ [][Next]_vars

-----------------------------------------------------------------------------
TypeOK ==
  /\ row \in Row
  /\ credited \in [Kinds -> Nat] /\ bare \in Nat /\ recent \in BOOLEAN
  /\ sender \in [Sender -> AtWork]
  /\ charged \in Nat

(* The record of a token never passes its daily budgets and its ceiling,   *)
(* whoever asks and however rows come and go, but for one attempt per      *)
(* further sender that read it before the last one was recorded.           *)
BudgetsHold ==
  /\ \A k \in Kinds : credited[k] <= Budget[k] + Overlap
  /\ credited["open"] + credited["owner"] + bare <= Ceiling + Overlap

(* However often strangers register the token while an owner's request     *)
(* waits for its push, refusals cost the owner's budget no more than the   *)
(* failures that request may have, and one per further sender at work.     *)
StrangersSpendTheirOwn == charged <= MaxFailures + Overlap

(* A row counts as sent for the code it holds only: a delivery recorded    *)
(* after a newer code was stored does not end the newer code's request.    *)
SentCodeArrived == row.sent /\ row.code # None => row.arrived
=============================================================================
