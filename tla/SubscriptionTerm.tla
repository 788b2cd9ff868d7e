-------------------------- MODULE SubscriptionTerm --------------------------
(***************************************************************************)
(* A subscription from sign-up to purge: its term, the still-looking       *)
(* check-in that asks shortly before the term ends, the renewal that       *)
(* starts a new one, and the daily housekeeping that asks, ends, deletes   *)
(* and purges (app/housekeeping.py, app/repo.py, app/web.py, app/api.py).  *)
(*                                                                         *)
(* Time is counted in days; housekeeping runs once in each, anywhere       *)
(* between the handlers of that day.  A check-in's idempotency key names   *)
(* the subscription and its expiry date, so claim[s] is the claim of the   *)
(* expiry date s has now, and a date that moves leaves the claim behind.   *)
(***************************************************************************)
EXTENDS Integers, FiniteSets

CONSTANTS Sub,        \* subscription ids, each given out once
          Term,       \* SUBSCRIPTION_TTL_DAYS
          Short,      \* SENSITIVE_SUBSCRIPTION_TTL_DAYS
          Window,     \* RENEWAL_REMINDER_DAYS_BEFORE
          Grace,      \* EXPIRED_GRACE_DAYS
          Purge,      \* days from deletion to purge
          MaxFaults   \* bound: crashes, failing steps, days without a run

ASSUME TermAssumption == /\ Term \in Nat /\ Short \in Nat /\ Window \in Nat
                         /\ Grace \in Nat /\ Purge \in Nat /\ MaxFaults \in Nat
                         /\ 0 < Window /\ Window < Short /\ Short <= Term

VARIABLES
  row,       \* "none", "pending" (unconfirmed), "confirmed", "deleted", "gone"
  app,       \* rows of an app's device, asked by push; the others by mail
  left,      \* days until expires_at; zero and below: expired
  age,       \* days since deleted_at
  special,   \* rows with consent_special_at: the short retention
  latched,   \* rows with reminder_sent_at
  unproven,  \* app subscriptions whose device is not verified
  claim,     \* sent_idempotency of the check-in: "none", "pending", "sent"
  request,   \* a renewal in flight: the retention it read, or "none"
  hk,        \* housekeeping: where today's run is
  due,       \* the open check-in batch: "no", "yes", or "moved" when the
             \* expiry date read for it is no longer the row's
  got,       \* of the batch: the questions to latch
  asked,     \* history: questions delivered in this term
  spared,    \* history: who could not be asked in today's run
  spare,     \* history: such days in this term's window
  stamped,   \* history: latched by the question of an earlier term
  outdated,  \* history: renewed since the last clamp on a retention that
             \* had changed
  faults,    \* bounded counter
  doubts     \* history: crashes between a delivery and its record

rows    == <<row, app, left, age, special>>
batch   == <<due, got>>
history == <<asked, spared, spare, stamped, outdated>>
counts  == <<faults, doubts>>
vars    == <<rows, latched, unproven, claim, request, hk, batch, history, counts>>

RowStates == {"none", "pending", "confirmed", "deleted", "gone"}
Steps     == {"waiting", "mail", "mailing", "push", "pushing", "ran"}
Stored    == {"pending", "confirmed"}

ttl_days_for(sensitive) == IF sensitive THEN Short ELSE Term
Least(a, b) == IF a < b THEN a ELSE b

-----------------------------------------------------------------------------
(* The website and the app.                                                *)

(* POST /subscribe (unconfirmed) and POST /subscriptions (live at once).   *)
SignUp(s, sensitive, push) ==
  /\ row[s] = "none"
  /\ row' = [row EXCEPT ![s] = IF push THEN "confirmed" ELSE "pending"]
  /\ app' = IF push THEN app \cup {s} ELSE app
  /\ left' = [left EXCEPT ![s] = ttl_days_for(sensitive)]
  /\ special' = IF sensitive THEN special \cup {s} ELSE special
  /\ UNCHANGED <<age, latched, unproven, claim, request, hk, batch, history, counts>>

(* GET /confirm, refused once the term is over.                            *)
Confirm(s) ==
  /\ row[s] = "pending" /\ left[s] > 0
  /\ row' = [row EXCEPT ![s] = "confirmed"]
  /\ UNCHANGED <<app, left, age, special, latched, unproven, claim, request, hk,
                 batch, history, counts>>

(* The expiry date of s becomes d days from now: a check-in of the old     *)
(* date keeps its claim, the new date has none.                            *)
MoveExpiry(s, d) ==
  /\ left' = [left EXCEPT ![s] = d]
  /\ claim' = [claim EXCEPT ![s] = IF d = left[s] THEN @ ELSE "none"]
  /\ due' = [due EXCEPT ![s] = IF d # left[s] /\ @ = "yes" THEN "moved" ELSE @]

(* GET /renew, POST /subscriptions/<id>/renew: the row is read first, the  *)
(* retention included; an expired one renews too.                          *)
ReadForRenew(s) ==
  /\ row[s] = "confirmed" /\ request[s] = "none"
  /\ request' = [request EXCEPT ![s] = IF s \in special THEN "short" ELSE "ordinary"]
  /\ UNCHANGED <<rows, latched, unproven, claim, hk, batch, history, counts>>

Asked(s, n) == asked' = [asked EXCEPT ![s] = n]

(* Mutant: a renewal does not clear the latch.                             *)
LatchKept(s) == latched

LatchCleared(s) == latched \ {s}

NewEnd(s) == ttl_days_for(request[s] = "short")

(* Their transaction: a new term from now, and the next term asks again.   *)
Renew(s) ==
  /\ request[s] # "none" /\ row[s] \in Stored
  /\ MoveExpiry(s, NewEnd(s))
  /\ latched' = LatchCleared(s) /\ stamped' = stamped \ {s}
  /\ Asked(s, 0) /\ spare' = [spare EXCEPT ![s] = 0]
  /\ spared' = spared \ {s}
  /\ outdated' = IF s \in special /\ request[s] = "ordinary"
                 THEN outdated \cup {s} ELSE outdated
  /\ request' = [request EXCEPT ![s] = "none"]
  /\ UNCHANGED <<row, app, age, special, unproven, hk, got, counts>>

(* Refused by the plan cap (PlanCap), or the row was deleted meanwhile.    *)
RenewNothing(s) ==
  /\ request[s] # "none"
  /\ request' = [request EXCEPT ![s] = "none"]
  /\ UNCHANGED <<rows, latched, unproven, claim, hk, batch, history, counts>>

(* POST /manage, PUT /subscriptions/<id>: a sensitive service pulls the    *)
(* expiry in to the short retention, an ordinary one never pushes it out.  *)
Edit(s, sensitive) ==
  /\ row[s] = "confirmed" /\ sensitive # (s \in special)
  /\ special' = IF sensitive THEN special \cup {s} ELSE special \ {s}
  /\ MoveExpiry(s, IF sensitive THEN Least(left[s], Short) ELSE left[s])
  /\ UNCHANGED <<row, app, age, latched, unproven, request, hk, got, history, counts>>

(* A click on "unsubscribe", a complaint, DELETE /subscriptions/<id>; a    *)
(* second one stamps deleted_at again.                                     *)
Unsubscribe(s) ==
  /\ row[s] \in Stored \cup {"deleted"}
  /\ row' = [row EXCEPT ![s] = "deleted"]
  /\ age' = [age EXCEPT ![s] = 0]
  /\ UNCHANGED <<app, left, special, latched, unproven, claim, request, hk, batch,
                 history, counts>>

(* A device's token changes, and is verified again.                        *)
ProofTurns(s) ==
  /\ s \in app
  /\ unproven' = IF s \in unproven THEN unproven \ {s} ELSE unproven \cup {s}
  /\ UNCHANGED <<rows, latched, claim, request, hk, batch, history, counts>>

-----------------------------------------------------------------------------
(* Housekeeping.                                                           *)

(* Mutant: every row is clamped to the ordinary term.                      *)
ClampedToTheTerm(s) == Least(left[s], Term)

(* _clamp_expiry: the configured term of its kind is a row's ceiling.      *)
Clamped(s) == Least(left[s], ttl_days_for(s \in special))

(* Mutant: the expired are never deleted.                                  *)
AfterTheGraceNever(s) == FALSE

(* _soft_delete_expired, confirmed or not.                                 *)
AfterTheGrace(s) == row[s] \in Stored /\ left[s] < -Grace

(* The first steps of a run: _purge_hard, _clamp_expiry and                *)
(* _soft_delete_expired, in this order.                                    *)
Clean ==
  LET purged == {s \in Sub : row[s] = "deleted" /\ age[s] > Purge}
      over   == {s \in Sub : AfterTheGrace(s)}
      pulled == {s \in Sub : row[s] \in Stored /\ Clamped(s) # left[s]}
  IN /\ hk = "waiting"
     /\ hk' = "mail"
     /\ row' = [s \in Sub |-> IF s \in purged THEN "gone"
                              ELSE IF s \in over THEN "deleted" ELSE row[s]]
     /\ age' = [s \in Sub |-> IF s \in over THEN 0 ELSE age[s]]
     /\ left' = [s \in Sub |-> IF s \in pulled THEN Clamped(s) ELSE left[s]]
     /\ claim' = [s \in Sub |-> IF s \in pulled THEN "none" ELSE claim[s]]
     /\ outdated' = {}
     /\ UNCHANGED <<app, special, latched, unproven, request, batch, asked, spared,
                    spare, stamped, counts>>

InWindow(s) == 0 < left[s] /\ left[s] <= Window

(* The rows a check-in step finds.                                         *)
Found(S) == {s \in S \ (latched \cup unproven) : row[s] = "confirmed" /\ InWindow(s)}

(* Mutant: the batch does not look at what was sent before.                *)
ClaimableAnyway(found) == found

(* mail._claim: a key already sent is skipped; a pending one is skipped or,*)
(* when stale, taken over (see OpenBatch).                                 *)
Claimable(found) == {s \in found : claim[s] # "sent"}

(* A check-in step reads the due rows and claims their keys.  A mail that  *)
(* an earlier run sent and did not latch is latched now (_went_out).       *)
OpenBatch(S, from, to) ==
  LET found == Found(S)
      sent  == {s \in found \ app : claim[s] = "sent"}
      live  == {s \in Claimable(found) : claim[s] = "pending"}
  IN \E believed \in SUBSET live :
       LET mine == Claimable(found) \ believed
       IN /\ hk = from /\ hk' = to
          /\ claim' = [s \in Sub |-> IF s \in mine THEN "pending" ELSE claim[s]]
          /\ due' = [s \in Sub |-> IF s \in mine THEN "yes" ELSE "no"]
          /\ got' = sent
          /\ spared' = spared \cup believed
                         \cup {s \in S : row[s] = "pending" \/ s \in unproven}
          /\ UNCHANGED <<rows, latched, unproven, request, asked, spare, stamped,
                         outdated, counts>>

OpenMail == OpenBatch(Sub \ app, "mail", "mailing")
OpenPush == OpenBatch(app, "push", "pushing")

Judged(s) == due' = [due EXCEPT ![s] = "no"]

(* The batch delivers a question: of this term, or, when the term was      *)
(* renewed since the rows were read, of the one before.                    *)
Deliver(s) ==
  /\ due[s] # "no"
  /\ Judged(s) /\ got' = got \cup {s}
  /\ claim' = [claim EXCEPT ![s] = IF due[s] = "yes" THEN "sent" ELSE @]
  /\ Asked(s, IF due[s] = "yes" THEN asked[s] + 1 ELSE asked[s])
  /\ UNCHANGED <<rows, latched, unproven, request, hk, spared, spare, stamped, outdated,
                 counts>>

(* Deferred, refused, throttled or undeliverable: the claim is released.   *)
Decline(s) ==
  /\ due[s] # "no"
  /\ Judged(s)
  /\ claim' = [claim EXCEPT ![s] = IF due[s] = "yes" THEN "none" ELSE @]
  /\ spared' = IF due[s] = "yes" THEN spared \cup {s} ELSE spared
  /\ UNCHANGED <<rows, latched, unproven, request, hk, got, asked, spare, stamped,
                 outdated, counts>>

EndBatch(from, to) ==
  /\ hk = from /\ hk' = to
  /\ due' = [s \in Sub |-> "no"] /\ got' = {}

(* The one transaction after the batch, by id, whatever the row is now.    *)
Latched == {s \in got : row[s] # "gone"}

CloseBatch(from, to) ==
  /\ \A s \in Sub : due[s] = "no"
  /\ EndBatch(from, to)
  /\ latched' = latched \cup Latched
  /\ stamped' = stamped \cup {s \in Latched : asked[s] = 0}
  /\ UNCHANGED <<rows, unproven, claim, request, asked, spared, spare, outdated, counts>>

CloseMail == CloseBatch("mailing", "push")
ClosePush == CloseBatch("pushing", "ran")

Fault(n) == faults < MaxFaults /\ faults' = faults + 1 /\ doubts' = doubts + n

(* Of the batch, those of this term that have no answer yet.               *)
Unanswered == {s \in Sub : due[s] = "yes"}

(* A check-in step raises, before or after some of its batch went out: no  *)
(* latch, claims left as they are, and the run goes on with the next step. *)
StepRaises(from, to) ==
  /\ Fault(0)
  /\ EndBatch(from, to)
  /\ spared' = spared \cup Unanswered
  /\ UNCHANGED <<rows, latched, unproven, claim, request, asked, spare, stamped, outdated>>

(* The poller dies in a run and is started again: the run was not stamped  *)
(* and starts over.  The mail or push on its way may have been accepted.   *)
Crash ==
  /\ hk \notin {"waiting", "ran"}
  /\ due' = [s \in Sub |-> "no"] /\ got' = {} /\ hk' = "waiting"
  /\ \/ Fault(0) /\ UNCHANGED asked
     \/ \E s \in Unanswered : Fault(1) /\ Asked(s, asked[s] + 1)
  /\ UNCHANGED <<rows, latched, unproven, claim, request, spared, spare, stamped, outdated>>

(* A day passes; without a run of its own only when the poller was down.   *)
NextDay ==
  LET down == hk # "ran"
      idle == {s \in Sub : row[s] \in Stored /\ InWindow(s) /\ (down \/ s \in spared)}
  IN /\ hk \in {"ran", "waiting"}
     /\ IF down THEN Fault(0) ELSE UNCHANGED counts
     /\ hk' = "waiting"
     /\ left' = [s \in Sub |-> IF row[s] \in Stored THEN left[s] - 1 ELSE left[s]]
     /\ age' = [s \in Sub |-> IF row[s] = "deleted" THEN age[s] + 1 ELSE age[s]]
     /\ spare' = [s \in Sub |-> IF s \in idle THEN spare[s] + 1 ELSE spare[s]]
     /\ spared' = {}
     /\ UNCHANGED <<row, app, special, latched, unproven, claim, request, batch,
                    asked, stamped, outdated>>

-----------------------------------------------------------------------------
Init ==
  /\ row = [s \in Sub |-> "none"] /\ app = {}
  /\ left = [s \in Sub |-> 0] /\ age = [s \in Sub |-> 0]
  /\ special = {} /\ latched = {} /\ unproven = {}
  /\ claim = [s \in Sub |-> "none"]
  /\ request = [s \in Sub |-> "none"]
  /\ hk = "waiting"
  /\ due = [s \in Sub |-> "no"] /\ got = {}
  /\ asked = [s \in Sub |-> 0] /\ spare = [s \in Sub |-> 0]
  /\ spared = {} /\ stamped = {} /\ outdated = {}
  /\ faults = 0 /\ doubts = 0

Handlers ==
  \E s \in Sub :
    \/ \E b, push \in BOOLEAN : SignUp(s, b, push)
    \/ \E b \in BOOLEAN : Edit(s, b)
    \/ Confirm(s) \/ ReadForRenew(s) \/ Renew(s) \/ RenewNothing(s)
    \/ Unsubscribe(s) \/ ProofTurns(s)

Housekeeping ==
  \/ Clean
  \/ OpenMail \/ CloseMail \/ StepRaises("mailing", "push")
  \/ OpenPush \/ ClosePush \/ StepRaises("pushing", "ran")
  \/ \E s \in Sub : Deliver(s) \/ Decline(s)

Next == Handlers \/ Housekeeping \/ Crash \/ NextDay

Spec == Init /\ [][Next]_vars

-----------------------------------------------------------------------------
TypeOK ==
  /\ row \in [Sub -> RowStates]
  /\ left \in [Sub -> Int] /\ \A s \in Sub : left[s] <= Term
  /\ age \in [Sub -> Nat]
  /\ special \subseteq Sub /\ latched \subseteq Sub /\ unproven \subseteq Sub /\ app \subseteq Sub
  /\ claim \in [Sub -> {"none", "pending", "sent"}]
  /\ request \in [Sub -> {"none", "short", "ordinary"}]
  /\ hk \in Steps
  /\ due \in [Sub -> {"no", "yes", "moved"}] /\ got \subseteq Sub
  /\ asked \in [Sub -> Nat] /\ spare \in [Sub -> Nat]
  /\ spared \subseteq Sub /\ stamped \subseteq Sub /\ outdated \subseteq Sub
  /\ faults \in Nat /\ doubts \in Nat

Paused(s) == row[s] = "confirmed" /\ left[s] <= 0

(* "Every term asks exactly once" (_send_renewal_reminders), the first     *)
(* half: nobody's term ends unasked, unless on every day of its window     *)
(* there was no run or the question could not go out, or the latch was     *)
(* stamped for an earlier term's question.                                 *)
NoSilentEnd ==
  \A s \in Sub : Paused(s) => asked[s] > 0 \/ spare[s] >= Window \/ s \in stamped

(* The second half: a term asks once, and twice only when the poller died  *)
(* between a delivery and its record.                                      *)
AskedOnce == \A s \in Sub : asked[s] <= 1 + doubts

(* As _send_renewal_reminders has it, without the last exception.          *)
EveryTermAsks ==
  \A s \in Sub : Paused(s) => asked[s] > 0 \/ spare[s] >= Window

(* A special-category row is never kept past the short retention, but for  *)
(* one day when a renewal read the row before an edit made it special.     *)
SensitiveTermKept ==
  \A s \in special :
    row[s] \in Stored /\ left[s] > Short => s \in outdated

(* No row outlives its term by more than the grace, or its last deletion   *)
(* by more than the purge, but for a day on the way to the next run and    *)
(* the days without one.                                                   *)
RetentionKept ==
  \A s \in Sub : /\ row[s] \in Stored => -left[s] <= Grace + 1 + faults
                 /\ row[s] = "deleted" => age[s] <= Purge + 1 + faults
=============================================================================
