---------------------------- MODULE Confirmations ----------------------------
(***************************************************************************)
(* A website sign-up on its way to its confirmation: the queue the poller  *)
(* drains once a cycle within its share of the mail pool                   *)
(* (app/confirmations.py), the providers' webhooks that retire an address  *)
(* (app/webhooks.py, app/repo.py), and the new sign-up that revives it     *)
(* (app/web.py).                                                           *)
(*                                                                         *)
(* Row ids are given out in order, and the queue is drained in that order. *)
(* The mail batch appears as what it promises (MailPromise); the pool is   *)
(* its rolling day.  Of the dead addresses those that webhooks retired are *)
(* modelled; the strikes of the batch are in MailBatch.                    *)
(***************************************************************************)
EXTENDS Naturals, FiniteSets

CONSTANTS Sub,       \* row ids
          Address,   \* addresses
          To,        \* the address of a row
          DayQuota,  \* the providers' daily caps, summed
          Line,      \* MAIL_POOL_PRESSURE_PCT of it
          Reserve,   \* CONFIRMATION_RESERVE_PER_DAY
          Headroom,  \* CONFIRMATION_HEADROOM
          Threshold, \* SOFT_BOUNCE_SUPPRESS_THRESHOLD
          MaxFaults, \* bound: crashes and raising writes
          MaxOther   \* bound: single mails of the web workers

ASSUME RowAssumption == Sub \subseteq Nat /\ IsFiniteSet(Sub) /\ To \in [Sub -> Address]
ASSUME PoolAssumption ==
  /\ DayQuota \in Nat /\ Line \in Nat /\ Reserve \in Nat /\ Headroom \in Nat
  /\ Threshold \in Nat \ {0} /\ MaxFaults \in Nat /\ MaxOther \in Nat

VARIABLES
  row,       \* "none", "pending", "confirmed", "deleted", "purged"
  young,     \* pending rows inside the retry window of seven days
  marked,    \* rows with confirmation_sent_at
  claim,     \* sent_idempotency of "confirm-<id>": "none", "pending",
             \* "stale", "sent"
  counted,   \* confirmations sent in the rolling day
  beside,    \* other mails in it
  reason,    \* email_suppressions.reason of an address, or "none"
  soft,      \* email_suppressions.soft_bounces, counted up to Threshold
  allowed,   \* sign-up requests past their complaint check
  pc,        \* the poller: "idle", "picked", "sending", "marking"
  picked,    \* rows of the open batch without a verdict
  delivered, \* rows of the batch that went out, still to be marked
  complained,  \* history: addresses that complained, for the retention
  mails,     \* history: confirmations a row's owner was sent
  doubts,    \* history: those of them that were never recorded
  past,      \* history: of counted, those sent past the pressure line
  faults, others  \* bounded counters

table   == <<row, young, marked>>
pool    == <<counted, beside>>
block   == <<reason, soft>>
batch   == <<pc, picked, delivered>>
ghosts  == <<complained, mails, doubts, past, faults, others>>
vars    == <<table, claim, pool, block, allowed, batch, ghosts>>

Less(a, b) == IF b < a THEN a - b ELSE 0
Smaller(a, b) == IF a < b THEN a ELSE b
Larger(a, b) == IF a < b THEN b ELSE a

Of(a) == {s \in Sub : To[s] = a}
Ended(S) ==
  /\ row' = [s \in Sub |-> IF s \in S /\ row[s] \in {"pending", "confirmed"}
                           THEN "deleted" ELSE row[s]]
  /\ young' = young \ S /\ UNCHANGED marked

-----------------------------------------------------------------------------
(* The website.                                                            *)

(* POST /subscribe reads the suppression reason long before its insert.    *)
Asks(a) ==
  /\ reason[a] # "complaint"
  /\ allowed' = allowed \cup {a}
  /\ UNCHANGED <<table, claim, pool, block, batch, ghosts>>

(* The plan cap, a rate limit or the form turns the request away.          *)
TurnedAway(a) ==
  /\ a \in allowed /\ allowed' = allowed \ {a}
  /\ UNCHANGED <<table, claim, pool, block, batch, ghosts>>

(* clear_delivery_block: a bounce is forgotten, a complaint is not.        *)
Lifted(a) ==
  IF reason[a] = "complaint" THEN UNCHANGED block
  ELSE /\ reason' = [reason EXCEPT ![a] = "none"]
       /\ soft' = [soft EXCEPT ![a] = 0]

(* Its transaction: the row, and with it the end of a bounce.              *)
SignUp(s) ==
  /\ row[s] = "none" /\ \A t \in Sub : t < s => row[t] # "none"
  /\ To[s] \in allowed /\ allowed' = allowed \ {To[s]}
  /\ row' = [row EXCEPT ![s] = "pending"] /\ young' = young \cup {s}
  /\ Lifted(To[s])
  /\ UNCHANGED <<marked, claim, pool, batch, ghosts>>

(* GET /confirm, by the link in the mail.  (One that read the row before   *)
(* it was deleted stamps a deleted row.)                                   *)
Confirm(s) ==
  /\ row[s] = "pending" /\ mails[s] > 0
  /\ row' = [row EXCEPT ![s] = "confirmed"] /\ young' = young \ {s}
  /\ UNCHANGED <<marked, claim, pool, block, allowed, batch, ghosts>>

(* An unsubscription, or the end of a term and its grace.                  *)
Leaves(s) ==
  /\ row[s] \in {"pending", "confirmed"} /\ s \notin young
  /\ Ended({s})
  /\ UNCHANGED <<claim, pool, block, allowed, batch, ghosts>>

-----------------------------------------------------------------------------
(* Webhooks: apply_events, event by event.                                 *)

(* suppress_address: the first reason wins.                                *)
Suppressed(a, verdict) ==
  reason' = [reason EXCEPT ![a] = IF @ = "none" THEN verdict ELSE @]

(* Mutant: the address is suppressed, its subscriptions live on.           *)
BlockedAlive(a, verdict) ==
  /\ Suppressed(a, verdict)
  /\ complained' = IF verdict = "complaint" THEN complained \cup {a} ELSE complained
  /\ UNCHANGED <<table, claim, pool, soft, allowed, batch, mails, doubts, past, faults,
                 others>>

(* A hard bounce or a complaint.                                           *)
Blocked(a, verdict) ==
  /\ Suppressed(a, verdict) /\ Ended(Of(a))
  /\ complained' = IF verdict = "complaint" THEN complained \cup {a} ELSE complained
  /\ UNCHANGED <<claim, pool, soft, allowed, batch, mails, doubts, past, faults, others>>

SoftBounce(a) ==
  /\ soft' = [soft EXCEPT ![a] = Smaller(Threshold, @ + 1)]
  /\ IF reason[a] = "none" /\ soft'[a] >= Threshold
     THEN Suppressed(a, "bounce") /\ Ended(Of(a))
     ELSE UNCHANGED <<reason, table>>
  /\ UNCHANGED <<claim, pool, allowed, batch, ghosts>>

(* clear_soft_bounces lifts no suppression.                                *)
Delivered(a) ==
  /\ reason[a] = "none" /\ soft' = [soft EXCEPT ![a] = 0]
  /\ UNCHANGED <<table, claim, pool, reason, allowed, batch, ghosts>>

(* The provider's own unsubscribe path blocks nothing.                     *)
UnsubscribedThere(a) ==
  /\ Ended(Of(a))
  /\ UNCHANGED <<claim, pool, block, allowed, batch, ghosts>>

-----------------------------------------------------------------------------
(* The clock and housekeeping.                                             *)

GrowsOld(s) ==
  /\ s \in young /\ young' = young \ {s}
  /\ UNCHANGED <<row, marked, claim, pool, block, allowed, batch, ghosts>>

GoesStale(s) ==
  /\ claim[s] = "pending" /\ (pc = "sending" => s \notin picked)
  /\ claim' = [claim EXCEPT ![s] = "stale"]
  /\ UNCHANGED <<table, pool, block, allowed, batch, ghosts>>

AgesOut(s) ==
  /\ s \in counted \ delivered
  /\ counted' = counted \ {s} /\ past' = past \ {s}
  /\ UNCHANGED <<table, claim, beside, block, allowed, batch, complained, mails, doubts,
                 faults, others>>

BesideAgesOut ==
  /\ beside > 0 /\ beside' = beside - 1
  /\ UNCHANGED <<table, claim, counted, block, allowed, batch, ghosts>>

(* _purge_hard, thirty days after the deletion.                            *)
Purge(s) ==
  /\ pc = "idle" /\ row[s] = "deleted"
  /\ row' = [row EXCEPT ![s] = "purged"]
  /\ UNCHANGED <<young, marked, claim, pool, block, allowed, batch, ghosts>>

(* _prune_idempotency: a claim outlives the retry window of its row.       *)
PruneClaim(s) ==
  /\ pc = "idle" /\ s \notin young /\ claim[s] # "none"
  /\ claim' = [claim EXCEPT ![s] = "none"]
  /\ UNCHANGED <<table, pool, block, allowed, batch, ghosts>>

Forgotten(a) ==
  /\ reason' = [reason EXCEPT ![a] = "none"]
  /\ soft' = [soft EXCEPT ![a] = 0]

(* _prune_suppressions: a bounce goes with the address's last row.         *)
PruneBounce(a) ==
  /\ pc = "idle" /\ reason[a] # "complaint"
  /\ \A s \in Of(a) : row[s] \in {"none", "purged"}
  /\ Forgotten(a)
  /\ UNCHANGED <<table, claim, pool, allowed, batch, ghosts>>

(* And a complaint with COMPLAINT_RETENTION_DAYS.                          *)
ComplaintLapses(a) ==
  /\ pc = "idle" /\ a \in complained
  /\ complained' = complained \ {a}
  /\ IF reason[a] = "complaint" THEN Forgotten(a) ELSE UNCHANGED block
  /\ UNCHANGED <<table, claim, pool, allowed, batch, mails, doubts, past, faults, others>>

-----------------------------------------------------------------------------
(* The pool and the batch.                                                 *)

usedDay    == Cardinality(counted) + beside
daily_room == Less(DayQuota, usedDay)

(* Digests, earlier in the cycle, stop before the headroom (see            *)
(* DigestDelivery).                                                        *)
Digest ==
  /\ pc = "idle" /\ usedDay + Headroom < DayQuota
  /\ beside' = beside + 1
  /\ UNCHANGED <<table, claim, counted, block, allowed, batch, ghosts>>

(* A management link, from a web worker that looks at no window.           *)
OtherMail ==
  /\ others < MaxOther /\ others' = others + 1
  /\ beside' = beside + 1
  /\ UNCHANGED <<table, claim, counted, block, allowed, batch, complained, mails, doubts,
                 past, faults>>

(* Mutant: the reserve is not used up by what was sent of it.              *)
RoomWithoutTheSent == Smaller(daily_room, Larger(Less(Line, usedDay), Reserve))

(* Mutant: past the line nothing is reserved.                              *)
RoomWithoutReserve == Smaller(daily_room, Less(Line, usedDay))

confirmation_room ==
  Smaller(daily_room, Larger(Less(Line, usedDay),
                             Less(Reserve, Cardinality(counted \cap marked))))

(* pending_confirmations, less the dead addresses.                         *)
Queue == {s \in young \ marked : row[s] = "pending" /\ reason[To[s]] = "none"}

Ahead(s, Q) == {t \in Q : t < s}

(* send_pending_confirmations reads the queue and takes its head.          *)
Pick ==
  /\ pc = "idle"
  /\ picked' = {s \in Queue : Cardinality(Ahead(s, Queue)) < confirmation_room}
  /\ picked' # {}
  /\ pc' = "picked"
  /\ UNCHANGED <<table, claim, pool, block, allowed, delivered, ghosts>>

(* Mutant: a key that was sent can be claimed again.                       *)
ClaimableAnyway(s) == claim[s] # "pending"

Claimable(s) == claim[s] \in {"none", "stale"}

(* send_batch drops dead addresses and claims the rest.                    *)
Claim ==
  LET mine == {s \in picked : reason[To[s]] = "none" /\ Claimable(s)}
  IN /\ pc = "picked" /\ pc' = "sending"
     /\ picked' = mine
     /\ claim' = [s \in Sub |-> IF s \in mine THEN "pending" ELSE claim[s]]
     /\ UNCHANGED <<table, pool, block, allowed, delivered, ghosts>>

Accept(s) ==
  /\ pc = "sending" /\ s \in picked
  /\ picked' = picked \ {s} /\ delivered' = delivered \cup {s}
  /\ claim' = [claim EXCEPT ![s] = "sent"]
  /\ counted' = counted \cup {s}
  /\ past' = IF usedDay >= Line THEN past \cup {s} ELSE past
  /\ mails' = [mails EXCEPT ![s] = @ + 1]
  /\ UNCHANGED <<table, beside, block, allowed, pc, complained, doubts, faults, others>>

(* Refused by every provider, or deferred.                                 *)
Decline(s) ==
  /\ pc = "sending" /\ s \in picked
  /\ picked' = picked \ {s}
  /\ claim' = [claim EXCEPT ![s] = "none"]
  /\ UNCHANGED <<table, pool, block, allowed, pc, delivered, ghosts>>

BatchReturns ==
  /\ pc = "sending" /\ picked = {} /\ pc' = "marking"
  /\ UNCHANGED <<table, claim, pool, block, allowed, picked, delivered, ghosts>>

(* set_confirmation_sent, row by row.                                      *)
Mark(s) ==
  /\ pc = "marking" /\ s \in delivered
  /\ delivered' = delivered \ {s}
  /\ marked' = marked \cup {s}
  /\ UNCHANGED <<row, young, claim, pool, block, allowed, pc, picked, ghosts>>

CycleEnds ==
  /\ pc = "marking" /\ delivered = {} /\ pc' = "idle"
  /\ UNCHANGED <<table, claim, pool, block, allowed, picked, delivered, ghosts>>

(* A write raises, or the process dies; the last mail may have been taken. *)
Dies ==
  /\ pc # "idle" /\ faults < MaxFaults /\ faults' = faults + 1
  /\ pc' = "idle" /\ picked' = {} /\ delivered' = {}
  /\ \/ UNCHANGED <<mails, doubts>>
     \/ \E s \in picked : /\ pc = "sending"
                          /\ mails' = [mails EXCEPT ![s] = @ + 1]
                          /\ doubts' = [doubts EXCEPT ![s] = @ + 1]
  /\ UNCHANGED <<table, claim, pool, block, allowed, complained, past, others>>

-----------------------------------------------------------------------------
Init ==
  /\ row = [s \in Sub |-> "none"] /\ young = {} /\ marked = {}
  /\ claim = [s \in Sub |-> "none"]
  /\ counted = {} /\ beside = 0
  /\ reason = [a \in Address |-> "none"] /\ soft = [a \in Address |-> 0]
  /\ allowed = {} /\ pc = "idle" /\ picked = {} /\ delivered = {}
  /\ complained = {} /\ past = {}
  /\ mails = [s \in Sub |-> 0] /\ doubts = [s \in Sub |-> 0]
  /\ faults = 0 /\ others = 0

Website == \/ \E a \in Address : Asks(a) \/ TurnedAway(a)
           \/ \E s \in Sub : SignUp(s) \/ Confirm(s) \/ Leaves(s)

Webhooks ==
  \E a \in Address :
    \/ \E verdict \in {"bounce", "complaint"} : Blocked(a, verdict)
    \/ SoftBounce(a) \/ Delivered(a) \/ UnsubscribedThere(a)

Clock ==
  \/ \E s \in Sub : GrowsOld(s) \/ GoesStale(s) \/ AgesOut(s) \/ Purge(s) \/ PruneClaim(s)
  \/ \E a \in Address : PruneBounce(a) \/ ComplaintLapses(a)
  \/ BesideAgesOut

Cycle ==
  \/ Pick \/ Claim \/ BatchReturns \/ CycleEnds
  \/ \E s \in Sub : Accept(s) \/ Decline(s) \/ Mark(s)

Next == Website \/ Webhooks \/ Clock \/ Digest \/ OtherMail \/ Cycle \/ Dies

Spec == Init /\ [][Next]_vars

(* The poller's loop and the clock run on; a provider that is asked again  *)
(* and again takes a confirmation in the end.                              *)
Fairness ==
  /\ WF_vars(Pick \/ Claim \/ BatchReturns \/ CycleEnds \/ \E s \in Sub : Mark(s))
  /\ WF_vars(BesideAgesOut) /\ WF_vars(\E s \in Sub : AgesOut(s))
  /\ \A s \in Sub : SF_vars(Accept(s)) /\ WF_vars(GoesStale(s))

FairSpec == Spec /\ Fairness

-----------------------------------------------------------------------------
TypeOK ==
  /\ row \in [Sub -> {"none", "pending", "confirmed", "deleted", "purged"}]
  /\ young \subseteq Sub /\ marked \subseteq Sub
  /\ claim \in [Sub -> {"none", "pending", "stale", "sent"}]
  /\ counted \subseteq Sub /\ beside \in Nat
  /\ reason \in [Address -> {"none", "bounce", "complaint"}]
  /\ soft \in [Address -> 0 .. Threshold] /\ allowed \subseteq Address
  /\ pc \in {"idle", "picked", "sending", "marking"}
  /\ picked \subseteq Sub /\ delivered \subseteq Sub
  /\ pc \in {"idle", "marking"} => picked = {}
  /\ pc = "idle" => delivered = {}
  /\ complained \subseteq Address /\ past \subseteq counted
  /\ mails \in [Sub -> Nat] /\ doubts \in [Sub -> Nat]
  /\ faults \in Nat /\ others \in Nat

(* A sign-up is mailed once in its life, and again only for an acceptance  *)
(* that was never recorded: the stable key makes up for a mark that a      *)
(* crash lost, and outlives the row's retry window.                        *)
OneConfirmation == \A s \in Sub : mails[s] <= 1 + doubts[s]

(* Nobody who confirmed is at an address we stopped mailing: a verdict     *)
(* ends its subscriptions, and a sign-up that raced it is never mailed its *)
(* link.                                                                   *)
LiveIsMailable ==
  \A s \in Sub : row[s] = "confirmed" => reason[To[s]] = "none"

(* "The reserve is the flood bound" (confirmation_room): past the pressure *)
(* line a day's confirmations stay within it, but for marks a crash lost   *)
(* and other mail that overtook a batch.                                   *)
FloodBound == Cardinality(past \cap (marked \cup delivered)) <= Reserve + others

(* Sent, unmarked, and still in the queue: a mark a crash lost.            *)
Stuck == {s \in Queue : claim[s] = "sent"}

(* No sign-up waits for ever, although digests fill the pool up to their   *)
(* headroom again and again: it leaves the queue, unless a lost mark holds *)
(* a place before it.                                                      *)
HeldGoesOut == \A s \in Sub : <>[](s \in Queue) => <>[](Stuck # {})

(* "Deliberately refuses to lift a complaint" (clear_delivery_block): it   *)
(* blocks the address for its retention.                                   *)
ComplaintStands == \A a \in complained : reason[a] # "none"
=============================================================================
