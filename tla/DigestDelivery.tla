--------------------------- MODULE DigestDelivery ---------------------------
(***************************************************************************)
(* The poll cycle from the snapshot of the active subscriptions to the     *)
(* recorded digest: app/cycle.py (run_cycle) and app/digest.py             *)
(* (send_digest, flush_digests and the two queue rules).                   *)
(*                                                                         *)
(* One cycle stages a digest for every subscriber who has something new,   *)
(* lets the mail batch and the push batch run side by side, waits for      *)
(* both, and only then writes, one transaction per subscriber, that the    *)
(* slots were told.  Everything between is in the poller's memory, so a    *)
(* restart forgets it; the next cycle stages under a fresh cycle id.       *)
(*                                                                         *)
(* The batches appear here as what they promise (an item is accepted,      *)
(* refused, or left for the next cycle); MailBatch models the mail batch.  *)
(* A slot stands for a seen_slots key, and every subscriber's filter       *)
(* matches every slot: the order of service does not depend on the filter. *)
(***************************************************************************)
EXTENDS Naturals, FiniteSets

CONSTANTS MailSub,     \* mail subscriptions
          AppSub,      \* app subscriptions, served by push
          Slot,        \* seen_slots keys
          Id,          \* subscription ids: they order equal timestamps
          HourQuota,   \* mails the providers take per rolling hour
          DayQuota,    \* mails the providers take per rolling day
          Headroom,    \* CONFIRMATION_HEADROOM
          Fickle,      \* bound: who unsubscribes, pauses, erases or goes dead
          MaxFaults,   \* bound: crashes and failing batches
          MaxOther     \* bound: mails sent beside the digests

Sub == MailSub \cup AppSub

ASSUME SubAssumption == MailSub \cap AppSub = {} /\ IsFiniteSet(Sub)
ASSUME IdAssumption  == /\ Id \in [Sub -> Nat]
                        /\ \A a, b \in Sub : Id[a] = Id[b] => a = b
ASSUME QuotaAssumption ==
  /\ HourQuota \in Nat /\ DayQuota \in Nat /\ Headroom \in Nat
  /\ MaxFaults \in Nat /\ MaxOther \in Nat

VARIABLES
  avail,     \* slots the city's site shows
  status,    \* a subscription's row: "live", "off" (ended or paused), "erased"
  dead,      \* mail subscribers whose address is in mail._dead_addresses
  usedHour, usedDay,  \* mails in the providers' rolling windows
  seen,      \* seen_slots: <<subscriber, slot>> recorded as told
  older,     \* <<a, b>>: a's last_notified_at is before b's
  resting,   \* subscribers inside their rate gap or at their daily cap
  pc,        \* the poller's position in the cycle
  snap,      \* active_subscriptions, read when the cycle starts
  news,      \* the slots each staged digest carries
  mailQ, pushQ,       \* digests each batch has not judged yet
  mailSt, pushSt,     \* the batches: "open", "done", "raised"
  room,      \* mails the batch may still send
  sent,      \* digests a provider or relay accepted in this flush
  delivered, \* digests of this flush still to be recorded
  recorded,  \* digests of this flush already recorded
  passed,    \* of this flush: the digests left behind for mail quota,
  hourly,    \* whether the hourly window is its quota wall,
  refused,   \* whether a provider refused a recipient
  told,      \* history: times told of a slot, since its record was pruned
  lost,      \* history: accepted digests whose record was lost
  faults, others      \* bounded counters: faults, mails beside the digests

db      == <<seen, older, resting>>
window  == <<usedHour, usedDay>>
world   == <<avail, status, dead>>
plan    == <<snap, news>>
mail    == <<mailQ, mailSt, room>>
push    == <<pushQ, pushSt>>
outcome == <<sent, delivered, recorded>>
wall    == <<passed, hourly, refused>>
memory  == <<plan, mail, push, outcome, wall>>
ghosts  == <<told, lost, faults, others>>
vars    == <<pc, db, window, world, memory, ghosts>>

Statuses == {"live", "off", "erased"}
Places   == {"idle", "polling", "sending", "recording"}

-----------------------------------------------------------------------------
(* The queue: longest-waiting first, equal timestamps in id order.         *)

Before(a, b) ==
  \/ <<a, b>> \in older
  \/ <<b, a>> \notin older /\ Id[a] < Id[b]

Ahead(s, Q) == {t \in Q : t # s /\ Before(t, s)}
IsFirst(s, Q) == s \in Q /\ Ahead(s, Q) = {}

Less(a, b) == IF b < a THEN a - b ELSE 0
Smaller(a, b) == IF a < b THEN a ELSE b

daily_room == Less(DayQuota, usedDay)

(* Mutant: what the windows already hold is not counted.                   *)
pool_roomFresh == Smaller(HourQuota, DayQuota)

pool_room == Smaller(Less(HourQuota, usedHour), daily_room)

(* Mutant: push does not wait for mail.                                    *)
BehindNoWall(staged) == {}

(* The push digests that wait behind the first mail the hourly window      *)
(* turns away.                                                             *)
BehindTheMailWall(staged) ==
  LET live == (staged \cap MailSub) \ dead
  IN IF staged \cap MailSub = {} \/ daily_room <= pool_room THEN {}
     ELSE {p \in staged \cap AppSub : Cardinality(Ahead(p, live)) > pool_room}

(* Mutant: one mail too many.                                              *)
PastTheHeadroomByOne(staged) ==
  LET live == (staged \cap MailSub) \ dead
  IN {m \in live : Cardinality(Ahead(m, live)) > Less(daily_room, Headroom)}

(* The mail digests that would eat into the last mails of the day.         *)
PastTheConfirmationHeadroom(staged) ==
  LET live == (staged \cap MailSub) \ dead
  IN IF Headroom = 0 THEN {}
     ELSE {m \in live :
             Cardinality(Ahead(m, live)) >= Less(daily_room, Headroom)}

-----------------------------------------------------------------------------
(* The world around the poller.                                            *)

SlotsChange(A) ==
  /\ avail' = A
  /\ UNCHANGED <<pc, db, window, status, dead, memory, ghosts>>

(* An unsubscription, an expiry or an unproven token; and the way back by  *)
(* renewal or verification.                                                *)
TurnOff(s) ==
  /\ s \in Fickle
  /\ status[s] = "live"
  /\ status' = [status EXCEPT ![s] = "off"]
  /\ UNCHANGED <<pc, db, window, avail, dead, memory, ghosts>>

TurnOn(s) ==
  /\ status[s] = "off"
  /\ status' = [status EXCEPT ![s] = "live"]
  /\ UNCHANGED <<pc, db, window, avail, dead, memory, ghosts>>

(* "Delete my data": the device row goes, and by cascade its subscription  *)
(* and every seen_slots row.                                               *)
Erase(s) ==
  /\ s \in AppSub \cap Fickle
  /\ status[s] # "erased"
  /\ status' = [status EXCEPT ![s] = "erased"]
  /\ seen' = {r \in seen : r[1] # s}
  /\ UNCHANGED <<pc, older, resting, window, avail, dead, memory, ghosts>>

(* A bounce webhook or the third refusal retires an address; a delivery or *)
(* a new sign-up revives it.                                               *)
AddressTurns(s) ==
  /\ s \in MailSub \cap Fickle
  /\ dead' = IF s \in dead THEN dead \ {s} ELSE dead \cup {s}
  /\ UNCHANGED <<pc, db, window, avail, status, memory, ghosts>>

(* A mail sent beside the digests: a management link from the web worker.  *)
OtherMail ==
  /\ others < MaxOther
  /\ others' = others + 1
  /\ usedHour' = usedHour + 1
  /\ usedDay' = usedDay + 1
  /\ UNCHANGED <<pc, db, world, memory, told, lost, faults>>

(* Sends age out of the rolling windows.                                   *)
HourFrees ==
  /\ usedHour > 0
  /\ usedHour' = usedHour - 1
  /\ UNCHANGED <<pc, db, usedDay, world, memory, ghosts>>

DayFrees ==
  /\ usedDay > usedHour
  /\ usedDay' = usedDay - 1
  /\ UNCHANGED <<pc, db, usedHour, world, memory, ghosts>>

(* The rate gap or the daily cap of a subscriber is over.                  *)
Rested(s) ==
  /\ s \in resting
  /\ resting' = resting \ {s}
  /\ UNCHANGED <<pc, seen, older, window, world, memory, ghosts>>

(* Housekeeping, between two cycles: a record of a week ago is pruned, and *)
(* a slot that is still open is news again.                                *)
PruneSeen(s, k) ==
  /\ pc = "idle"
  /\ <<s, k>> \in seen
  /\ seen' = seen \ {<<s, k>>}
  /\ told' = [told EXCEPT ![s][k] = 0]
  /\ UNCHANGED <<pc, older, resting, window, world, memory, lost, faults, others>>

-----------------------------------------------------------------------------
(* The cycle.                                                              *)

(* Out of run_cycle, by return or exception: its locals are gone.          *)
Forget ==
  /\ pc' = "idle"
  /\ snap' = {} /\ news' = [s \in Sub |-> {}]
  /\ mailQ' = {} /\ pushQ' = {} /\ mailSt' = "done" /\ pushSt' = "done"
  /\ room' = 0 /\ sent' = {} /\ delivered' = {} /\ recorded' = {}
  /\ passed' = {} /\ hourly' = FALSE /\ refused' = FALSE

(* The minute boundary: read who is active, then walk the cities' sites.   *)
StartCycle ==
  /\ pc = "idle"
  /\ pc' = "polling"
  /\ snap' = {s \in Sub : status[s] = "live"}
  /\ UNCHANGED <<db, window, world, news, mail, push, outcome, wall, ghosts>>

(* No slots: the city's polls raised, or the city is not due this minute.  *)
PollFails ==
  /\ pc = "polling"
  /\ Forget
  /\ UNCHANGED <<db, window, world, ghosts>>

Unseen(s) == {k \in avail : <<s, k>> \notin seen}
Staged    == {s \in snap \ resting : Unseen(s) # {}}

(* Stage a digest for everyone of the snapshot with news, then open both   *)
(* batches.  A mail to a dead address is dropped by the batch unsent.      *)
Stage ==
  LET held == BehindTheMailWall(Staged)
      kept == PastTheConfirmationHeadroom(Staged)
  IN /\ pc = "polling"
     /\ Staged # {}
     /\ pc' = "sending"
     /\ news' = [s \in Sub |-> IF s \in Staged THEN Unseen(s) ELSE {}]
     /\ mailQ' = ((Staged \cap MailSub) \ dead) \ kept
     /\ pushQ' = (Staged \cap AppSub) \ held
     /\ mailSt' = "open" /\ pushSt' = "open"
     /\ room' = pool_room
     /\ passed' = held
     /\ hourly' = (daily_room > pool_room)
     /\ UNCHANGED <<db, window, world, snap, outcome, refused, ghosts>>

NothingNew ==
  /\ pc = "polling"
  /\ Staged = {}
  /\ Forget
  /\ UNCHANGED <<db, window, world, ghosts>>

Tell(s) == told' = [told EXCEPT ![s] =
                      [k \in Slot |-> told[s][k] + IF k \in news[s] THEN 1 ELSE 0]]

Mailing == pc = "sending" /\ mailSt = "open"
Pushing == pc = "sending" /\ pushSt = "open"

(* The mail batch works through its queue in order.                        *)
MailAccept(s) ==
  /\ Mailing
  /\ IsFirst(s, mailQ)
  /\ room > 0
  /\ mailQ' = mailQ \ {s}
  /\ room' = room - 1
  /\ usedHour' = usedHour + 1
  /\ usedDay' = usedDay + 1
  /\ sent' = sent \cup {s}
  /\ Tell(s)
  /\ UNCHANGED <<pc, db, world, plan, mailSt, push, delivered, recorded, wall,
                 lost, faults, others>>

(* A refused mail spends no quota; its claim is released.                  *)
MailRefuse(s) ==
  /\ Mailing
  /\ IsFirst(s, mailQ)
  /\ room > 0
  /\ mailQ' = mailQ \ {s}
  /\ refused' = TRUE
  /\ UNCHANGED <<pc, db, window, world, plan, mailSt, room, push, outcome, passed,
                 hourly, ghosts>>

(* Every provider failed outright: what is left is deferred, not for quota.*)
MailOutage ==
  /\ Mailing
  /\ mailQ # {} /\ room > 0
  /\ mailQ' = {}
  /\ mailSt' = "done"
  /\ UNCHANGED <<pc, db, window, world, plan, room, push, outcome, wall, ghosts>>

(* The queue is empty or the quota is spent: the tail is deferred.         *)
MailDone ==
  /\ Mailing
  /\ mailQ = {} \/ room = 0
  /\ mailQ' = {}
  /\ mailSt' = "done"
  /\ passed' = passed \cup mailQ
  /\ UNCHANGED <<pc, db, window, world, plan, room, push, outcome, hourly, refused,
                 ghosts>>

(* The batch raises (a locked database): its result never reaches the      *)
(* caller.                                                                 *)
MailRaises ==
  /\ Mailing
  /\ faults < MaxFaults
  /\ faults' = faults + 1
  /\ mailQ' = {}
  /\ mailSt' = "raised"
  /\ UNCHANGED <<pc, db, window, world, plan, room, push, outcome, wall, told, lost,
                 others>>

(* The push batch, concurrently.  It sends only to a device that is there. *)
PushAccept(s) ==
  /\ Pushing
  /\ s \in pushQ
  /\ status[s] # "erased"
  /\ pushQ' = pushQ \ {s}
  /\ sent' = sent \cup {s}
  /\ Tell(s)
  /\ UNCHANGED <<pc, db, window, world, plan, mail, pushSt, delivered, recorded, wall,
                 lost, faults, others>>

(* Throttled, dropped, retired, past the push budget, or the token changed.*)
PushSkip(s) ==
  /\ Pushing
  /\ s \in pushQ
  /\ pushQ' = pushQ \ {s}
  /\ UNCHANGED <<pc, db, window, world, plan, mail, pushSt, outcome, wall, ghosts>>

PushDone ==
  /\ Pushing
  /\ pushQ = {}
  /\ pushSt' = "done"
  /\ UNCHANGED <<pc, db, window, world, plan, mail, pushQ, outcome, wall, ghosts>>

PushRaises ==
  /\ Pushing
  /\ faults < MaxFaults
  /\ faults' = faults + 1
  /\ pushQ' = {}
  /\ pushSt' = "raised"
  /\ UNCHANGED <<pc, db, window, world, plan, mail, outcome, wall, told, lost, others>>

Lose(S) == lost' = [s \in Sub |-> lost[s] + IF s \in S THEN 1 ELSE 0]

(* Mutant: everything staged counts as delivered.                          *)
KnownStaged == {s \in Sub : news[s] # {}}

(* Both batches returned.  A batch that raised delivered nothing as far as *)
(* the caller knows.                                                       *)
Known == {s \in sent : IF s \in MailSub THEN mailSt = "done" ELSE pushSt = "done"}

JoinBatches ==
  /\ pc = "sending" /\ mailSt # "open" /\ pushSt # "open"
  /\ pc' = "recording"
  /\ delivered' = Known
  /\ Lose(sent \ Known)
  /\ sent' = {} /\ room' = 0
  /\ UNCHANGED <<db, window, world, plan, mailQ, mailSt, push, recorded, wall, told,
                 faults, others>>

(* Mutant: seen_slots is written under a key the next cycle never queries. *)
RecordUnderAnotherKey(s) ==
  /\ pc = "recording"
  /\ IsFirst(s, delivered)
  /\ status[s] # "erased"
  /\ older' = {r \in older : r[1] # s} \cup ((Sub \ (recorded \cup {s})) \X {s})
  /\ resting' = resting \cup {s}
  /\ delivered' = delivered \ {s}
  /\ recorded' = recorded \cup {s}
  /\ UNCHANGED <<pc, seen, window, world, plan, mail, push, sent, wall, ghosts>>

(* Mutant: last_notified_at is not stamped, so nobody goes to the back.    *)
RecordUnstamped(s) ==
  /\ pc = "recording"
  /\ IsFirst(s, delivered)
  /\ status[s] # "erased"
  /\ seen' = seen \cup ({s} \X news[s])
  /\ resting' = resting \cup {s}
  /\ delivered' = delivered \ {s}
  /\ recorded' = recorded \cup {s}
  /\ UNCHANGED <<pc, older, window, world, plan, mail, push, sent, wall, ghosts>>

(* One transaction per delivered digest: the slots are seen, the           *)
(* subscriber goes to the back of the queue and rests.  Digests recorded   *)
(* in one flush share a timestamp.                                         *)
Record(s) ==
  /\ pc = "recording"
  /\ IsFirst(s, delivered)
  /\ status[s] # "erased"
  /\ seen' = seen \cup ({s} \X news[s])
  /\ older' = {r \in older : r[1] # s} \cup ((Sub \ (recorded \cup {s})) \X {s})
  /\ resting' = resting \cup {s}
  /\ delivered' = delivered \ {s}
  /\ recorded' = recorded \cup {s}
  /\ UNCHANGED <<pc, window, world, plan, mail, push, sent, wall, ghosts>>

(* The subscription was erased since its push: the insert breaks the       *)
(* foreign key and the exception ends the flush, unrecorded tail included. *)
RecordRaises(s) ==
  /\ pc = "recording"
  /\ IsFirst(s, delivered)
  /\ status[s] = "erased"
  /\ Forget
  /\ Lose(delivered)
  /\ UNCHANGED <<db, window, world, told, faults, others>>

EndCycle ==
  /\ pc = "recording"
  /\ delivered = {}
  /\ Forget
  /\ UNCHANGED <<db, window, world, ghosts>>

(* The process dies and is started again: memory is gone.                  *)
Restart ==
  /\ pc # "idle"
  /\ faults < MaxFaults
  /\ faults' = faults + 1
  /\ Forget
  /\ Lose(sent \cup delivered)
  /\ UNCHANGED <<db, window, world, told, others>>

-----------------------------------------------------------------------------
Init ==
  /\ avail = {} /\ dead = {}
  /\ status = [s \in Sub |-> "live"]
  /\ usedHour = 0 /\ usedDay = 0
  /\ seen = {} /\ older = {} /\ resting = {}
  /\ pc = "idle" /\ snap = {} /\ news = [s \in Sub |-> {}]
  /\ mailQ = {} /\ pushQ = {} /\ mailSt = "done" /\ pushSt = "done"
  /\ room = 0 /\ sent = {} /\ delivered = {} /\ recorded = {}
  /\ told = [s \in Sub |-> [k \in Slot |-> 0]]
  /\ lost = [s \in Sub |-> 0]
  /\ passed = {} /\ hourly = FALSE /\ refused = FALSE
  /\ faults = 0 /\ others = 0

World ==
  \/ \E A \in SUBSET Slot : SlotsChange(A)
  \/ \E s \in Sub : TurnOff(s) \/ TurnOn(s) \/ Erase(s) \/ AddressTurns(s)
  \/ OtherMail \/ HourFrees \/ DayFrees
  \/ \E s \in Sub : Rested(s)
  \/ \E s \in Sub, k \in Slot : PruneSeen(s, k)

Mail == \/ \E s \in MailSub : MailAccept(s) \/ MailRefuse(s)
        \/ MailOutage \/ MailDone \/ MailRaises
Push == \/ \E s \in AppSub : PushAccept(s) \/ PushSkip(s)
        \/ PushDone \/ PushRaises

Poller ==
  \/ StartCycle \/ PollFails \/ Stage \/ NothingNew
  \/ Mail \/ Push
  \/ JoinBatches \/ EndCycle
  \/ \E s \in Sub : Record(s) \/ RecordRaises(s)

Next == World \/ Poller \/ Restart

Spec == Init /\ [][Next]_vars

(* The poller loops for ever, windows slide, gaps end, and a provider or a *)
(* relay that is asked again and again accepts in the end.                 *)
Fairness ==
  /\ WF_vars(StartCycle) /\ SF_vars(Stage) /\ WF_vars(NothingNew)
  /\ WF_vars(Mail) /\ WF_vars(Push)
  /\ WF_vars(JoinBatches) /\ WF_vars(EndCycle)
  /\ WF_vars(HourFrees) /\ WF_vars(DayFrees)
  /\ \A s \in Sub : /\ WF_vars(Record(s)) /\ WF_vars(RecordRaises(s))
                     /\ WF_vars(Rested(s))
  /\ \A s \in MailSub : SF_vars(MailAccept(s))
  /\ \A s \in AppSub : SF_vars(PushAccept(s))

FairSpec == Spec /\ Fairness

-----------------------------------------------------------------------------
TypeOK ==
  /\ avail \subseteq Slot /\ dead \subseteq MailSub
  /\ status \in [Sub -> Statuses]
  /\ usedHour \in Nat /\ usedDay \in Nat
  /\ seen \subseteq Sub \X Slot /\ older \subseteq Sub \X Sub
  /\ resting \subseteq Sub /\ snap \subseteq Sub
  /\ pc \in Places
  /\ news \in [Sub -> SUBSET Slot]
  /\ mailQ \subseteq MailSub /\ pushQ \subseteq AppSub
  /\ mailSt \in {"open", "done", "raised"}
  /\ pushSt \in {"open", "done", "raised"}
  /\ room \in Nat
  /\ sent \subseteq Sub /\ delivered \subseteq Sub /\ recorded \subseteq Sub
  /\ told \in [Sub -> [Slot -> Nat]] /\ lost \in [Sub -> Nat]
  /\ passed \subseteq Sub /\ hourly \in BOOLEAN /\ refused \in BOOLEAN
  /\ faults \in Nat /\ others \in Nat

(* A slot is never recorded as told to somebody who was not told of it:    *)
(* flush_digests leaves deferred and refused digests unrecorded, so they   *)
(* resurface.                                                              *)
SeenWasTold == \A s \in Sub, k \in Slot : <<s, k>> \in seen => told[s][k] > 0

(* Within a record's week nobody is told of the same slot twice, but for   *)
(* one repetition per digest whose record a restart, a raising batch or an *)
(* aborted flush lost, although check (stage) and record (flush) are apart.*)
ToldOncePlusLosses == \A s \in Sub, k \in Slot : told[s][k] <= 1 + lost[s]

(* One queue, one wall: no mail left behind for quota stands before a mail *)
(* that went out; and while the hourly window is the wall and no provider  *)
(* refuses a recipient, this holds across the channels: whoever the quota  *)
(* passes over stands behind everyone served (_behind_the_mail_wall).      *)
OneQueueOneWall ==
  pc = "sending" =>
    \A p \in passed, d \in sent :
      {p, d} \subseteq MailSub \/ (hourly /\ ~refused) => ~Before(p, d)

(* What _behind_the_mail_wall promises, refusals or not.                   *)
PassedOverWaitedLess ==
  pc = "sending" /\ hourly =>
    \A p \in passed, d \in sent : <<p, d>> \notin older

(* The digests never push a rolling window past its quota.                 *)
QuotaKept == /\ usedHour <= HourQuota + others
             /\ usedDay <= DayQuota + others

(* The digests leave the last Headroom mails of the day to confirmations.  *)
HeadroomKept ==
  pc = "sending" /\ sent \cap MailSub # {} =>
    usedDay + Headroom <= DayQuota + others

(* flush_digests records what was actually sent: while nothing fails, no   *)
(* accepted digest goes unrecorded.                                        *)
LossNeedsAFault ==
  \A s \in Sub : status[s] # "erased" => lost[s] <= faults

(* A live subscriber with a slot that stays open and an address that stays *)
(* good is told of it, whatever quota walls, refusals, outages and failed  *)
(* polls intervene.                                                        *)
PersistentSlotIsTold ==
  \A s \in Sub, k \in Slot :
    <>[](status[s] = "live" /\ k \in avail /\ s \notin dead)
      => <>(<<s, k>> \in seen)
=============================================================================
