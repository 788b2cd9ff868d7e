------------------------ MODULE DigestDelivery_proofs ------------------------
(***************************************************************************)
(* Theorems about DigestDelivery: its type, nothing is recorded that was   *)
(* not told, nothing is told twice but for a lost record, the digests push *)
(* no window past its quota and leave the last mails of the day, and the   *)
(* quota wall passes over nobody who stands before somebody served.  The   *)
(* last section proves what the cycle before it stages, PollCycle.         *)
(***************************************************************************)
EXTENDS DigestDelivery, PollState, FiniteSetTheorems,
        WellFoundedInduction, TLAPS

-----------------------------------------------------------------------------
(* Where a digest of this flush can be at each place of the cycle.         *)
Flow ==
  /\ pc # "sending" => mailQ = {} /\ pushQ = {} /\ sent = {} /\ room = 0
  /\ pc # "recording" => delivered = {}
  /\ mailSt # "open" => mailQ = {}
  /\ pushSt # "open" => pushQ = {}
  /\ (mailQ \cup pushQ) \cap sent = {}
  /\ \A s \in Sub : status[s] = "erased" => s \in AppSub

(* What waits in a batch was not told before.                              *)
Fresh == \A s \in mailQ \cup pushQ : \A k \in news[s] : <<s, k>> \notin seen

(* Accepted by a provider or relay, and not recorded yet.                  *)
UnderWay(s, k) == s \in sent \cup delivered /\ k \in news[s]

Backed ==
  \A s \in Sub, k \in Slot : <<s, k>> \in seen \/ UnderWay(s, k) => told[s][k] > 0

Unrepeatable(s, k) == <<s, k>> \in seen \/ UnderWay(s, k) \/ status[s] = "erased"

Balance ==
  \A s \in Sub, k \in Slot :
    told[s][k] <= lost[s] + IF Unrepeatable(s, k) THEN 1 ELSE 0

(* A batch's room and what the windows hold together fit the quotas.       *)
Rooms == /\ usedHour + room <= HourQuota + others
         /\ usedDay + room <= DayQuota + others

(* The inductive invariant.                                                *)
Sound == TypeOK /\ Flow /\ Fresh /\ Backed /\ Balance /\ Rooms

LEMMA Numbers ==
  ASSUME TypeOK
  PROVE  /\ \A s \in Sub : lost[s] \in Nat
         /\ \A s \in Sub, k \in Slot : told[s][k] \in Nat
         /\ HourQuota \in Nat /\ DayQuota \in Nat /\ room \in Nat
         /\ usedHour \in Nat /\ usedDay \in Nat /\ others \in Nat
  BY QuotaAssumption DEF TypeOK

LEMMA PoolRoom ==
  ASSUME TypeOK
  PROVE  /\ pool_room \in Nat
         /\ usedHour + pool_room <= HourQuota \/ pool_room = 0
         /\ usedDay + pool_room <= DayQuota \/ pool_room = 0
  BY Numbers DEF pool_room, daily_room, Less, Smaller

LEMMA SoundInit == Init => Sound
<1> SUFFICES ASSUME Init PROVE Sound
  OBVIOUS
<1>1. TypeOK
  BY QuotaAssumption DEF Init, TypeOK, Statuses, Places
<1>2. Flow /\ Fresh /\ Backed /\ Balance
  BY DEF Init, Flow, Fresh, Backed, Balance, UnderWay, Unrepeatable
<1>3. Rooms
  BY QuotaAssumption DEF Init, Rooms
<1> QED BY <1>1, <1>2, <1>3 DEF Sound

-----------------------------------------------------------------------------
(* Steps that touch neither the digests of the flush nor what is told.     *)
LEMMA Aside ==
  ASSUME Sound,
         UNCHANGED <<pc, mailQ, pushQ, mailSt, pushSt, sent, delivered, news>>,
         UNCHANGED <<status, seen, told, lost>>,
         room' = room \/ pc = "sending"
  PROVE  Flow' /\ Fresh' /\ Backed' /\ Balance'
<1>1. Flow'
  BY DEF Sound, Flow
<1>2. Fresh' /\ Backed' /\ Balance'
  BY DEF Sound, Fresh, Backed, Balance, UnderWay, Unrepeatable
<1> QED BY <1>1, <1>2

LEMMA SoundWorld == Sound /\ World => Sound'
<1> SUFFICES ASSUME Sound, World PROVE Sound'
  OBVIOUS
<1> USE DEF Sound, db, window, world, plan, mail, push, outcome, wall, memory, ghosts
<1>1. ASSUME NEW A \in SUBSET Slot, SlotsChange(A) PROVE Sound'
  <2>1. TypeOK'
    BY <1>1 DEF SlotsChange, TypeOK
  <2>2. Rooms'
    BY <1>1 DEF SlotsChange, Rooms
  <2> QED BY <1>1, <2>1, <2>2, Aside DEF SlotsChange
<1>2. ASSUME NEW s \in Sub, TurnOff(s) \/ TurnOn(s) PROVE Sound'
  <2>1. /\ status \in [Sub -> Statuses]
        /\ \A t \in Sub : status'[t] = "erased" <=> status[t] = "erased"
    BY <1>2 DEF TurnOff, TurnOn, TypeOK, Statuses
  <2>2. TypeOK'
    BY <1>2 DEF TurnOff, TurnOn, TypeOK, Statuses
  <2>3. Flow' /\ Fresh' /\ Backed' /\ Rooms'
    BY <1>2, <2>1 DEF TurnOff, TurnOn, Flow, Fresh, Backed, UnderWay, Rooms
  <2>4. Balance'
    BY <1>2, <2>1 DEF TurnOff, TurnOn, Balance, Unrepeatable, UnderWay
  <2> QED BY <2>2, <2>3, <2>4
<1>3. ASSUME NEW s \in Sub, Erase(s) PROVE Sound'
  <2>1. status \in [Sub -> Statuses] /\ seen \subseteq Sub \X Slot
    BY DEF TypeOK
  <2>2. TypeOK'
    BY <1>3 DEF Erase, TypeOK, Statuses
  <2>3. /\ \A t \in Sub : status'[t] = IF t = s THEN "erased" ELSE status[t]
        /\ \A t \in Sub, k \in Slot : <<t, k>> \in seen' <=> <<t, k>> \in seen /\ t # s
        /\ s \in AppSub
    BY <1>3, <2>1 DEF Erase
  <2>4. Flow' /\ Rooms'
    BY <1>3, <2>3 DEF Erase, Flow, Rooms
  <2>5. Fresh'
    BY <1>3 DEF Erase, Fresh
  <2>6. Backed'
    BY <1>3, <2>3 DEF Erase, Backed, UnderWay
  <2>7. Balance'
    <3> SUFFICES ASSUME NEW t \in Sub, NEW k \in Slot
                 PROVE  told[t][k] <= lost[t] + IF Unrepeatable(t, k)' THEN 1 ELSE 0
      BY <1>3 DEF Erase, Balance
    <3>1. Unrepeatable(t, k) => Unrepeatable(t, k)'
      BY <1>3, <2>3 DEF Erase, Unrepeatable, UnderWay
    <3>2. told[t][k] <= lost[t] + IF Unrepeatable(t, k) THEN 1 ELSE 0
      BY DEF Balance
    <3> QED BY <3>1, <3>2, Numbers
  <2> QED BY <2>2, <2>4, <2>5, <2>6, <2>7
<1>4. ASSUME NEW s \in Sub, AddressTurns(s) PROVE Sound'
  <2>1. TypeOK'
    BY <1>4 DEF AddressTurns, TypeOK
  <2>2. Rooms'
    BY <1>4 DEF AddressTurns, Rooms
  <2> QED BY <1>4, <2>1, <2>2, Aside DEF AddressTurns
<1>5. CASE OtherMail
  <2>1. TypeOK'
    BY <1>5 DEF OtherMail, TypeOK
  <2>2. Rooms'
    BY <1>5, Numbers DEF OtherMail, Rooms
  <2> QED BY <1>5, <2>1, <2>2, Aside DEF OtherMail
<1>6. CASE HourFrees \/ DayFrees
  <2>1. TypeOK'
    BY <1>6 DEF HourFrees, DayFrees, TypeOK
  <2>2. Rooms'
    BY <1>6, Numbers DEF HourFrees, DayFrees, Rooms
  <2> QED BY <1>6, <2>1, <2>2, Aside DEF HourFrees, DayFrees
<1>7. ASSUME NEW s \in Sub, Rested(s) PROVE Sound'
  <2>1. TypeOK'
    BY <1>7 DEF Rested, TypeOK
  <2>2. Rooms'
    BY <1>7 DEF Rested, Rooms
  <2> QED BY <1>7, <2>1, <2>2, Aside DEF Rested
<1>8. ASSUME NEW s \in Sub, NEW k \in Slot, PruneSeen(s, k) PROVE Sound'
  <2>1. told \in [Sub -> [Slot -> Nat]] /\ told' = [told EXCEPT ![s][k] = 0]
    BY <1>8 DEF PruneSeen, TypeOK
  <2>2. told' \in [Sub -> [Slot -> Nat]]
        /\ \A t \in Sub, j \in Slot :
             told'[t][j] = IF t = s /\ j = k THEN 0 ELSE told[t][j]
    BY <2>1
  <2>3. TypeOK'
    BY <1>8, <2>2 DEF PruneSeen, TypeOK
  <2>4. sent = {} /\ delivered = {} /\ mailQ = {} /\ pushQ = {}
    BY <1>8 DEF PruneSeen, Flow
  <2>5. Flow' /\ Fresh' /\ Rooms'
    BY <1>8, <2>4 DEF PruneSeen, Flow, Fresh, Rooms
  <2>6. Backed'
    BY <1>8, <2>2, <2>4 DEF PruneSeen, Backed, UnderWay
  <2>7. Balance'
    <3> SUFFICES ASSUME NEW t \in Sub, NEW j \in Slot
                 PROVE  told'[t][j] <= lost[t] + IF Unrepeatable(t, j)' THEN 1 ELSE 0
      BY <1>8 DEF PruneSeen, Balance
    <3>1. told[t][j] <= lost[t] + IF Unrepeatable(t, j) THEN 1 ELSE 0
      BY DEF Balance
    <3>2. t # s \/ j # k => Unrepeatable(t, j)' = Unrepeatable(t, j)
      BY <1>8, <2>4 DEF PruneSeen, Unrepeatable, UnderWay
    <3>3. CASE t = s /\ j = k
      BY <2>2, <3>3, Numbers
    <3>4. CASE t # s \/ j # k
      BY <2>2, <3>1, <3>2, <3>4
    <3> QED BY <3>3, <3>4
  <2> QED BY <2>3, <2>5, <2>6, <2>7
<1> QED BY <1>1, <1>2, <1>3, <1>4, <1>5, <1>6, <1>7, <1>8 DEF World

-----------------------------------------------------------------------------
(* Out of the cycle, accepted digests are recorded or counted as lost.     *)
LEMMA Losing ==
  ASSUME TypeOK, NEW S \in SUBSET Sub, Lose(S)
  PROVE  /\ lost' \in [Sub -> Nat]
         /\ \A s \in Sub : lost'[s] = lost[s] + IF s \in S THEN 1 ELSE 0
  BY DEF TypeOK, Lose

LEMMA SoundForget ==
  ASSUME Sound, Forget, UNCHANGED <<db, window, world, told, others>>,
         faults' \in Nat,
         lost' \in [Sub -> Nat],
         \A s \in Sub : lost'[s] >= lost[s] + IF s \in sent \cup delivered THEN 1 ELSE 0
  PROVE  Sound'
<1> USE DEF Sound, db, window, world
<1>1. TypeOK'
  BY DEF Forget, TypeOK, Places
<1>2. Flow' /\ Fresh' /\ Rooms'
  <2>1. Rooms'
    BY Numbers DEF Forget, Rooms
  <2>2. Flow' /\ Fresh'
    BY DEF Forget, Flow, Fresh
  <2> QED BY <2>1, <2>2
<1>3. Backed'
  BY DEF Forget, Backed, UnderWay
<1>4. Balance'
  <2> SUFFICES ASSUME NEW s \in Sub, NEW k \in Slot
               PROVE  told[s][k] <= lost'[s] + IF Unrepeatable(s, k)' THEN 1 ELSE 0
    BY DEF Balance
  <2>1. told[s][k] <= lost[s] + IF Unrepeatable(s, k) THEN 1 ELSE 0
    BY DEF Balance
  <2>2. Unrepeatable(s, k) => Unrepeatable(s, k)' \/ s \in sent \cup delivered
    BY DEF Unrepeatable, UnderWay
  <2>3. lost'[s] \in Nat /\ lost[s] \in Nat /\ told[s][k] \in Nat
    BY Numbers
  <2>4. lost'[s] >= lost[s] + IF s \in sent \cup delivered THEN 1 ELSE 0
    OBVIOUS
  <2> QED BY <2>1, <2>2, <2>3, <2>4
<1> QED BY <1>1, <1>2, <1>3, <1>4

LEMMA SoundReturn ==
  ASSUME Sound, PollFails \/ NothingNew \/ EndCycle
  PROVE  Sound'
<1>1. Forget /\ UNCHANGED <<db, window, world, ghosts>>
  BY DEF PollFails, NothingNew, EndCycle
<1>2. sent \cup delivered = {}
  BY DEF PollFails, NothingNew, EndCycle, Sound, Flow
<1>3. TypeOK
  BY DEF Sound
<1>4. lost' \in [Sub -> Nat] /\ faults' \in Nat
      /\ \A s \in Sub : lost'[s] >= lost[s] + IF s \in sent \cup delivered THEN 1 ELSE 0
  BY <1>1, <1>2, <1>3, Numbers DEF ghosts, TypeOK
<1> QED BY <1>1, <1>4, SoundForget DEF ghosts

LEMMA SoundCut ==
  ASSUME Sound, Restart \/ \E s \in Sub : RecordRaises(s)
  PROVE  Sound'
<1> DEFINE S == IF Restart THEN sent \cup delivered ELSE delivered
<1>1. Forget /\ UNCHANGED <<db, window, world, told, others>>
  BY DEF Restart, RecordRaises
<1>2. TypeOK
  BY DEF Sound
<1>3. faults' \in Nat
  BY <1>2 DEF Restart, RecordRaises, TypeOK
<1>4. PICK T \in SUBSET Sub : T = sent \cup delivered /\ Lose(T)
  <2>1. CASE Restart
    BY <1>2, <2>1 DEF Restart, TypeOK
  <2>2. CASE \E s \in Sub : RecordRaises(s)
    <3>1. sent = {} /\ Lose(delivered)
      BY <2>2 DEF RecordRaises, Sound, Flow
    <3>2. sent \cup delivered = delivered /\ delivered \in SUBSET Sub
      BY <1>2, <3>1 DEF TypeOK
    <3> QED BY <3>1, <3>2 DEF Lose
  <2> QED BY <2>1, <2>2
<1>5. /\ lost' \in [Sub -> Nat]
      /\ \A s \in Sub : lost'[s] = lost[s] + IF s \in sent \cup delivered THEN 1 ELSE 0
  BY <1>2, <1>4, Losing
<1>6. \A s \in Sub : lost'[s] >= lost[s] + IF s \in sent \cup delivered THEN 1 ELSE 0
  BY <1>2, <1>5, Numbers
<1> QED BY <1>1, <1>3, <1>5, <1>6, SoundForget

LEMMA SoundStart == ASSUME Sound, StartCycle PROVE Sound'
<1> USE DEF Sound, db, window, world, plan, mail, push, outcome, wall, ghosts
<1>1. TypeOK'
  BY DEF StartCycle, TypeOK, Places
<1>2. Flow' /\ Rooms'
  BY DEF StartCycle, Flow, Rooms
<1>3. Fresh' /\ Backed' /\ Balance'
  BY DEF StartCycle, Fresh, Backed, Balance, UnderWay, Unrepeatable
<1> QED BY <1>1, <1>2, <1>3

LEMMA SoundStage == ASSUME Sound, Stage PROVE Sound'
<1> USE DEF Sound, db, window, world, outcome, ghosts
<1>1. /\ Staged \subseteq Sub /\ mailQ' \subseteq MailSub /\ pushQ' \subseteq AppSub
      /\ mailQ' \cup pushQ' \subseteq Staged
      /\ news' = [s \in Sub |-> IF s \in Staged THEN Unseen(s) ELSE {}]
      /\ \A s \in Sub : Unseen(s) \subseteq Slot
      /\ passed' \subseteq Sub /\ hourly' \in BOOLEAN /\ room' = pool_room
      /\ pc = "polling" /\ pc' = "sending"
      /\ mailSt' = "open" /\ pushSt' = "open"
  <2>1. Staged \subseteq Sub /\ \A s \in Sub : Unseen(s) \subseteq Slot
    BY DEF Staged, Unseen, TypeOK
  <2>2. BehindTheMailWall(Staged) \subseteq Staged
    BY DEF BehindTheMailWall
  <2>3. /\ mailQ' \subseteq Staged \cap MailSub /\ pushQ' \subseteq Staged \cap AppSub
        /\ passed' = BehindTheMailWall(Staged)
    BY DEF Stage
  <2>4. /\ news' = [s \in Sub |-> IF s \in Staged THEN Unseen(s) ELSE {}]
        /\ hourly' \in BOOLEAN /\ room' = pool_room
        /\ pc = "polling" /\ pc' = "sending"
        /\ mailSt' = "open" /\ pushSt' = "open"
    BY DEF Stage
  <2> QED BY <2>1, <2>2, <2>3, <2>4
<1>2. sent = {} /\ delivered = {} /\ sent' = {} /\ delivered' = {} /\ room = 0
  BY <1>1 DEF Stage, Flow
<1>3. TypeOK'
  BY <1>1, PoolRoom DEF Stage, TypeOK, Places
<1>4. Flow'
  BY <1>1, <1>2 DEF Stage, Flow
<1>5. Fresh'
  <2> SUFFICES ASSUME NEW s \in mailQ' \cup pushQ', NEW k \in news'[s]
               PROVE  <<s, k>> \notin seen'
    BY DEF Fresh
  <2>1. s \in Sub /\ s \in Staged /\ k \in Unseen(s)
    BY <1>1
  <2> QED BY <2>1 DEF Stage, Unseen
<1>6. Backed' /\ Balance'
  BY <1>2 DEF Stage, Backed, Balance, UnderWay, Unrepeatable
<1>7. Rooms'
  BY <1>1, <1>2, PoolRoom, Numbers DEF Stage, Rooms
<1> QED BY <1>3, <1>4, <1>5, <1>6, <1>7

-----------------------------------------------------------------------------
(* An acceptance tells its subscriber of what was never told to him.       *)
LEMMA Telling ==
  ASSUME TypeOK, NEW s \in Sub, Tell(s)
  PROVE  /\ told' \in [Sub -> [Slot -> Nat]]
         /\ \A t \in Sub, k \in Slot :
              told'[t][k] = told[t][k] + IF t = s /\ k \in news[s] THEN 1 ELSE 0
<1>1. told \in [Sub -> [Slot -> Nat]]
  BY DEF TypeOK
<1>2. told' = [told EXCEPT ![s] =
                [k \in Slot |-> told[s][k] + IF k \in news[s] THEN 1 ELSE 0]]
  BY DEF Tell
<1>3. [k \in Slot |-> told[s][k] + IF k \in news[s] THEN 1 ELSE 0] \in [Slot -> Nat]
  BY <1>1
<1>4. told' \in [Sub -> [Slot -> Nat]]
  BY <1>1, <1>2, <1>3
<1>5. ASSUME NEW t \in Sub, NEW k \in Slot
      PROVE  told'[t][k] = told[t][k] + IF t = s /\ k \in news[s] THEN 1 ELSE 0
  <2>1. CASE t = s
    BY <1>1, <1>2, <2>1
  <2>2. CASE t # s
    BY <1>1, <1>2, <2>2
  <2> QED BY <2>1, <2>2
<1> QED BY <1>4, <1>5

LEMMA Accepting ==
  ASSUME Sound, NEW s \in Sub, s \in mailQ \cup pushQ, status[s] # "erased",
         pc = "sending",
         mailQ' \cup pushQ' = (mailQ \cup pushQ) \ {s},
         sent' = sent \cup {s}, Tell(s),
         UNCHANGED <<seen, status, news, delivered, lost>>
  PROVE  Fresh' /\ Backed' /\ Balance'
<1> USE DEF Sound
<1>1. delivered = {} /\ s \notin sent /\ news[s] \subseteq Slot
  BY DEF Flow, TypeOK
<1>2. \A t \in Sub, k \in Slot :
        UnderWay(t, k)' <=> UnderWay(t, k) \/ (t = s /\ k \in news[s])
  BY <1>1 DEF UnderWay
<1>3. Fresh'
  BY DEF Fresh
<1>4. Backed'
  <2> SUFFICES ASSUME NEW t \in Sub, NEW k \in Slot,
                      <<t, k>> \in seen \/ UnderWay(t, k)'
               PROVE  told'[t][k] > 0
    BY DEF Backed
  <2>1. <<t, k>> \in seen \/ UnderWay(t, k) => told[t][k] > 0
    BY DEF Backed
  <2> QED BY <1>2, <2>1, Telling, Numbers
<1>5. Balance'
  <2> SUFFICES ASSUME NEW t \in Sub, NEW k \in Slot
               PROVE  told'[t][k] <= lost[t] + IF Unrepeatable(t, k)' THEN 1 ELSE 0
    BY DEF Balance
  <2>1. told[t][k] <= lost[t] + IF Unrepeatable(t, k) THEN 1 ELSE 0
    BY DEF Balance
  <2>2. Unrepeatable(t, k)' <=> Unrepeatable(t, k) \/ (t = s /\ k \in news[s])
    BY <1>2 DEF Unrepeatable
  <2>3. t = s /\ k \in news[s] => ~Unrepeatable(t, k)
    BY <1>1 DEF Unrepeatable, UnderWay, Fresh
  <2>4. told[t][k] \in Nat /\ lost[t] \in Nat
    BY Numbers
  <2>5. told'[t][k] = told[t][k] + IF t = s /\ k \in news[s] THEN 1 ELSE 0
    BY Telling
  <2> QED BY <2>1, <2>2, <2>3, <2>4, <2>5
<1> QED BY <1>3, <1>4, <1>5

LEMMA SoundMailAccept == ASSUME Sound, NEW s \in MailSub, MailAccept(s) PROVE Sound'
<1> USE DEF Sound, db, world, plan, push, wall
<1>1. s \in Sub /\ s \in mailQ /\ s \notin pushQ /\ s \notin AppSub
  BY SubAssumption DEF MailAccept, IsFirst, Sub, TypeOK
<1>2. status[s] # "erased" /\ pc = "sending" /\ mailSt = "open"
  BY <1>1 DEF MailAccept, Mailing, Flow
<1>3. TypeOK'
  <2>1. told' \in [Sub -> [Slot -> Nat]]
    BY <1>1, Telling DEF MailAccept
  <2>2. room' \in Nat /\ usedHour' \in Nat /\ usedDay' \in Nat
    BY Numbers DEF MailAccept
  <2> QED BY <1>1, <2>1, <2>2 DEF MailAccept, TypeOK
<1>4. Flow'
  BY <1>1, <1>2 DEF MailAccept, Flow
<1>5. Fresh' /\ Backed' /\ Balance'
  <2>1. mailQ' \cup pushQ' = (mailQ \cup pushQ) \ {s}
    BY <1>1 DEF MailAccept
  <2> QED BY <1>1, <1>2, <2>1, Accepting DEF MailAccept
<1>6. Rooms'
  BY Numbers DEF MailAccept, Rooms
<1> QED BY <1>3, <1>4, <1>5, <1>6

LEMMA SoundPushAccept == ASSUME Sound, NEW s \in AppSub, PushAccept(s) PROVE Sound'
<1> USE DEF Sound, db, window, world, plan, mail, wall
<1>1. s \in Sub /\ s \in pushQ /\ s \notin mailQ
  BY SubAssumption DEF PushAccept, Sub, TypeOK
<1>2. status[s] # "erased" /\ pc = "sending" /\ pushSt = "open"
  BY DEF PushAccept, Pushing
<1>3. TypeOK'
  <2>1. told' \in [Sub -> [Slot -> Nat]]
    BY <1>1, Telling DEF PushAccept
  <2> QED BY <1>1, <2>1 DEF PushAccept, TypeOK
<1>4. Flow'
  BY <1>1, <1>2 DEF PushAccept, Flow
<1>5. Fresh' /\ Backed' /\ Balance'
  <2>1. mailQ' \cup pushQ' = (mailQ \cup pushQ) \ {s}
    BY <1>1 DEF PushAccept
  <2> QED BY <1>1, <1>2, <2>1, Accepting DEF PushAccept
<1>6. Rooms'
  BY DEF PushAccept, Rooms
<1> QED BY <1>3, <1>4, <1>5, <1>6

(* A batch leaves an item behind, or ends.                                 *)
LEMMA SoundLeftBehind ==
  ASSUME Sound,
         \/ \E s \in MailSub : MailRefuse(s)
         \/ MailOutage \/ MailDone \/ MailRaises
         \/ \E s \in AppSub : PushSkip(s)
         \/ PushDone \/ PushRaises
  PROVE  Sound'
<1> USE DEF Sound, db, window, world, plan, mail, push, outcome, wall, ghosts
<1>1. /\ pc' = pc /\ pc = "sending" /\ mailQ' \subseteq mailQ /\ pushQ' \subseteq pushQ
      /\ UNCHANGED <<sent, delivered, recorded, seen, status, news, told, lost, room>>
      /\ UNCHANGED <<usedHour, usedDay, others>>
  BY DEF MailRefuse, MailOutage, MailDone, MailRaises, PushSkip, PushDone, PushRaises,
         Mailing, Pushing
<1>2. /\ mailSt' # "open" => mailQ' = {}
      /\ pushSt' # "open" => pushQ' = {}
  BY DEF MailRefuse, MailOutage, MailDone, MailRaises, PushSkip, PushDone, PushRaises,
         Mailing, Pushing, Flow
<1>3. TypeOK'
  <2>1. CASE \E s \in MailSub : MailRefuse(s)
    BY <2>1 DEF MailRefuse, TypeOK
  <2>2. CASE MailOutage \/ MailDone
    BY <2>2 DEF MailOutage, MailDone, TypeOK, Sub
  <2>3. CASE MailRaises \/ PushRaises
    BY <2>3 DEF MailRaises, PushRaises, TypeOK
  <2>4. CASE PushDone \/ \E s \in AppSub : PushSkip(s)
    BY <2>4 DEF PushSkip, PushDone, TypeOK
  <2> QED BY <2>1, <2>2, <2>3, <2>4
<1>4. Flow'
  BY <1>1, <1>2 DEF Flow
<1>5. Fresh' /\ Backed' /\ Balance' /\ Rooms'
  BY <1>1 DEF Fresh, Backed, Balance, UnderWay, Unrepeatable, Rooms
<1> QED BY <1>3, <1>4, <1>5

LEMMA SoundJoin == ASSUME Sound, JoinBatches PROVE Sound'
<1> USE DEF Sound, db, window, world, plan, push, wall
<1>1. /\ Known \subseteq sent /\ sent \subseteq Sub /\ delivered = {} /\ sent' = {}
      /\ delivered' = Known /\ mailQ = {} /\ pushQ = {} /\ pc' = "recording"
      /\ mailQ' = {} /\ pushQ' = {} /\ room' = 0
  <2>1. Known \subseteq Sub /\ Known \subseteq sent /\ sent \subseteq Sub
    BY DEF Known, TypeOK
  <2>2. /\ sent' = {} /\ delivered' = Known /\ pc = "sending" /\ pc' = "recording"
        /\ mailSt # "open" /\ pushSt # "open" /\ room' = 0
        /\ mailQ' = mailQ /\ pushQ' = pushQ
    BY DEF JoinBatches
  <2>3. delivered = {} /\ mailQ = {} /\ pushQ = {}
    BY <2>2 DEF Flow
  <2> QED BY <2>1, <2>2, <2>3
<1>2. /\ lost' \in [Sub -> Nat]
      /\ \A s \in Sub : lost'[s] = lost[s] + IF s \in sent \ Known THEN 1 ELSE 0
  <2>1. sent \ Known \in SUBSET Sub /\ Lose(sent \ Known)
    BY <1>1 DEF JoinBatches
  <2> QED BY <2>1, Losing
<1>3. TypeOK'
  <2>1. /\ delivered' \subseteq Sub /\ sent' \subseteq Sub /\ room' \in Nat
        /\ pc' \in Places
    BY <1>1 DEF Places
  <2> QED BY <1>1, <1>2, <2>1 DEF JoinBatches, TypeOK
<1>4. Flow' /\ Fresh'
  BY <1>1 DEF JoinBatches, Flow, Fresh
<1>5. Backed'
  BY <1>1 DEF JoinBatches, Backed, UnderWay
<1>6. Balance'
  <2> SUFFICES ASSUME NEW s \in Sub, NEW k \in Slot
               PROVE  told[s][k] <= lost'[s] + IF Unrepeatable(s, k)' THEN 1 ELSE 0
    BY DEF Balance, JoinBatches
  <2>1. told[s][k] <= lost[s] + IF Unrepeatable(s, k) THEN 1 ELSE 0
    BY DEF Balance
  <2>2. Unrepeatable(s, k) => Unrepeatable(s, k)' \/ s \in sent \ Known
    BY <1>1 DEF JoinBatches, Unrepeatable, UnderWay
  <2>3. lost[s] \in Nat /\ told[s][k] \in Nat
    BY Numbers
  <2> QED BY <1>2, <2>1, <2>2, <2>3
<1>7. Rooms'
  BY <1>1, Numbers DEF JoinBatches, Rooms
<1> QED BY <1>3, <1>4, <1>5, <1>6, <1>7

LEMMA SoundRecord == ASSUME Sound, NEW s \in Sub, Record(s) PROVE Sound'
<1> USE DEF Sound, window, world, plan, mail, push, wall, ghosts
<1>1. /\ s \in delivered /\ delivered' = delivered \ {s} /\ news[s] \subseteq Slot
      /\ seen' = seen \cup ({s} \X news[s])
      /\ mailQ = {} /\ pushQ = {} /\ mailQ' = {} /\ pushQ' = {} /\ sent = {} /\ sent' = {}
  BY DEF Record, IsFirst, Flow, TypeOK
<1>2. TypeOK'
  <2>1. seen' \subseteq Sub \X Slot /\ seen \subseteq Sub \X Slot
    BY <1>1 DEF TypeOK
  <2>2. older' \subseteq Sub \X Sub
    BY DEF Record, TypeOK
  <2> QED BY <1>1, <2>1, <2>2 DEF Record, TypeOK
<1>3. Flow' /\ Fresh' /\ Rooms'
  BY <1>1 DEF Record, Flow, Fresh, Rooms
<1>4. \A t \in Sub, k \in Slot :
        <<t, k>> \in seen' \/ UnderWay(t, k)' <=> <<t, k>> \in seen \/ UnderWay(t, k)
  BY <1>1 DEF Record, UnderWay
<1>5. Backed'
  BY <1>4 DEF Record, Backed
<1>6. Balance'
  BY <1>4 DEF Record, Balance, Unrepeatable
<1> QED BY <1>2, <1>3, <1>5, <1>6

LEMMA SoundStep == Sound /\ [Next]_vars => Sound'
<1> SUFFICES ASSUME Sound, [Next]_vars PROVE Sound'
  OBVIOUS
<1>1. CASE World
  BY <1>1, SoundWorld
<1>2. CASE StartCycle \/ PollFails \/ Stage \/ NothingNew \/ JoinBatches \/ EndCycle
  BY <1>2, SoundStart, SoundReturn, SoundStage, SoundJoin
<1>3. CASE Mail
  BY <1>3, SoundMailAccept, SoundLeftBehind DEF Mail
<1>4. CASE Push
  BY <1>4, SoundPushAccept, SoundLeftBehind DEF Push
<1>5. ASSUME NEW s \in Sub, Record(s) \/ RecordRaises(s) PROVE Sound'
  BY <1>5, SoundRecord, SoundCut
<1>6. CASE Restart
  BY <1>6, SoundCut
<1>7. CASE UNCHANGED vars
  <2> USE DEF vars, db, window, world, memory, plan, mail, push, outcome, wall, ghosts
  <2>1. TypeOK' /\ Rooms'
    BY <1>7 DEF Sound, TypeOK, Rooms
  <2>2. Flow' /\ Fresh' /\ Backed' /\ Balance'
    BY <1>7, Aside
  <2> QED BY <2>1, <2>2 DEF Sound
<1> QED BY <1>1, <1>2, <1>3, <1>4, <1>5, <1>6, <1>7 DEF Next, Poller

LEMMA AlwaysSound == Spec => []Sound
<1> QED BY SoundInit, SoundStep, PTL DEF Spec

(* Every variable keeps its type: no room or window goes below zero, and   *)
(* every batch judges subscribers of its own channel only.                 *)
THEOREM TypeInvariant == Spec => []TypeOK
<1>1. Sound => TypeOK
  BY DEF Sound
<1> QED BY <1>1, AlwaysSound, PTL

(* flush_digests records no slot as told that was not delivered.           *)
THEOREM SeenWasToldHolds == Spec => []SeenWasTold
<1>1. Sound => SeenWasTold
  BY DEF Sound, Backed, SeenWasTold
<1> QED BY <1>1, AlwaysSound, PTL

(* Nobody is told of a slot twice within a record's week, but once for     *)
(* every digest whose record was lost.                                     *)
THEOREM ToldOncePlusLossesHolds == Spec => []ToldOncePlusLosses
<1>1. ASSUME Sound, NEW s \in Sub, NEW k \in Slot PROVE told[s][k] <= 1 + lost[s]
  <2>1. told[s][k] <= lost[s] + IF Unrepeatable(s, k) THEN 1 ELSE 0
    BY <1>1 DEF Sound, Balance
  <2>2. told[s][k] \in Nat /\ lost[s] \in Nat
    BY <1>1, Numbers DEF Sound
  <2> QED BY <2>1, <2>2
<1>2. Sound => ToldOncePlusLosses
  BY <1>1 DEF ToldOncePlusLosses
<1> QED BY <1>2, AlwaysSound, PTL

(* The digests push no rolling window past its quota.                      *)
THEOREM QuotaKeptHolds == Spec => []QuotaKept
<1>1. Sound => QuotaKept
  <2> SUFFICES ASSUME Sound PROVE QuotaKept
    OBVIOUS
  <2> QED BY Numbers DEF Sound, Rooms, QuotaKept
<1> QED BY <1>1, AlwaysSound, PTL
-----------------------------------------------------------------------------
(* The queue is one order over both channels: who waited longer, then the  *)
(* ids.  It is a total order as long as last_notified_at is a weak one.    *)

(* One timestamp each, and the ones this flush wrote are the latest.       *)
Ordered ==
  /\ \A a, b \in Sub : <<a, b>> \in older => <<b, a>> \notin older
  /\ \A a, b, c \in Sub : <<a, b>> \in older => <<a, c>> \in older \/ <<c, b>> \in older

Latest ==
  /\ pc # "recording" => recorded = {}
  /\ \A r \in recorded, t \in Sub :
       <<r, t>> \notin older /\ (t \notin recorded => <<t, r>> \in older)

(* What the queue may still spend leaves the last mails of the day.        *)
Saved ==
  pc = "sending" /\ 0 < Headroom /\ (mailQ # {} \/ sent \cap MailSub # {})
    => usedDay + Cardinality(mailQ) + Headroom <= DayQuota + others

(* The mails go out in order, and only the tail is left behind for quota.  *)
InTurn ==
  pc = "sending" =>
    /\ mailSt = "open" => passed \cap MailSub = {}
    /\ \A d \in sent \cap MailSub, q \in (mailQ \cup passed) \cap MailSub : ~Before(q, d)

(* While the hourly window is the wall and nobody is refused, the mails    *)
(* that the room reaches are the ones the held pushes wait for, and the    *)
(* mails ahead of a push that was not held all fit the room.               *)
Walled ==
  pc = "sending" /\ hourly /\ ~refused =>
    /\ \A p \in passed \cap AppSub, d \in pushQ \cup sent : ~Before(p, d)
    /\ \A p \in passed \cap AppSub, d \in mailQ :
         Before(p, d) => room <= Cardinality(Ahead(d, mailQ))
    /\ \A p \in passed \cap MailSub, d \in (pushQ \cup sent) \cap AppSub : ~Before(p, d)
    /\ \A d \in (pushQ \cup sent) \cap AppSub : Cardinality(Ahead(d, mailQ)) <= room

(* The inductive invariant of the queue, on top of Sound.                  *)
Queued == Ordered /\ Latest /\ Saved /\ InTurn /\ Walled

LEMMA QueueOrder ==
  ASSUME Ordered
  PROVE  /\ \A a, b \in Sub : a # b => Before(a, b) \/ Before(b, a)
         /\ \A a, b \in Sub : Before(a, b) => ~Before(b, a)
         /\ \A a, b, c \in Sub : Before(a, b) /\ Before(b, c) => Before(a, c)
<1>1. \A a \in Sub : Id[a] \in Nat
  BY IdAssumption
<1>2. ASSUME NEW a \in Sub, NEW b \in Sub, a # b PROVE Before(a, b) \/ Before(b, a)
  <2>1. Id[a] # Id[b]
    BY <1>2, IdAssumption
  <2> QED BY <1>1, <2>1 DEF Before
<1>3. ASSUME NEW a \in Sub, NEW b \in Sub, Before(a, b) PROVE ~Before(b, a)
  BY <1>1, <1>3 DEF Before, Ordered
<1>4. ASSUME NEW a \in Sub, NEW b \in Sub, NEW c \in Sub, Before(a, b), Before(b, c)
      PROVE  Before(a, c)
  <2>1. CASE <<a, c>> \in older
    BY <2>1 DEF Before
  <2>2. CASE <<a, c>> \notin older
    <3>1. <<a, b>> \in older => <<c, b>> \in older
      BY <2>2 DEF Ordered
    <3>2. <<b, c>> \in older => <<b, a>> \in older
      BY <2>2 DEF Ordered
    <3>3. <<a, b>> \notin older /\ <<b, c>> \notin older
      BY <1>4, <3>1, <3>2 DEF Before, Ordered
    <3>4. Id[a] < Id[b] /\ Id[b] < Id[c] /\ <<b, a>> \notin older /\ <<c, b>> \notin older
      BY <1>4, <3>3 DEF Before
    <3>5. <<c, a>> \notin older
      BY <3>3, <3>4 DEF Ordered
    <3> QED BY <1>1, <3>4, <3>5 DEF Before
  <2> QED BY <2>1, <2>2
<1> QED BY <1>2, <1>3, <1>4

(* The number of those ahead in a queue.                                   *)
LEMMA Queues ==
  ASSUME NEW Q \in SUBSET Sub
  PROVE  /\ IsFiniteSet(Q) /\ Cardinality(Q) \in Nat
         /\ \A s \in Sub : /\ Ahead(s, Q) \in SUBSET Q /\ IsFiniteSet(Ahead(s, Q))
                           /\ Cardinality(Ahead(s, Q)) \in Nat
<1>1. \A P \in SUBSET Sub : IsFiniteSet(P) /\ Cardinality(P) \in Nat
  BY SubAssumption, FS_Subset, FS_CardinalityType
<1>2. \A s \in Sub : Ahead(s, Q) \in SUBSET Q
  BY DEF Ahead
<1> QED BY <1>1, <1>2

LEMMA NobodyAhead ==
  ASSUME NEW Q \in SUBSET Sub, NEW s \in Sub
  PROVE  Ahead(s, Q) = {} <=> Cardinality(Ahead(s, Q)) = 0
<1>1. IsFiniteSet(Ahead(s, Q))
  BY Queues
<1> QED BY <1>1, FS_EmptySet

LEMMA FartherBack ==
  ASSUME Ordered, NEW Q \in SUBSET Sub, NEW a \in Sub, NEW b \in Sub, Before(a, b)
  PROVE  /\ Cardinality(Ahead(a, Q)) <= Cardinality(Ahead(b, Q))
         /\ a \in Q => Cardinality(Ahead(a, Q)) < Cardinality(Ahead(b, Q))
<1>1. Ahead(a, Q) \in SUBSET Ahead(b, Q)
  BY QueueOrder DEF Ahead
<1>2. a \in Q => a \in Ahead(b, Q) /\ a \notin Ahead(a, Q)
  BY QueueOrder DEF Ahead
<1>3. /\ IsFiniteSet(Ahead(b, Q)) /\ Cardinality(Ahead(b, Q)) \in Nat
      /\ Cardinality(Ahead(a, Q)) \in Nat
  BY Queues
<1>4. /\ Cardinality(Ahead(a, Q)) <= Cardinality(Ahead(b, Q))
      /\ Cardinality(Ahead(b, Q)) = Cardinality(Ahead(a, Q)) => Ahead(a, Q) = Ahead(b, Q)
  BY <1>1, <1>3, FS_Subset
<1> QED BY <1>2, <1>3, <1>4

(* Serving the first brings everyone behind it one place forward.          *)
LEMMA OnePlaceForward ==
  ASSUME Ordered, NEW Q \in SUBSET Sub, NEW s, IsFirst(s, Q), NEW d \in Sub
  PROVE  Cardinality(Ahead(d, Q \ {s})) =
           IF Ahead(d, Q) = {} THEN 0 ELSE Cardinality(Ahead(d, Q)) - 1
<1>1. Ahead(d, Q \ {s}) = Ahead(d, Q) \ {s}
  BY DEF Ahead
<1>2. CASE Ahead(d, Q) = {}
  BY <1>1, <1>2, FS_EmptySet
<1>3. CASE Ahead(d, Q) # {}
  <2>1. PICK q \in Ahead(d, Q) : TRUE
    BY <1>3
  <2>2. q \in Q /\ q \in Sub /\ s \in Sub /\ s \in Q /\ ~(s # q /\ Before(q, s))
    BY <2>1 DEF Ahead, IsFirst
  <2>3. q = s \/ Before(s, q)
    BY <2>2, QueueOrder
  <2>4. s \in Ahead(d, Q)
    BY <2>1, <2>2, <2>3, QueueOrder DEF Ahead
  <2>5. IsFiniteSet(Ahead(d, Q))
    BY Queues
  <2>6. Cardinality(Ahead(d, Q) \ {s}) = Cardinality(Ahead(d, Q)) - 1
    BY <2>4, <2>5, FS_RemoveElement
  <2> QED BY <1>1, <1>3, <2>6
<1> QED BY <1>2, <1>3

(* The first n of a queue are n at most.                                   *)
LEMMA FirstOfQueue ==
  ASSUME Ordered, NEW Q \in SUBSET Sub, NEW n \in Nat
  PROVE  Cardinality({m \in Q : Cardinality(Ahead(m, Q)) < n}) <= n
<1> DEFINE P == {m \in Q : Cardinality(Ahead(m, Q)) < n}
<1> DEFINE f == [m \in P |-> Cardinality(Ahead(m, Q))]
<1>1. ASSUME NEW m \in P PROVE Cardinality(Ahead(m, Q)) \in 0..(n - 1)
  <2>1. m \in Sub /\ Cardinality(Ahead(m, Q)) < n
    OBVIOUS
  <2>2. Cardinality(Ahead(m, Q)) \in Nat
    BY <2>1, Queues
  <2> QED BY <2>1, <2>2
<1>2. ASSUME NEW a \in P, NEW b \in P, a # b
      PROVE  Cardinality(Ahead(a, Q)) # Cardinality(Ahead(b, Q))
  <2>1. Before(a, b) \/ Before(b, a)
    BY <1>2, QueueOrder
  <2>2. Cardinality(Ahead(a, Q)) \in Nat /\ Cardinality(Ahead(b, Q)) \in Nat
    BY Queues
  <2> QED BY <2>1, <2>2, FartherBack
<1>3. f \in Injection(P, 0..(n - 1))
  BY <1>1, <1>2 DEF Injection, IsInjective
<1>4. IsFiniteSet(0..(n - 1)) /\ Cardinality(0..(n - 1)) = n
  BY FS_Interval
<1> HIDE DEF f, P
<1>5. Cardinality(P) <= n
  BY <1>3, <1>4, FS_Injection
<1> QED BY <1>5 DEF P

LEMMA QueuedInit == Init => Queued
  BY DEF Init, Queued, Ordered, Latest, Saved, InTurn, Walled

(* Outside the batches only the order can change, and only by a record.    *)
LEMMA QueuedElsewhere ==
  ASSUME Queued, pc' # "sending",
         UNCHANGED older,
         recorded' = {} \/ (recorded' = recorded /\ (pc # "recording" \/ pc' = "recording"))
  PROVE  Queued'
<1>1. Ordered'
  BY DEF Queued, Ordered
<1>2. Latest'
  BY DEF Queued, Latest
<1> QED BY <1>1, <1>2 DEF Queued, Saved, InTurn, Walled

(* A record sends its subscriber to the back, beside those of this flush.  *)
LEMMA QueuedRecord == ASSUME Sound, Queued, NEW s \in Sub, Record(s) PROVE Queued'
<1>1. /\ pc = "recording" /\ pc' = "recording"
      /\ recorded' = recorded \cup {s} /\ recorded \subseteq Sub
      /\ older' = {r \in older : r[1] # s} \cup ((Sub \ (recorded \cup {s})) \X {s})
      /\ older \subseteq Sub \X Sub
  BY DEF Record, Sound, TypeOK
<1>2. \A a, b \in Sub :
        <<a, b>> \in older' <=> \/ <<a, b>> \in older /\ a # s
                                \/ b = s /\ a \notin recorded /\ a # s
  BY <1>1
<1>3. /\ \A a, b \in Sub : <<a, b>> \in older => <<b, a>> \notin older
      /\ \A a, b, c \in Sub :
           <<a, b>> \in older => <<a, c>> \in older \/ <<c, b>> \in older
      /\ \A r \in recorded, t \in Sub :
           <<r, t>> \notin older /\ (t \notin recorded => <<t, r>> \in older)
  BY DEF Queued, Ordered, Latest
<1>4. Ordered'
  <2>1. ASSUME NEW a \in Sub, NEW b \in Sub, <<a, b>> \in older'
        PROVE  <<b, a>> \notin older'
    BY <1>1, <1>2, <1>3, <2>1
  <2>2. ASSUME NEW a \in Sub, NEW b \in Sub, NEW c \in Sub, <<a, b>> \in older'
        PROVE  <<a, c>> \in older' \/ <<c, b>> \in older'
    <3>1. a # s
      BY <1>2, <2>2
    <3>2. CASE b = s
      <4>1. a \notin recorded
        BY <1>2, <1>3, <2>2, <3>2
      <4> QED BY <1>2, <1>3, <3>1, <3>2, <4>1
    <3>3. CASE b # s
      BY <1>2, <1>3, <2>2, <3>1, <3>3
    <3> QED BY <3>2, <3>3
  <2> QED BY <2>1, <2>2 DEF Ordered
<1>5. Latest'
  <2> SUFFICES ASSUME NEW r \in recorded', NEW t \in Sub
               PROVE  /\ <<r, t>> \notin older'
                      /\ t \notin recorded' => <<t, r>> \in older'
    BY <1>1 DEF Latest
  <2> QED BY <1>1, <1>2, <1>3
<1> QED BY <1>1, <1>4, <1>5 DEF Queued, Saved, InTurn, Walled

LEMMA SavedLess ==
  ASSUME Sound, Sound', Saved, pc' = pc, sent' = sent, mailQ' \subseteq mailQ,
         usedDay' + others <= usedDay + others'
  PROVE  Saved'
<1> SUFFICES ASSUME pc = "sending", 0 < Headroom, mailQ' # {} \/ sent' \cap MailSub # {}
             PROVE  usedDay' + Cardinality(mailQ') + Headroom <= DayQuota + others'
  BY DEF Saved
<1>1. usedDay + Cardinality(mailQ) + Headroom <= DayQuota + others
  BY DEF Saved
<1>2. /\ mailQ \in SUBSET Sub /\ mailQ' \in SUBSET mailQ
      /\ usedDay \in Nat /\ usedDay' \in Nat /\ others \in Nat /\ others' \in Nat
      /\ DayQuota \in Nat /\ Headroom \in Nat
  BY QuotaAssumption DEF Sound, TypeOK, Sub
<1>3. /\ Cardinality(mailQ) \in Nat /\ Cardinality(mailQ') \in Nat
      /\ Cardinality(mailQ') <= Cardinality(mailQ)
  BY <1>2, Queues, FS_Subset
<1>4. \A u, o, r \in Nat :
        u + others <= usedDay + o /\ r <= Cardinality(mailQ)
          => u + r + Headroom <= DayQuota + o
  BY <1>1, <1>2, <1>3
<1>5. usedDay' + others <= usedDay + others'
  OBVIOUS
<1> QED BY <1>2, <1>3, <1>4, <1>5

(* A step of the world, or one that leaves digests behind: the queue loses *)
(* its rest, or an item that was refused.                                  *)
LEMMA QueuedLess ==
  ASSUME Sound, Sound', Queued,
         UNCHANGED <<pc, older, recorded, sent, passed, hourly, room>>,
         pushQ' \subseteq pushQ, mailQ' \subseteq mailQ,
         mailSt' = "open" => mailSt = "open",
         mailQ' = mailQ \/ mailQ' = {} \/ refused' = TRUE,
         refused' = refused \/ refused' = TRUE,
         usedDay' + others <= usedDay + others'
  PROVE  Queued'
<1>1. Ordered' /\ Latest'
  BY DEF Queued, Ordered, Latest
<1>2. Saved'
  BY SavedLess DEF Queued
<1>3. InTurn'
  <2>1. pc = "sending" =>
          /\ mailSt = "open" => passed \cap MailSub = {}
          /\ \A d \in sent \cap MailSub, q \in (mailQ \cup passed) \cap MailSub : ~Before(q, d)
    BY DEF Queued, InTurn
  <2>2. \A a, b \in Sub : Before(a, b)' <=> Before(a, b)
    BY DEF Before
  <2> QED BY <2>1, <2>2 DEF InTurn, Sub
<1>4. Walled'
  <2> SUFFICES ASSUME pc = "sending", hourly, ~refused, mailQ' = mailQ \/ mailQ' = {}
               PROVE  Walled'
    BY DEF Walled
  <2>1. \A a, b \in Sub : Before(a, b)' <=> Before(a, b)
    BY DEF Before
  <2>2. /\ \A p \in passed \cap AppSub, d \in pushQ' \cup sent : ~Before(p, d)
        /\ \A p \in passed \cap MailSub, d \in (pushQ' \cup sent) \cap AppSub : ~Before(p, d)
    BY DEF Queued, Walled
  <2>3. \A d \in Sub : Ahead(d, mailQ)' = Ahead(d, mailQ')
    BY DEF Ahead, Before
  <2>4. \A d \in Sub : Cardinality(Ahead(d, {})) = 0
    BY FS_EmptySet DEF Ahead
  <2>5. room \in Nat /\ passed \subseteq Sub /\ mailQ \subseteq Sub /\ pushQ \subseteq Sub /\ sent \subseteq Sub
    BY DEF Sound, TypeOK, Sub
  <2>6. \A p \in passed \cap AppSub, d \in mailQ' :
           Before(p, d) => room <= Cardinality(Ahead(d, mailQ'))
    BY DEF Queued, Walled
  <2>7. \A d \in (pushQ' \cup sent) \cap AppSub : Cardinality(Ahead(d, mailQ')) <= room
    <3>1. CASE mailQ' = mailQ
      BY <3>1 DEF Queued, Walled
    <3>2. CASE mailQ' = {}
      BY <3>2, <2>4, <2>5
    <3> QED BY <3>1, <3>2
  <2> QED BY <2>1, <2>2, <2>3, <2>5, <2>6, <2>7 DEF Walled
<1> QED BY <1>1, <1>2, <1>3, <1>4 DEF Queued

(* The tail that the spent quota leaves behind.                            *)
LEMMA QueuedMailDone == ASSUME Sound, Queued, MailDone PROVE Queued'
<1>1. /\ pc = "sending" /\ mailQ' = {} /\ passed' = passed \cup mailQ
      /\ mailQ = {} \/ room = 0
      /\ mailSt' = "done"
      /\ UNCHANGED <<pc, older, recorded, sent, hourly, refused, room, pushQ, usedDay, others>>
  BY DEF MailDone, Mailing, db, window, world, plan, push, outcome, ghosts
<1>2. /\ passed \subseteq Sub /\ mailQ \subseteq MailSub /\ pushQ \subseteq AppSub
      /\ sent \subseteq Sub /\ room \in Nat /\ MailSub \cap AppSub = {}
  BY SubAssumption DEF Sound, TypeOK
<1>3. \A a, b \in Sub : Before(a, b)' <=> Before(a, b)
  BY <1>1 DEF Before
<1>4. Ordered' /\ Latest'
  BY <1>1 DEF Queued, Ordered, Latest
<1>5. Saved'
  <2>1. Sound'
    BY SoundLeftBehind
  <2>2. usedDay' + others <= usedDay + others'
    BY <1>1 DEF Sound, TypeOK
  <2> QED BY <1>1, <2>1, <2>2, SavedLess DEF Queued
<1>6. InTurn'
  <2>1. \A d \in sent \cap MailSub, q \in (mailQ \cup passed) \cap MailSub : ~Before(q, d)
    BY <1>1 DEF Queued, InTurn
  <2> QED BY <1>1, <1>3, <2>1 DEF InTurn, Sub
<1>7. Walled'
  <2> SUFFICES ASSUME hourly, ~refused PROVE Walled'
    BY <1>1 DEF Walled
  <2>1. /\ \A p \in passed \cap AppSub, d \in pushQ \cup sent : ~Before(p, d)
        /\ \A p \in passed \cap MailSub, d \in (pushQ \cup sent) \cap AppSub : ~Before(p, d)
        /\ \A d \in (pushQ \cup sent) \cap AppSub : Cardinality(Ahead(d, mailQ)) <= room
    BY <1>1 DEF Queued, Walled
  <2>2. ASSUME NEW p \in mailQ, NEW d \in (pushQ \cup sent) \cap AppSub PROVE ~Before(p, d)
    <3>1. room = 0 /\ Cardinality(Ahead(d, mailQ)) <= 0
      BY <1>1, <2>1
    <3>2. mailQ \in SUBSET Sub /\ d \in Sub
      BY <1>2 DEF Sub
    <3>5. Cardinality(Ahead(d, mailQ)) \in Nat
      BY <3>2, Queues
    <3>6. Cardinality(Ahead(d, mailQ)) = 0
      BY <3>1, <3>5
    <3>3. Ahead(d, mailQ) = {}
      BY <3>2, <3>6, NobodyAhead
    <3>4. p # d
      BY <1>2
    <3> QED BY <3>3, <3>4 DEF Ahead
  <2>4. \A d \in Sub : Cardinality(Ahead(d, mailQ)') <= room
    <3>1. \A d \in Sub : Ahead(d, mailQ)' = {}
      BY <1>1 DEF Ahead
    <3> QED BY <1>2, <3>1, FS_EmptySet
  <2> QED BY <1>1, <1>2, <1>3, <2>1, <2>2, <2>4 DEF Walled, Sub
<1> QED BY <1>4, <1>5, <1>6, <1>7 DEF Queued

(* The first of the queue goes out: all others move one place forward.     *)
LEMMA QueuedMailAccept ==
  ASSUME Sound, Queued, NEW s \in MailSub, MailAccept(s) PROVE Queued'
<1>1. /\ pc = "sending" /\ IsFirst(s, mailQ) /\ 0 < room
      /\ mailQ' = mailQ \ {s} /\ sent' = sent \cup {s}
      /\ room' = room - 1 /\ usedDay' = usedDay + 1
      /\ mailSt = "open"
      /\ UNCHANGED <<pc, older, recorded, passed, hourly, refused, pushQ, others>>
  BY DEF MailAccept, Mailing, db, world, plan, push, wall
<1>2. /\ passed \subseteq Sub /\ mailQ \subseteq MailSub /\ pushQ \subseteq AppSub
      /\ sent \subseteq Sub /\ room \in Nat /\ MailSub \cap AppSub = {}
      /\ mailQ \in SUBSET Sub /\ s \in mailQ /\ s \in Sub /\ pushQ \subseteq Sub
  BY <1>1, SubAssumption DEF Sound, TypeOK, IsFirst, Sub
<1>3. \A a, b \in Sub : Before(a, b)' <=> Before(a, b)
  BY <1>1 DEF Before
<1>4. Ordered' /\ Latest'
  BY <1>1 DEF Queued, Ordered, Latest
<1>5. Ordered
  BY DEF Queued
<1>6. Saved'
  <2> SUFFICES ASSUME 0 < Headroom
               PROVE  usedDay' + Cardinality(mailQ') + Headroom <= DayQuota + others'
    BY DEF Saved
  <2>1. /\ usedDay \in Nat /\ others \in Nat /\ DayQuota \in Nat /\ Headroom \in Nat
    BY QuotaAssumption DEF Sound, TypeOK
  <2>2. Cardinality(mailQ) \in Nat /\ Cardinality(mailQ \ {s}) = Cardinality(mailQ) - 1
    BY <1>2, Queues, FS_RemoveElement
  <2>3. usedDay + Cardinality(mailQ) + Headroom <= DayQuota + others
    BY <1>1, <1>2 DEF Queued, Saved
  <2>4. usedDay + 1 + Cardinality(mailQ \ {s}) + Headroom <= DayQuota + others
    BY <2>1, <2>2, <2>3
  <2> QED BY <1>1, <2>4
<1>7. InTurn'
  <2>1. \A d \in sent \cap MailSub, q \in (mailQ \cup passed) \cap MailSub : ~Before(q, d)
    BY <1>1 DEF Queued, InTurn
  <2>2. \A q \in mailQ \ {s} : ~Before(q, s)
    BY <1>1 DEF IsFirst, Ahead
  <2>3. passed \cap MailSub = {}
    BY <1>1 DEF Queued, InTurn
  <2>4. \A d \in sent' \cap MailSub, q \in (mailQ' \cup passed') \cap MailSub : ~Before(q, d)
    BY <1>1, <1>2, <2>1, <2>2, <2>3
  <2> QED BY <1>1, <1>2, <1>3, <2>3, <2>4 DEF InTurn, Sub
<1>8. Walled'
  <2> SUFFICES ASSUME hourly, ~refused PROVE Walled'
    BY <1>1 DEF Walled
  <2>1. /\ \A p \in passed \cap AppSub, d \in pushQ \cup sent : ~Before(p, d)
        /\ \A p \in passed \cap AppSub, d \in mailQ :
             Before(p, d) => room <= Cardinality(Ahead(d, mailQ))
        /\ \A p \in passed \cap MailSub, d \in (pushQ \cup sent) \cap AppSub : ~Before(p, d)
        /\ \A d \in (pushQ \cup sent) \cap AppSub : Cardinality(Ahead(d, mailQ)) <= room
    BY <1>1 DEF Queued, Walled
  <2>2. ASSUME NEW d \in Sub
        PROVE  /\ Cardinality(Ahead(d, mailQ)) \in Nat
               /\ Cardinality(Ahead(d, mailQ \ {s})) =
                    IF Cardinality(Ahead(d, mailQ)) = 0 THEN 0
                    ELSE Cardinality(Ahead(d, mailQ)) - 1
    <3>1. Cardinality(Ahead(d, mailQ)) \in Nat
      BY <1>2, Queues
    <3>2. Ahead(d, mailQ) = {} <=> Cardinality(Ahead(d, mailQ)) = 0
      BY <1>2, NobodyAhead
    <3>3. Cardinality(Ahead(d, mailQ \ {s})) =
            IF Ahead(d, mailQ) = {} THEN 0 ELSE Cardinality(Ahead(d, mailQ)) - 1
      BY <1>1, <1>2, <1>5, OnePlaceForward
    <3> QED BY <3>1, <3>2, <3>3
  <2>7. \A d \in Sub : Ahead(d, mailQ)' = Ahead(d, mailQ \ {s})
    BY <1>1 DEF Ahead, Before
  <2>3. \A p \in passed \cap AppSub : ~Before(p, s)
    <3>1. Cardinality(Ahead(s, mailQ)) = 0
      BY <1>1, <1>2, NobodyAhead DEF IsFirst
    <3>2. ~(room <= Cardinality(Ahead(s, mailQ)))
      BY <1>1, <1>2, <3>1
    <3> QED BY <1>2, <2>1, <3>2
  <2>4. \A p \in passed \cap AppSub, d \in mailQ \ {s} :
             Before(p, d) => room - 1 <= Cardinality(Ahead(d, mailQ \ {s}))
    <3> SUFFICES ASSUME NEW p \in passed \cap AppSub, NEW d \in mailQ \ {s}, Before(p, d)
                 PROVE  room - 1 <= Cardinality(Ahead(d, mailQ \ {s}))
      OBVIOUS
    <3>1. room <= Cardinality(Ahead(d, mailQ))
      BY <2>1
    <3> DEFINE n == Cardinality(Ahead(d, mailQ))
               m == Cardinality(Ahead(d, mailQ \ {s}))
    <3>2. n \in Nat /\ m = IF n = 0 THEN 0 ELSE n - 1
      BY <1>2, <2>2
    <3> QED BY <1>1, <1>2, <3>1, <3>2
  <2>5. \A d \in (pushQ \cup sent) \cap AppSub : Cardinality(Ahead(d, mailQ \ {s})) <= room - 1
    <3> SUFFICES ASSUME NEW d \in (pushQ \cup sent) \cap AppSub
                 PROVE  Cardinality(Ahead(d, mailQ \ {s})) <= room - 1
      OBVIOUS
    <3> DEFINE n == Cardinality(Ahead(d, mailQ))
               m == Cardinality(Ahead(d, mailQ \ {s}))
    <3>1. n \in Nat /\ m = IF n = 0 THEN 0 ELSE n - 1
      BY <1>2, <2>2
    <3>2. n <= room
      BY <2>1
    <3> QED BY <1>1, <1>2, <3>1, <3>2
  <2>6. s \notin AppSub
    BY <1>2
  <2>8. \A p \in passed \cap AppSub, d \in pushQ \cup sent' : ~Before(p, d)
    BY <1>1, <2>1, <2>3
  <2>9. (pushQ \cup sent') \cap AppSub = (pushQ \cup sent) \cap AppSub
    BY <1>1, <2>6
  <2>10. (\A p \in passed \cap AppSub, d \in pushQ \cup sent : ~Before(p, d))'
    BY <1>1, <1>2, <1>3, <2>8
  <2>11. (\A p \in passed \cap AppSub, d \in mailQ :
            Before(p, d) => room <= Cardinality(Ahead(d, mailQ)))'
    BY <1>1, <1>2, <1>3, <2>4, <2>7
  <2>12. (\A p \in passed \cap MailSub, d \in (pushQ \cup sent) \cap AppSub : ~Before(p, d))'
    BY <1>1, <1>2, <1>3, <2>1, <2>9
  <2>13. (\A d \in (pushQ \cup sent) \cap AppSub : Cardinality(Ahead(d, mailQ)) <= room)'
    BY <1>1, <1>2, <2>5, <2>7, <2>9
  <2> QED BY <2>10, <2>11, <2>12, <2>13 DEF Walled
<1> QED BY <1>4, <1>6, <1>7, <1>8 DEF Queued

LEMMA QueuedPushAccept ==
  ASSUME Sound, Sound', Queued, NEW s \in AppSub, PushAccept(s) PROVE Queued'
<1>1. /\ pc = "sending" /\ s \in pushQ /\ sent' = sent \cup {s} /\ pushQ' = pushQ \ {s}
      /\ UNCHANGED <<pc, older, recorded, passed, hourly, refused, mailQ, room>>
      /\ UNCHANGED <<usedDay, others, mailSt>>
  BY DEF PushAccept, Pushing, db, window, world, plan, mail, wall
<1>2. s \notin MailSub /\ sent' \cap MailSub = sent \cap MailSub
      /\ pushQ' \cup sent' = pushQ \cup sent /\ s \in Sub
      /\ passed \subseteq Sub /\ sent \subseteq Sub /\ pushQ \subseteq Sub /\ mailQ \subseteq Sub
  BY <1>1, SubAssumption DEF Sub, Sound, TypeOK
<1>3. \A a, b \in Sub : Before(a, b)' <=> Before(a, b)
  BY <1>1 DEF Before
<1>4. Ordered' /\ Latest'
  BY <1>1 DEF Queued, Ordered, Latest
<1>5. Saved'
  BY <1>1, <1>2 DEF Queued, Saved
<1>6. InTurn'
  <2>1. /\ mailSt = "open" => passed \cap MailSub = {}
        /\ \A d \in sent \cap MailSub, q \in (mailQ \cup passed) \cap MailSub : ~Before(q, d)
    BY <1>1 DEF Queued, InTurn
  <2> QED BY <1>1, <1>2, <1>3, <2>1 DEF InTurn
<1>7. Walled'
  <2>1. \A d \in Sub : Ahead(d, mailQ)' = Ahead(d, mailQ)
    BY <1>1 DEF Ahead, Before
  <2> QED BY <1>1, <1>2, <1>3, <2>1 DEF Queued, Walled
<1> QED BY <1>4, <1>5, <1>6, <1>7 DEF Queued

(* What the two queue rules leave of a staged queue: the mails that fit    *)
(* the day less the headroom, which are the first of the queue, and the    *)
(* pushes that the room of the mails ahead of them does not hold up.       *)
LEMMA QueuedStage == ASSUME Sound, Queued, Stage PROVE Queued'
<1> DEFINE live == (Staged \cap MailSub) \ dead
           R == Less(daily_room, Headroom)
           held == BehindTheMailWall(Staged)
<1>1. /\ pc = "polling" /\ pc' = "sending" /\ mailSt' = "open"
      /\ mailQ' = live \ PastTheConfirmationHeadroom(Staged)
      /\ pushQ' = (Staged \cap AppSub) \ held
      /\ room' = pool_room /\ passed' = held /\ hourly' = (daily_room > pool_room)
      /\ UNCHANGED <<older, recorded, sent, usedDay, others, refused>>
  BY DEF Stage, db, window, outcome, ghosts
<1>2. sent = {} /\ sent' = {}
  BY <1>1 DEF Sound, Flow
<1>3. /\ Staged \subseteq Sub /\ live \in SUBSET Sub /\ held \subseteq AppSub
      /\ mailQ' \in SUBSET live /\ MailSub \cap AppSub = {} /\ AppSub \subseteq Sub
      /\ pool_room \in Nat /\ daily_room \in Nat /\ Headroom \in Nat /\ DayQuota \in Nat
      /\ usedDay \in Nat /\ others \in Nat
  <2>1. Staged \subseteq Sub /\ held \subseteq AppSub /\ mailQ' \in SUBSET live
    BY <1>1 DEF Staged, BehindTheMailWall, Sound, TypeOK
  <2>2. pool_room \in Nat /\ daily_room \in Nat /\ Headroom \in Nat /\ DayQuota \in Nat
        /\ usedDay \in Nat /\ others \in Nat
    BY QuotaAssumption, PoolRoom, Numbers DEF Sound, daily_room, Less
  <2> QED BY <2>1, <2>2, SubAssumption DEF Sub
<1>4. Ordered /\ Ordered' /\ Latest'
  BY <1>1 DEF Queued, Ordered, Latest
<1>5. \A a, b \in Sub : Before(a, b)' <=> Before(a, b)
  BY <1>1 DEF Before
<1>6. R \in Nat /\ (R = 0 \/ usedDay + R + Headroom = DayQuota)
  BY <1>3 DEF daily_room, Less
<1>7. mailQ' = IF Headroom = 0 THEN live ELSE {m \in live : Cardinality(Ahead(m, live)) < R}
  <2>1. CASE Headroom = 0
    BY <1>1, <2>1 DEF PastTheConfirmationHeadroom
  <2>2. CASE Headroom # 0
    <3>1. PastTheConfirmationHeadroom(Staged) = {m \in live : Cardinality(Ahead(m, live)) >= R}
      BY <2>2 DEF PastTheConfirmationHeadroom
    <3>2. \A m \in live : Cardinality(Ahead(m, live)) \in Nat
      BY <1>3, Queues
    <3> HIDE DEF live, R
    <3>3. \A m \in live :
            ~(Cardinality(Ahead(m, live)) >= R) <=> Cardinality(Ahead(m, live)) < R
      BY <1>6, <3>2
    <3> QED BY <1>1, <2>2, <3>1, <3>3
  <2> QED BY <2>1, <2>2
<1> HIDE DEF live, R
<1>8. Saved'
  <2> SUFFICES ASSUME 0 < Headroom, mailQ' # {}
               PROVE  usedDay + Cardinality(mailQ') + Headroom <= DayQuota + others
    BY <1>1, <1>2 DEF Saved
  <2>1. mailQ' = {m \in live : Cardinality(Ahead(m, live)) < R}
    BY <1>3, <1>7
  <2>2. PICK m \in mailQ' : TRUE
    OBVIOUS
  <2>3. R # 0
    <3>1. Cardinality(Ahead(m, live)) \in Nat /\ Cardinality(Ahead(m, live)) < R
      BY <1>3, <2>1, <2>2, Queues
    <3> QED BY <3>1
  <2>4. Cardinality(mailQ') <= R
    BY <1>3, <1>4, <1>6, <2>1, FirstOfQueue
  <2>5. Cardinality(mailQ') \in Nat
    BY <1>3, Queues
  <2>6. \A n \in Nat : n <= R => usedDay + n + Headroom <= DayQuota + others
    BY <1>3, <1>6, <2>3
  <2> QED BY <2>4, <2>5, <2>6
<1>9. InTurn'
  BY <1>1, <1>2, <1>3 DEF InTurn
<1>10. Walled'
  <2> SUFFICES ASSUME daily_room > pool_room PROVE Walled'
    BY <1>1 DEF Walled
  <2>1. \A p \in held : Cardinality(Ahead(p, live)) > pool_room
    BY DEF BehindTheMailWall, live
  <2>2. \A d \in pushQ' : ~(Cardinality(Ahead(d, live)) > pool_room)
    <3>1. CASE Staged \cap MailSub = {}
      <4>1. live = {}
        BY <3>1 DEF live
      <4>2. \A d \in Sub : Cardinality(Ahead(d, live)) = 0
        BY <4>1, FS_EmptySet DEF Ahead
      <4>3. ~(0 > pool_room) /\ pushQ' \subseteq Sub
        BY <1>1, <1>3
      <4> QED BY <4>2, <4>3
    <3>2. CASE Staged \cap MailSub # {}
      <4>1. ~(daily_room <= pool_room)
        BY <1>3
      <4>2. held = {p \in Staged \cap AppSub : Cardinality(Ahead(p, live)) > pool_room}
        BY <3>2, <4>1 DEF BehindTheMailWall, live
      <4> QED BY <1>1, <4>2
    <3> QED BY <3>1, <3>2
  <2>3. \A d \in Sub : /\ Cardinality(Ahead(d, live)) \in Nat
                       /\ Cardinality(Ahead(d, mailQ')) \in Nat
                       /\ Cardinality(Ahead(d, mailQ')) <= Cardinality(Ahead(d, live))
    <3> SUFFICES ASSUME NEW d \in Sub
                 PROVE  /\ Cardinality(Ahead(d, live)) \in Nat
                        /\ Cardinality(Ahead(d, mailQ')) \in Nat
                        /\ Cardinality(Ahead(d, mailQ')) <= Cardinality(Ahead(d, live))
      OBVIOUS
    <3>1. Ahead(d, mailQ') \in SUBSET Ahead(d, live) /\ mailQ' \in SUBSET Sub
      BY <1>3 DEF Ahead
    <3>2. IsFiniteSet(Ahead(d, live)) /\ Cardinality(Ahead(d, live)) \in Nat
          /\ Cardinality(Ahead(d, mailQ')) \in Nat
      BY <1>3, <3>1, Queues
    <3> QED BY <3>1, <3>2, FS_Subset
  <2>4. ASSUME NEW d \in mailQ' PROVE Ahead(d, mailQ') = Ahead(d, live)
    <3>1. CASE Headroom = 0
      BY <1>7, <3>1
    <3>2. CASE Headroom # 0
      <4>1. mailQ' = {m \in live : Cardinality(Ahead(m, live)) < R}
        BY <1>7, <3>2
      <4>2. ASSUME NEW t \in live, Before(t, d) PROVE t \in mailQ'
        <5>1. Cardinality(Ahead(t, live)) <= Cardinality(Ahead(d, live))
          BY <1>3, <1>4, <4>2, FartherBack
        <5>2. Cardinality(Ahead(d, live)) < R
          BY <4>1
        <5>3. Cardinality(Ahead(t, live)) \in Nat /\ Cardinality(Ahead(d, live)) \in Nat
          BY <1>3, <2>3
        <5>4. Cardinality(Ahead(t, live)) < R
          BY <1>6, <5>1, <5>2, <5>3
        <5> QED BY <4>1, <5>4
      <4> QED BY <1>3, <4>2 DEF Ahead
    <3> QED BY <3>1, <3>2
  <2>5. \A p \in held, d \in pushQ' : ~Before(p, d)
    <3> SUFFICES ASSUME NEW p \in held, NEW d \in pushQ', Before(p, d) PROVE FALSE
      OBVIOUS
    <3>1. p \in Sub /\ d \in Sub
      BY <1>1, <1>3
    <3>2. Cardinality(Ahead(p, live)) <= Cardinality(Ahead(d, live))
      BY <1>3, <1>4, <3>1, FartherBack
    <3>3. Cardinality(Ahead(p, live)) > pool_room /\ ~(Cardinality(Ahead(d, live)) > pool_room)
      BY <2>1, <2>2
    <3>4. Cardinality(Ahead(p, live)) \in Nat /\ Cardinality(Ahead(d, live)) \in Nat
      BY <2>3, <3>1
    <3> QED BY <1>3, <3>2, <3>3, <3>4
  <2>6. ASSUME NEW p \in held, NEW d \in mailQ', Before(p, d)
        PROVE  pool_room <= Cardinality(Ahead(d, mailQ'))
    <3>1. p \in Sub /\ d \in Sub
      BY <1>3
    <3>2. Cardinality(Ahead(p, live)) <= Cardinality(Ahead(d, live))
      BY <1>3, <1>4, <2>6, <3>1, FartherBack
    <3>3. Cardinality(Ahead(p, live)) > pool_room
      BY <2>1
    <3>4. Cardinality(Ahead(p, live)) \in Nat /\ Cardinality(Ahead(d, live)) \in Nat
      BY <2>3, <3>1
    <3>5. pool_room <= Cardinality(Ahead(d, live))
      BY <1>3, <3>2, <3>3, <3>4
    <3> QED BY <2>4, <3>5
  <2>7. ASSUME NEW d \in pushQ' PROVE Cardinality(Ahead(d, mailQ')) <= pool_room
    <3>1. d \in Sub
      BY <1>1, <1>3
    <3>2. ~(Cardinality(Ahead(d, live)) > pool_room)
      BY <2>2
    <3> QED BY <1>3, <2>3, <3>1, <3>2
  <2>8. \A d \in Sub : Ahead(d, mailQ)' = Ahead(d, mailQ')
    BY <1>1 DEF Ahead, Before
  <2>9. (\A p \in passed \cap AppSub, d \in pushQ \cup sent : ~Before(p, d))'
    BY <1>1, <1>2, <1>3, <1>5, <2>5
  <2>10. (\A p \in passed \cap AppSub, d \in mailQ :
            Before(p, d) => room <= Cardinality(Ahead(d, mailQ)))'
    BY <1>1, <1>3, <1>5, <2>6, <2>8
  <2>11. (\A p \in passed \cap MailSub, d \in (pushQ \cup sent) \cap AppSub : ~Before(p, d))'
    BY <1>1, <1>3
  <2>12. (\A d \in (pushQ \cup sent) \cap AppSub : Cardinality(Ahead(d, mailQ)) <= room)'
    BY <1>1, <1>2, <1>3, <2>7, <2>8
  <2> QED BY <2>9, <2>10, <2>11, <2>12 DEF Walled
<1> QED BY <1>4, <1>8, <1>9, <1>10 DEF Queued

LEMMA QueuedStep == Sound /\ Sound' /\ Queued /\ [Next]_vars => Queued'
<1> SUFFICES ASSUME Sound, Sound', Queued, [Next]_vars PROVE Queued'
  OBVIOUS
<1> USE DEF db, window, world, plan, mail, push, outcome, wall, memory, ghosts
<1>1. CASE World
  <2>1. /\ UNCHANGED <<pc, older, recorded, sent, passed, hourly, room, pushQ, mailQ, mailSt, refused>>
    BY <1>1 DEF World, SlotsChange, TurnOff, TurnOn, Erase, AddressTurns, OtherMail,
                HourFrees, DayFrees, Rested, PruneSeen
  <2>2. usedDay \in Nat /\ others \in Nat
    BY DEF Sound, TypeOK
  <2>3. \/ usedDay' = usedDay /\ others' = others
        \/ usedDay' = usedDay + 1 /\ others' = others + 1
        \/ usedDay' = usedDay - 1 /\ others' = others
    BY <1>1 DEF World, SlotsChange, TurnOff, TurnOn, Erase, AddressTurns, OtherMail,
                HourFrees, DayFrees, Rested, PruneSeen
  <2>4. usedDay' + others <= usedDay + others'
    BY <2>2, <2>3
  <2> QED BY <2>1, <2>4, QueuedLess
<1>2. CASE StartCycle \/ PollFails \/ NothingNew \/ JoinBatches \/ EndCycle
  BY <1>2, QueuedElsewhere DEF StartCycle, PollFails, NothingNew, JoinBatches, EndCycle, Forget
<1>3. CASE Stage
  BY <1>3, QueuedStage
<1>4. CASE MailOutage \/ MailRaises \/ \E s \in MailSub : MailRefuse(s)
  <2>1. /\ UNCHANGED <<pc, older, recorded, sent, passed, hourly, room, pushQ, usedDay, others>>
        /\ mailQ' \subseteq mailQ /\ (mailQ' = {} \/ refused' = TRUE)
        /\ refused' = refused \/ refused' = TRUE
        /\ mailSt' = "open" => mailSt = "open"
    BY <1>4 DEF MailOutage, MailRaises, MailRefuse, Mailing
  <2>2. usedDay' + others <= usedDay + others'
    BY <2>1 DEF Sound, TypeOK
  <2> QED BY <2>1, <2>2, QueuedLess
<1>5. CASE MailDone
  BY <1>5, QueuedMailDone
<1>6. ASSUME NEW s \in MailSub, MailAccept(s) PROVE Queued'
  BY <1>6, QueuedMailAccept
<1>7. ASSUME NEW s \in AppSub, PushAccept(s) PROVE Queued'
  BY <1>7, QueuedPushAccept
<1>8. CASE PushDone \/ PushRaises \/ (\E s \in AppSub : PushSkip(s)) \/ UNCHANGED vars
  <2>1. /\ UNCHANGED <<pc, older, recorded, sent, passed, hourly, room, mailQ, mailSt, refused>>
        /\ UNCHANGED <<usedDay, others>>
        /\ pushQ' \subseteq pushQ
    BY <1>8 DEF PushDone, PushRaises, PushSkip, vars
  <2>2. usedDay' + others <= usedDay + others'
    BY <2>1 DEF Sound, TypeOK
  <2> QED BY <2>1, <2>2, QueuedLess
<1>9. ASSUME NEW s \in Sub, Record(s) \/ RecordRaises(s) PROVE Queued'
  <2>1. CASE Record(s)
    BY <2>1, QueuedRecord
  <2>2. CASE RecordRaises(s)
    BY <2>2, QueuedElsewhere DEF RecordRaises, Forget
  <2> QED BY <1>9, <2>1, <2>2
<1>10. CASE Restart
  BY <1>10, QueuedElsewhere DEF Restart, Forget
<1> QED BY <1>1, <1>2, <1>3, <1>4, <1>5, <1>6, <1>7, <1>8, <1>9, <1>10
        DEF Next, Poller, Mail, Push

LEMMA AlwaysQueued == Spec => []Queued
<1> QED BY QueuedInit, QueuedStep, AlwaysSound, PTL DEF Spec

(* The digests leave the last mails of the day to confirmations.           *)
THEOREM HeadroomKeptHolds == Spec => []HeadroomKept
<1>1. Sound /\ Queued => HeadroomKept
  <2> SUFFICES ASSUME Sound, Queued, pc = "sending", sent \cap MailSub # {}
               PROVE  usedDay + Headroom <= DayQuota + others
    BY DEF HeadroomKept
  <2>1. /\ usedDay \in Nat /\ room \in Nat /\ others \in Nat
        /\ DayQuota \in Nat /\ Headroom \in Nat
    BY Numbers, QuotaAssumption DEF Sound
  <2>2. CASE Headroom = 0
    BY <2>1, <2>2 DEF Sound, Rooms
  <2>3. CASE 0 < Headroom
    <3>1. usedDay + Cardinality(mailQ) + Headroom <= DayQuota + others
      BY <2>3 DEF Queued, Saved
    <3>2. mailQ \in SUBSET Sub
      BY DEF Sound, TypeOK, Sub
    <3>3. Cardinality(mailQ) \in Nat
      BY <3>2, Queues
    <3> QED BY <2>1, <3>1, <3>3
  <2> QED BY <2>1, <2>2, <2>3
<1> QED BY <1>1, AlwaysSound, AlwaysQueued, PTL

(* One queue over both channels, and one wall: whoever the quota passes    *)
(* over stands behind everyone served.                                     *)
THEOREM OneQueueOneWallHolds == Spec => []OneQueueOneWall
<1>1. Sound /\ Queued => OneQueueOneWall
  <2> SUFFICES ASSUME Sound, Queued, pc = "sending",
                      NEW p \in passed, NEW d \in sent,
                      {p, d} \subseteq MailSub \/ (hourly /\ ~refused)
               PROVE  ~Before(p, d)
    BY DEF OneQueueOneWall
  <2>1. p \in Sub /\ d \in Sub
    BY DEF Sound, TypeOK
  <2>2. CASE {p, d} \subseteq MailSub
    BY <2>2 DEF Queued, InTurn
  <2>3. CASE hourly /\ ~refused /\ p \in AppSub
    BY <2>3 DEF Queued, Walled
  <2>4. CASE hourly /\ ~refused /\ p \in MailSub /\ d \in AppSub
    BY <2>4 DEF Queued, Walled
  <2> QED BY <2>1, <2>2, <2>3, <2>4 DEF Sub
<1> QED BY <1>1, AlwaysSound, AlwaysQueued, PTL

-----------------------------------------------------------------------------
(* What the cycle stages: PollCycle, for any slots, horizon and threshold. *)
(* Its state shares no name with DigestDelivery's; its actions are those   *)
(* of the instance Polls.                                                  *)
Polls == INSTANCE PollCycle

LEMMA PollAssumptions ==
  /\ Times \subseteq Nat /\ IsFiniteSet(Times)
  /\ Horizon \in Nat \ {0} /\ Threshold \in Nat \ {0}
  /\ {Never, Unknown} \cap Nat = {} /\ Never # Unknown
BY TimesAssumption, BoundAssumption, NeverAssumption

(* The instance says of the state what PollState says of it.               *)
LEMMA SameDay ==
  /\ Polls!RecordIsTheBest <=> RecordIsTheBest
  /\ Polls!DigestIsTheNews <=> DigestIsTheNews
<1>1. \A S : Polls!Cardinality(S) = Cardinality(S)
  BY DEF Polls!Cardinality, Cardinality
<1>2. Polls!Reach = Reach
  BY <1>1 DEF Polls!Reach, Reach
<1> QED
  BY <1>2 DEF Polls!RecordIsTheBest, RecordIsTheBest, Polls!DigestIsTheNews, DigestIsTheNews

(* A day's slots have a soonest one.                                       *)
LEMMA LeastOfTimes ==
  ASSUME NEW S \in SUBSET Times, S # {}
  PROVE  Polls!Least(S) \in S /\ \A u \in S : Polls!Least(S) <= u
<1> DEFINE Below == {ss \in Nat \X Nat : ss[1] < ss[2]}
<1>1. \E t \in S : \A u \in S : t <= u
  <2>1. IsWellFoundedOn(Below, Nat)
    BY NatLessThanWellFounded, Zenon DEF OpToRel
  <2>2. S \in SUBSET Nat
    BY PollAssumptions
  <2> HIDE DEF Below
  <2>3. PICK t \in S : \A u \in S : ~(<<u, t>> \in Below)
    BY <2>1, <2>2, WFMin
  <2>4. \A u \in S : u \in Nat /\ t \in Nat /\ ~(u < t)
    BY <2>2, <2>3 DEF Below
  <2>5. \A u \in S : t <= u
    BY <2>4
  <2> QED BY <2>5
<1> QED BY <1>1 DEF Polls!Least

(* The state keeps its type.                                               *)
THEOREM PollTypes == Polls!Spec => []Polls!TypeOK
<1>0. Polls!Resting \in Polls!Cycle /\ [Polls!Resting EXCEPT !.at = "over"] \in Polls!Cycle
  BY DEF Polls!Resting, Polls!Cycle
<1>1. Polls!Init => Polls!TypeOK
  BY <1>0, PollAssumptions DEF Polls!Init, Polls!TypeOK, Polls!Age
<1>2. Polls!TypeOK /\ [Polls!Next]_Polls!pollVars => Polls!TypeOK'
  <2> SUFFICES ASSUME Polls!TypeOK, [Polls!Next]_Polls!pollVars PROVE Polls!TypeOK'
      OBVIOUS
  <2> USE PollAssumptions DEF Polls!TypeOK, Polls!Age,
             Polls!cityVars, Polls!seenVars
  <2>1. Polls!World => Polls!TypeOK'
    BY DEF Polls!World, Polls!SlotsChange, Polls!Unwatch, Polls!Watch
  <2>2. Polls!Tick => Polls!TypeOK'
    BY DEF Polls!Tick, Polls!Passed
  <2>3. Polls!Poll => Polls!TypeOK'
    <3> SUFFICES ASSUME Polls!Poll PROVE Polls!TypeOK'
        OBVIOUS
    <3>1. cycle' \in Polls!Cycle
      <4>1. PICK failed \in BOOLEAN, S \in SUBSET site :
                /\ ~failed => S = site
                /\ cycle' = [Polls!Resting EXCEPT !.at = "polled", !.slots = S,
                                                  !.failed = failed, !.truth = site]
        BY Zenon DEF Polls!Poll
      <4>2. S \in SUBSET Times /\ site \in SUBSET Times
        OBVIOUS
      <4> QED BY <4>1, <4>2 DEF Polls!Cycle, Polls!Resting
    <3> QED BY <3>1 DEF Polls!Poll
  <2>4. Polls!Count => Polls!TypeOK'
    <3> SUFFICES ASSUME Polls!Count PROVE Polls!TypeOK'
        OBVIOUS
    <3>1. cycle' \in Polls!Cycle
      BY DEF Polls!Count, Polls!Cycle
    <3> QED BY <3>1 DEF Polls!Count, Polls!Since
  <2>5. Polls!Shoot => Polls!TypeOK'
    <3> SUFFICES ASSUME Polls!Shoot PROVE Polls!TypeOK'
        OBVIOUS
    <3>1. cycle' \in Polls!Cycle /\ cycle.slots \in SUBSET Times
      BY DEF Polls!Shoot, Polls!Cycle
    <3> QED BY <3>1 DEF Polls!Shoot
  <2>6. Polls!Stage => Polls!TypeOK'
    <3> SUFFICES ASSUME Polls!Stage PROVE Polls!TypeOK'
        OBVIOUS
    <3>1. cycle' \in Polls!Cycle
      <4>1. PICK held \in BOOLEAN :
                cycle' = [cycle EXCEPT !.at = "staged", !.held = held,
                     !.digest = IF held THEN {} ELSE {t \in Polls!Reach : ~Polls!Seen(t)}]
        BY Zenon DEF Polls!Stage
      <4> DEFINE D == IF held THEN {} ELSE {t \in Polls!Reach : ~Polls!Seen(t)}
      <4>2. D \in SUBSET Times
        BY DEF Polls!Cycle, Polls!Reach
      <4>3. cycle' = [cycle EXCEPT !.at = "staged", !.held = held, !.digest = D]
        BY <4>1
      <4> HIDE DEF D
      <4> QED BY <4>2, <4>3 DEF Polls!Cycle
    <3> QED BY <3>1 DEF Polls!Stage
  <2>7. Polls!Flush => Polls!TypeOK'
    <3> SUFFICES ASSUME Polls!Flush PROVE Polls!TypeOK'
        OBVIOUS
    <3>1. cycle.digest \in SUBSET Times
      BY DEF Polls!Cycle
    <3>2. best' \in Times \cup {Unknown, Never}
      <4>1. CASE best' = best
        BY <4>1
      <4>2. CASE cycle.digest # {} /\ best' = Polls!Recorded(best, cycle.digest)
        <5>1. CASE best = Unknown
          BY <4>2, <5>1 DEF Polls!Recorded
        <5>2. CASE best # Unknown
          <6> DEFINE D == IF best = Never THEN cycle.digest ELSE cycle.digest \cup {best}
          <6>1. D \in SUBSET Times /\ D # {}
            BY <3>1, <4>2, <5>2
          <6>2. best' = Polls!Least(D)
            BY <4>2, <5>2 DEF Polls!Recorded
          <6> HIDE DEF D
          <6> QED BY <6>1, <6>2, LeastOfTimes
        <5> QED BY <5>1, <5>2
      <4> QED BY <4>1, <4>2 DEF Polls!Flush
    <3>3. cycle' \in Polls!Cycle
      BY DEF Polls!Flush, Polls!Cycle, Polls!Resting
    <3> QED BY <3>1, <3>2, <3>3 DEF Polls!Flush
  <2>8. Polls!Skip \/ Polls!Restart => Polls!TypeOK'
    BY <1>0 DEF Polls!Skip, Polls!Restart
  <2>9. ASSUME NEW inHours \in BOOLEAN, NEW peers \in BOOLEAN, Polls!Canary(inHours, peers)
        PROVE  Polls!TypeOK'
    BY <1>0, <2>9 DEF Polls!Canary, Polls!Kept
  <2>10. Polls!PruneSeen \/ Polls!PruneSnapshot => Polls!TypeOK'
    BY DEF Polls!PruneSeen, Polls!PruneSnapshot
  <2>11. UNCHANGED Polls!pollVars => Polls!TypeOK'
    BY DEF Polls!pollVars
  <2> QED
    BY <2>1, <2>2, <2>3, <2>4, <2>5, <2>6, <2>7, <2>8, <2>9, <2>10, <2>11
       DEF Polls!Next, Polls!Run
<1> QED BY <1>1, <1>2, PTL DEF Polls!Spec

(* A step is one of a cycle, or leaves the cycle, the record and the       *)
(* snapshot's source alone, or ends the cycle.                             *)
LEMMA PollSteps ==
  ASSUME [Polls!Next]_Polls!pollVars
  PROVE  \/ cycle' = cycle /\ best' = best /\ heard' = heard
         \/ cycle.at = "idle" /\ cycle' = cycle /\ best' = Never /\ heard' = {}
         \/ cycle'.at \in {"idle", "over"} /\ best' = best /\ heard' = heard
         \/ Polls!Run
<1> USE DEF Polls!cityVars, Polls!seenVars
<1>1. Polls!World \/ Polls!Tick \/ Polls!PruneSeen \/ Polls!PruneSnapshot
        => \/ cycle' = cycle /\ best' = best /\ heard' = heard
           \/ cycle.at = "idle" /\ cycle' = cycle /\ best' = Never /\ heard' = {}
  BY DEF Polls!World, Polls!SlotsChange, Polls!Unwatch, Polls!Watch, Polls!Tick,
         Polls!PruneSeen, Polls!PruneSnapshot
<1>2. Polls!Skip \/ Polls!Restart
        => cycle'.at \in {"idle", "over"} /\ best' = best /\ heard' = heard
  BY DEF Polls!Skip, Polls!Restart, Polls!Resting
<1>3. ASSUME NEW inHours \in BOOLEAN, NEW peers \in BOOLEAN, Polls!Canary(inHours, peers)
      PROVE  cycle'.at \in {"idle", "over"} /\ best' = best /\ heard' = heard
  BY <1>3 DEF Polls!Canary, Polls!Resting
<1>4. UNCHANGED Polls!pollVars => cycle' = cycle /\ best' = best /\ heard' = heard
  BY DEF Polls!pollVars
<1> QED BY <1>1, <1>2, <1>3, <1>4 DEF Polls!Next

(* While nothing is on record for the day nothing was told of it; and the  *)
(* record is the best time that was.                                       *)
Remembered == (best = Never => heard = {}) /\ Polls!RecordIsTheBest

LEMMA RememberedFlush ==
  ASSUME Polls!TypeOK, Remembered, Polls!Flush
  PROVE  Remembered'
<1>1. CASE best' = best /\ heard' = heard
  BY <1>1 DEF Remembered, Polls!RecordIsTheBest
<1>2. CASE cycle.digest # {} /\ best' = Polls!Recorded(best, cycle.digest)
           /\ heard' = heard \cup cycle.digest
  <2>1. cycle.digest \in SUBSET Times /\ heard \in SUBSET Times
    BY DEF Polls!TypeOK, Polls!Cycle
  <2>2. CASE best = Unknown
    <3>1. best' = Unknown /\ Unknown \notin Times /\ Unknown # Never
      BY <1>2, <2>2, PollAssumptions DEF Polls!Recorded
    <3> QED BY <3>1 DEF Remembered, Polls!RecordIsTheBest
  <2>3. CASE best # Unknown
    <3> DEFINE D == IF best = Never THEN cycle.digest ELSE cycle.digest \cup {best}
    <3>1. D \in SUBSET Times /\ D # {}
      BY <1>2, <2>1, <2>3 DEF Polls!TypeOK
    <3>2. best' = Polls!Least(D)
      BY <1>2, <2>3 DEF Polls!Recorded
    <3>3. best' \in D /\ \A u \in D : best' <= u
      <4> HIDE DEF D
      <4> QED BY <3>1, <3>2, LeastOfTimes
    <3>4. best' # Never
      BY <3>1, <3>3, PollAssumptions
    <3>5. best' \in heard'
      BY <1>2, <2>3, <3>3 DEF Remembered, Polls!RecordIsTheBest, Polls!TypeOK
    <3>6. ASSUME NEW u \in heard'
          PROVE  best' <= u
      <4>1. CASE u \in cycle.digest
        BY <3>3, <4>1
      <4>2. CASE u \in heard
        <5>1. best \in Times /\ best <= u
          BY <2>3, <4>2 DEF Remembered, Polls!RecordIsTheBest, Polls!TypeOK
        <5>2. best # Never
          BY <5>1, PollAssumptions
        <5>3. best' <= best
          BY <3>3, <5>2
        <5>4. best' \in Nat /\ best \in Nat /\ u \in Nat
          BY <2>1, <3>1, <3>3, <4>2, <5>1, PollAssumptions
        <5> QED BY <5>1, <5>3, <5>4
      <4> QED BY <1>2, <4>1, <4>2
    <3> QED BY <3>4, <3>5, <3>6 DEF Remembered, Polls!RecordIsTheBest
  <2> QED BY <2>2, <2>3
<1> QED BY <1>1, <1>2 DEF Polls!Flush, Polls!seenVars

LEMMA AlwaysRemembered == Polls!Spec => []Remembered
<1>1. Polls!Init => Remembered
  BY PollAssumptions DEF Polls!Init, Remembered, Polls!RecordIsTheBest
<1>2. Polls!TypeOK /\ Remembered /\ [Polls!Next]_Polls!pollVars => Remembered'
  <2> SUFFICES ASSUME Polls!TypeOK, Remembered, [Polls!Next]_Polls!pollVars PROVE Remembered'
      OBVIOUS
  <2>1. best' = best /\ heard' = heard => Remembered'
    BY DEF Remembered, Polls!RecordIsTheBest
  <2>2. best' = Never /\ heard' = {} => Remembered'
    BY PollAssumptions DEF Remembered, Polls!RecordIsTheBest
  <2>3. Polls!Run => Remembered'
    <3>1. Polls!Poll => best' = best /\ heard' = heard
      BY DEF Polls!Poll, Polls!seenVars
    <3>2. Polls!Count => best' = best /\ heard' = heard
      BY DEF Polls!Count, Polls!seenVars
    <3>3. Polls!Shoot => best' = best /\ heard' = heard
      BY DEF Polls!Shoot, Polls!seenVars
    <3>4. Polls!Stage => best' = best /\ heard' = heard
      BY DEF Polls!Stage, Polls!seenVars
    <3> QED BY <2>1, <3>1, <3>2, <3>3, <3>4, RememberedFlush DEF Polls!Run
  <2> QED BY <2>1, <2>2, <2>3, PollSteps
<1> QED BY <1>1, <1>2, PollTypes, PTL DEF Polls!Spec

(* For any slots, and whatever is cancelled, pruned or taken anew: the     *)
(* record of a day is the earliest time that was told.                     *)
THEOREM RecordIsTheBestHolds == Polls!Spec => []RecordIsTheBest
<1>1. Remembered => Polls!RecordIsTheBest
  BY DEF Remembered
<1> QED BY <1>1, SameDay, AlwaysRemembered, PTL

(* And for any horizon: the digest of a day is the news in reach, no less  *)
(* and no more.                                                            *)
THEOREM DigestIsTheNewsHolds == Polls!Spec => []DigestIsTheNews
<1>1. Polls!Init => Polls!DigestIsTheNews
  BY DEF Polls!Init, Polls!Resting, Polls!DigestIsTheNews
<1>2. Polls!TypeOK /\ Remembered /\ Polls!DigestIsTheNews /\ [Polls!Next]_Polls!pollVars
        => Polls!DigestIsTheNews'
  <2> SUFFICES ASSUME Polls!TypeOK, Remembered, Polls!DigestIsTheNews,
                      [Polls!Next]_Polls!pollVars
               PROVE  Polls!DigestIsTheNews'
      OBVIOUS
  <2>1. cycle' = cycle /\ best' = best /\ heard' = heard => Polls!DigestIsTheNews'
    BY DEF Polls!DigestIsTheNews, Polls!Reach
  <2>2. cycle'.at # "staged" => Polls!DigestIsTheNews'
    BY DEF Polls!DigestIsTheNews
  <2>3. ASSUME Polls!Stage
        PROVE  Polls!DigestIsTheNews'
    <3> DEFINE News == {t \in Polls!Reach : ~Polls!Seen(t)}
    <3>1. PICK held \in BOOLEAN :
            cycle' = [cycle EXCEPT !.at = "staged", !.held = held,
                          !.digest = IF held THEN {} ELSE News]
      BY <2>3, Zenon DEF Polls!Stage
    <3>2. best' = best /\ heard' = heard
      BY <2>3 DEF Polls!Stage, Polls!seenVars
    <3>3. cycle'.slots = cycle.slots /\ cycle'.held = held
          /\ (~held => cycle'.digest = News)
      <4> HIDE DEF News
      <4> QED BY <3>1 DEF Polls!TypeOK, Polls!Cycle
    <3>4. Polls!Reach' = Polls!Reach /\ Polls!Reach \in SUBSET Times
      BY <3>3 DEF Polls!Reach, Polls!TypeOK, Polls!Cycle
    <3>5. ASSUME best # Unknown, NEW t \in Polls!Reach
          PROVE  ~Polls!Seen(t) <=> \A u \in heard : t < u
      <4>1. t \in Nat /\ \A u \in heard : u \in Nat
        BY <3>4, PollAssumptions DEF Polls!TypeOK
      <4>2. CASE best = Never
        BY <4>2 DEF Remembered, Polls!Seen
      <4>3. CASE best # Never
        <5>1. best \in heard /\ \A u \in heard : best <= u
          BY <3>5, <4>3 DEF Remembered, Polls!RecordIsTheBest, Polls!TypeOK
        <5>2. Polls!Seen(t) <=> t >= best
          BY <3>5, <4>3 DEF Polls!Seen
        <5> QED BY <4>1, <5>1, <5>2
      <4> QED BY <4>2, <4>3
    <3>6. best # Unknown => News = {t \in Polls!Reach : \A u \in heard : t < u}
      BY <3>5
    <3> HIDE DEF News
    <3> QED BY <3>2, <3>3, <3>4, <3>6 DEF Polls!DigestIsTheNews
  <2>4. Polls!Run => Polls!DigestIsTheNews'
    <3>1. Polls!Poll => cycle'.at # "staged"
      <4> SUFFICES ASSUME Polls!Poll PROVE cycle'.at # "staged"
          OBVIOUS
      <4>1. PICK failed \in BOOLEAN, S \in SUBSET site :
                /\ ~failed => S = site
                /\ cycle' = [Polls!Resting EXCEPT !.at = "polled", !.slots = S,
                                                  !.failed = failed, !.truth = site]
        BY Zenon DEF Polls!Poll
      <4>2. cycle'.at = "polled"
        BY <4>1 DEF Polls!Resting
      <4> QED BY <4>2
    <3>2. Polls!Count => cycle'.at # "staged"
      BY DEF Polls!Count, Polls!TypeOK, Polls!Cycle
    <3>3. Polls!Shoot => cycle'.at # "staged"
      BY DEF Polls!Shoot, Polls!TypeOK, Polls!Cycle
    <3>4. Polls!Flush => cycle'.at # "staged"
      BY DEF Polls!Flush, Polls!Resting
    <3> QED BY <2>2, <2>3, <3>1, <3>2, <3>3, <3>4 DEF Polls!Run
  <2> QED BY <2>1, <2>2, <2>4, PollSteps
<1> QED BY <1>1, <1>2, PollTypes, SameDay, AlwaysRemembered, PTL DEF Polls!Spec

(* Until the snapshot is taken, what polls that all got through brought is *)
(* what the site had.                                                      *)
Brought == cycle.at \in {"polled", "counted"} /\ ~cycle.failed => cycle.slots = cycle.truth

LEMMA AlwaysBrought == Polls!Spec => []Brought
<1>1. Polls!Init => Brought
  BY DEF Polls!Init, Polls!Resting, Brought
<1>2. Polls!TypeOK /\ Brought /\ [Polls!Next]_Polls!pollVars => Brought'
  <2> SUFFICES ASSUME Polls!TypeOK, Brought, [Polls!Next]_Polls!pollVars PROVE Brought'
      OBVIOUS
  <2>1. cycle' = cycle => Brought'
    BY DEF Brought
  <2>2. cycle'.at \notin {"polled", "counted"} => Brought'
    BY DEF Brought
  <2>3. Polls!Poll => Brought'
    <3> SUFFICES ASSUME Polls!Poll PROVE Brought'
        OBVIOUS
    <3>1. PICK failed \in BOOLEAN, S \in SUBSET site :
             /\ ~failed => S = site
             /\ cycle' = [Polls!Resting EXCEPT !.at = "polled", !.slots = S,
                                               !.failed = failed, !.truth = site]
      BY Zenon DEF Polls!Poll
    <3>2. cycle'.failed = failed /\ cycle'.slots = S /\ cycle'.truth = site
      BY <3>1 DEF Polls!Resting
    <3> QED BY <3>1, <3>2 DEF Brought
  <2>4. Polls!Count => Brought'
    <3> SUFFICES ASSUME Polls!Count PROVE Brought'
        OBVIOUS
    <3>1. /\ cycle.at = "polled" /\ cycle'.failed = cycle.failed
          /\ cycle'.slots = cycle.slots /\ cycle'.truth = cycle.truth
      BY DEF Polls!Count, Polls!TypeOK, Polls!Cycle
    <3> QED BY <3>1 DEF Brought
  <2>5. Polls!Shoot => cycle'.at \notin {"polled", "counted"}
    BY DEF Polls!Shoot, Polls!TypeOK, Polls!Cycle
  <2>6. Polls!Stage => cycle'.at \notin {"polled", "counted"}
    <3> SUFFICES ASSUME Polls!Stage PROVE cycle'.at \notin {"polled", "counted"}
        OBVIOUS
    <3> DEFINE News == {t \in Polls!Reach : ~Polls!Seen(t)}
    <3>1. PICK held \in BOOLEAN :
            cycle' = [cycle EXCEPT !.at = "staged", !.held = held,
                          !.digest = IF held THEN {} ELSE News]
      BY Zenon DEF Polls!Stage
    <3>2. cycle'.at = "staged"
      <4> HIDE DEF News
      <4> QED BY <3>1 DEF Polls!TypeOK, Polls!Cycle
    <3> QED BY <3>2
  <2>7. Polls!Flush => cycle'.at \notin {"polled", "counted"}
    BY DEF Polls!Flush, Polls!Resting
  <2> QED BY <2>1, <2>2, <2>3, <2>4, <2>5, <2>6, <2>7, PollSteps DEF Polls!Run
<1> QED BY <1>1, <1>2, PollTypes, PTL DEF Polls!Spec

(* However the polls of a cycle fail: the snapshot is all that the site    *)
(* had, or the one before.                                                 *)
THEOREM SnapshotIsWholeHolds == Polls!Spec => SnapshotIsWhole
<1>1. Brought /\ [Polls!Next]_Polls!pollVars
        => [snapshot' \in {snapshot, Never, cycle.truth}]_Polls!pollVars
  <2> SUFFICES ASSUME Brought, Polls!Next
               PROVE  snapshot' \in {snapshot, Never, cycle.truth}
      OBVIOUS
  <2>1. Polls!Shoot => snapshot' \in {snapshot, cycle.truth}
    BY DEF Polls!Shoot, Polls!Whole, Brought
  <2>2. Polls!Poll \/ Polls!Count \/ Polls!Flush => snapshot' = snapshot
    <3>1. Polls!Poll => snapshot' = snapshot
      BY Zenon DEF Polls!Poll
    <3> QED BY <3>1 DEF Polls!Count, Polls!Flush
  <2>3. Polls!Stage => snapshot' = snapshot
    BY Zenon DEF Polls!Stage
  <2>4. Polls!World \/ Polls!Tick \/ Polls!Skip \/ Polls!Restart \/ Polls!PruneSeen
          => snapshot' = snapshot
    BY DEF Polls!World, Polls!SlotsChange, Polls!Unwatch, Polls!Watch, Polls!Tick,
           Polls!Skip, Polls!Restart, Polls!PruneSeen
  <2>5. ASSUME NEW inHours \in BOOLEAN, NEW peers \in BOOLEAN, Polls!Canary(inHours, peers)
        PROVE  snapshot' = snapshot
    BY <2>5 DEF Polls!Canary
  <2>6. Polls!PruneSnapshot => snapshot' = Never
    BY DEF Polls!PruneSnapshot
  <2> QED BY <2>1, <2>2, <2>3, <2>4, <2>5, <2>6 DEF Polls!Next, Polls!Run
<1> QED BY <1>1, AlwaysBrought, PTL DEF Polls!Spec, Polls!pollVars, SnapshotIsWhole, pollVars

(* A mark is no older than what it stands for.                             *)
Earned == /\ zero # Never => zero <= shown
          /\ failing # Never => failing <= good

LEMMA AlwaysEarned == Polls!Spec => []Earned
<1>1. Polls!Init => Earned
  BY DEF Polls!Init, Earned
<1>2. Polls!TypeOK /\ Earned /\ [Polls!Next]_Polls!pollVars => Earned'
  <2> SUFFICES ASSUME Polls!TypeOK, Earned, [Polls!Next]_Polls!pollVars PROVE Earned'
      OBVIOUS
  <2>0. /\ zero \in 0..Threshold \cup {Never} /\ failing \in 0..Threshold \cup {Never}
        /\ good \in 0..Threshold /\ shown \in 0..Threshold /\ Threshold \in Nat
        /\ Never \notin Nat
    BY PollAssumptions DEF Polls!TypeOK, Polls!Age
  <2>1. UNCHANGED Polls!cityVars => Earned'
    BY DEF Earned, Polls!cityVars
  <2>2. Polls!Tick => Earned'
    BY <2>0 DEF Earned, Polls!Tick, Polls!Passed
  <2>3. Polls!Count => Earned'
    BY <2>0 DEF Earned, Polls!Count, Polls!Since
  <2>4. ASSUME NEW inHours \in BOOLEAN, NEW peers \in BOOLEAN, Polls!Canary(inHours, peers)
        PROVE  Earned'
    BY <2>0, <2>4 DEF Earned, Polls!Canary, Polls!Kept
  <2>5. Polls!World \/ Polls!Skip \/ Polls!Restart \/ Polls!PruneSeen \/ Polls!PruneSnapshot
          => UNCHANGED Polls!cityVars
    BY DEF Polls!World, Polls!SlotsChange, Polls!Unwatch, Polls!Watch,
           Polls!Skip, Polls!Restart, Polls!PruneSeen, Polls!PruneSnapshot
  <2>6. Polls!Poll \/ Polls!Shoot \/ Polls!Flush \/ Polls!Stage => UNCHANGED Polls!cityVars
    <3>1. Polls!Stage => UNCHANGED Polls!cityVars
      BY Zenon DEF Polls!Stage
    <3>2. Polls!Poll => UNCHANGED Polls!cityVars
      BY Zenon DEF Polls!Poll
    <3> QED BY <3>1, <3>2 DEF Polls!Shoot, Polls!Flush
  <2>7. UNCHANGED Polls!pollVars => UNCHANGED Polls!cityVars
    BY DEF Polls!pollVars, Polls!cityVars
  <2> QED BY <2>1, <2>2, <2>3, <2>4, <2>5, <2>6, <2>7 DEF Polls!Next, Polls!Run
<1> QED BY <1>1, <1>2, PollTypes, PTL DEF Polls!Spec

(* For any threshold: no alarm but for what lasted it, and somebody        *)
(* watched.                                                                *)
THEOREM AlarmsAreEarnedHold == Polls!Spec => AlarmsAreEarned
<1> DEFINE Right ==
      /\ "city" \in alerted' \ alerted => watched /\ good = Threshold
      /\ "vendor" \in alerted' \ alerted => watched /\ shown = Threshold
<1>1. Polls!TypeOK /\ Earned /\ [Polls!Next]_Polls!pollVars => [Right]_Polls!pollVars
  <2> SUFFICES ASSUME Polls!TypeOK, Earned, Polls!Next PROVE Right
      OBVIOUS
  <2>1. alerted' \subseteq alerted => Right
    OBVIOUS
  <2>2. ASSUME NEW inHours \in BOOLEAN, NEW peers \in BOOLEAN, Polls!Canary(inHours, peers)
        PROVE  Right
    <3>1. /\ good \in 0..Threshold /\ shown \in 0..Threshold /\ Threshold \in Nat
          /\ Never # Threshold
      BY PollAssumptions DEF Polls!TypeOK, Polls!Age
    <3>2. "city" \in alerted' \ alerted => Polls!Kept(failing) = Threshold
      BY <2>2 DEF Polls!Canary
    <3>3. "vendor" \in alerted' \ alerted => Polls!Kept(zero) = Threshold
      BY <2>2 DEF Polls!Canary
    <3> QED BY <3>1, <3>2, <3>3 DEF Polls!Kept, Earned
  <2>3. Polls!World \/ Polls!Tick \/ Polls!Skip \/ Polls!Restart \/ Polls!PruneSeen
          \/ Polls!PruneSnapshot => alerted' \subseteq alerted
    BY DEF Polls!World, Polls!SlotsChange, Polls!Unwatch, Polls!Watch, Polls!Tick,
           Polls!Skip, Polls!Restart, Polls!PruneSeen, Polls!PruneSnapshot, Polls!cityVars
  <2>4. Polls!Run => alerted' \subseteq alerted
    <3>1. Polls!Stage => alerted' = alerted
      BY Zenon DEF Polls!Stage, Polls!cityVars
    <3>2. Polls!Poll => alerted' = alerted
      BY Zenon DEF Polls!Poll, Polls!cityVars
    <3> QED BY <3>1, <3>2
          DEF Polls!Run, Polls!Count, Polls!Shoot, Polls!Flush, Polls!cityVars
  <2> QED BY <2>1, <2>2, <2>3, <2>4 DEF Polls!Next
<1> QED BY <1>1, PollTypes, AlwaysEarned, PTL DEF Polls!Spec, Polls!pollVars, AlarmsAreEarned, pollVars
=============================================================================
