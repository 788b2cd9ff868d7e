-------------------------- MODULE PushBatch_proofs --------------------------
(***************************************************************************)
(* Proofs about PushBatch for any devices, tokens, threads and bound.      *)
(***************************************************************************)
EXTENDS PushBatch, TLAPS

LEMMA RowTyped ==
  ASSUME NEW r \in Row, NEW t \in Token
  PROVE  /\ NoRow \in Row
         /\ [r EXCEPT !.dead = "no"] \in Row
         /\ [r EXCEPT !.dead = "bare"] \in Row
         /\ [r EXCEPT !.dead = "proven"] \in Row
         /\ [r EXCEPT !.here = "retired"] \in Row
         /\ [r EXCEPT !.here = "live", !.dead = "no"] \in Row
         /\ [r EXCEPT !.token = t, !.dead = "no"] \in Row
         /\ [NoRow EXCEPT !.here = "live", !.token = t] \in Row
BY DEF Row, NoRow

LEMMA BatchTyped ==
  ASSUME NEW b \in Batch, NEW I \in SUBSET Item
  PROVE  /\ NoBatch \in Batch
         /\ [NoBatch EXCEPT !.at = "sending", !.mine = Devices(I), !.todo = I] \in Batch
         /\ [b EXCEPT !.todo = @ \ I, !.proof = TRUE] \in Batch
         /\ [b EXCEPT !.todo = @ \ I, !.dead = @ \cup I] \in Batch
         /\ [b EXCEPT !.todo = @ \ I] \in Batch
         /\ [b EXCEPT !.todo = {}] \in Batch
         /\ [b EXCEPT !.at = "judged", !.doomed = I, !.dead = @ \ I] \in Batch
         /\ [b EXCEPT !.at = "retired", !.doomed = {}] \in Batch
         /\ [b EXCEPT !.at = "held", !.dead = {}] \in Batch
<1>1. Devices(I) \in SUBSET Device
  BY DEF Devices, Item
<1> DEFINE D == Devices(I)
<1> HIDE DEF D
<1> QED BY <1>1 DEF Batch, NoBatch, D

LEMMA RecordTyped ==
  ASSUME record \in [Device -> {"none", "pending", "sent"}],
         NEW p, NEW D, NEW as \in {"none", "pending", "sent"}, Recorded(p, D, as)
  PROVE  record' \in [Device -> {"none", "pending", "sent"}]
BY DEF Recorded

(* The rows are typed, and a row is there exactly when it holds a token.   *)
Rows(f) == /\ f \in [Device -> Row]
           /\ \A d \in Device : f[d].here = "none" <=> f[d].token = None

LEMMA RowSet ==
  ASSUME Rows(device), NEW d \in Device, NEW r \in Row,
         r.here = "none" <=> r.token = None, SetRow(d, r)
  PROVE  Rows(device')
BY DEF Rows, SetRow

LEMMA BatchSet ==
  ASSUME batch \in [Proc -> Batch], NEW p \in Proc, NEW b \in Batch, Step(p, b)
  PROVE  batch' \in [Proc -> Batch]
BY DEF Step

-----------------------------------------------------------------------------
(* TypeOK: every row, batch and record keeps its shape.                    *)
THEOREM TypeInvariant == Spec => []TypeOK
<1>1. Init => TypeOK
  BY DEF Init, TypeOK, Row, NoRow, Batch, NoBatch, Stories
<1>2. TypeOK /\ [Next]_vars => TypeOK'
  <2> SUFFICES ASSUME TypeOK, [Next]_vars PROVE TypeOK'
    OBVIOUS
  <2>0. /\ Rows(device) /\ alive \subseteq Token /\ right \in [Proc -> BOOLEAN]
        /\ batch \in [Proc -> Batch] /\ record \in [Device -> {"none", "pending", "sent"}]
        /\ story \in Stories
    BY DEF TypeOK, Rows
  <2>r. ASSUME Rows(device'), alive' \subseteq Token, right' \in [Proc -> BOOLEAN],
               batch' \in [Proc -> Batch],
               record' \in [Device -> {"none", "pending", "sent"}], story' \in Stories
        PROVE  TypeOK'
    BY <2>r DEF TypeOK, Rows
  <2>1. ASSUME NEW p \in Proc, NEW I \in SUBSET Item, Start(p, I) PROVE TypeOK'
    BY <2>0, <2>r, <2>1, BatchTyped, BatchSet, RecordTyped DEF Start
  <2>2. ASSUME NEW p \in Proc, Send(p) PROVE TypeOK'
    <3>1. PICK i \in batch[p].todo :
            Deliver(p, i) \/ CalledDead(p, i) \/ Refuse(p, i) \/ Throttle(p, i)
      BY <2>2 DEF Send
    <3>2. batch[p] \in Batch /\ i \in Item /\ {i} \in SUBSET Item
      BY <2>0, <3>1 DEF Batch
    <3>3. CASE Deliver(p, i)
      <4>1. batch' \in [Proc -> Batch] /\ record' \in [Device -> {"none", "pending", "sent"}]
        BY <2>0, <3>2, <3>3, BatchTyped, BatchSet, RecordTyped DEF Deliver
      <4>2. Rows(device')
        BY <2>0, <3>3 DEF Deliver, Rows, Row
      <4>3. story' \in Stories
        BY <2>0, <3>3 DEF Deliver, Stories
      <4> QED BY <2>0, <2>r, <3>3, <4>1, <4>2, <4>3 DEF Deliver
    <3>4. CASE CalledDead(p, i)
      <4>1. batch' \in [Proc -> Batch]
        BY <2>0, <3>2, <3>4, BatchTyped, BatchSet DEF CalledDead
      <4>2. story' \in Stories
        BY <2>0, <3>4 DEF CalledDead, Told, Stories
      <4> QED BY <2>0, <2>r, <3>4, <4>1, <4>2 DEF CalledDead
    <3>5. CASE Refuse(p, i)
      BY <2>0, <2>r, <3>2, <3>5, BatchTyped, BatchSet, RecordTyped DEF Refuse
    <3>6. CASE Throttle(p, i)
      BY <2>0, <2>r, <3>2, <3>6, BatchTyped, BatchSet DEF Throttle
    <3> QED BY <3>1, <3>3, <3>4, <3>5, <3>6
  <2>3. ASSUME NEW p \in Proc, GiveUp(p) PROVE TypeOK'
    <3>1. batch' \in [Proc -> Batch]
      BY <2>0, <2>3, BatchSet, BatchTyped DEF GiveUp
    <3> QED BY <2>0, <2>r, <2>3, <3>1 DEF GiveUp
  <2>4. ASSUME NEW p \in Proc, Finish(p) PROVE TypeOK'
    <3>1. batch[p] \in Batch
      BY <2>0
    <3>2. CASE Judge(p)
      <4> DEFINE doomed == {i \in batch[p].dead : Evidence(p, i)}
      <4>1. doomed \in SUBSET Item
        BY <3>1 DEF Batch
      <4>2. Step(p, [batch[p] EXCEPT !.at = "judged", !.doomed = doomed, !.dead = @ \ doomed])
        BY <3>2 DEF Judge
      <4> HIDE DEF doomed
      <4>3. batch' \in [Proc -> Batch]
        BY <2>0, <3>1, <4>1, <4>2, BatchSet, BatchTyped
      <4> QED BY <2>0, <2>r, <3>2, <4>3 DEF Judge
    <3>3. CASE Retire(p)
      <4>1. batch' \in [Proc -> Batch] /\ record' \in [Device -> {"none", "pending", "sent"}]
        BY <2>0, <3>1, <3>3, BatchTyped, BatchSet, RecordTyped DEF Retire
      <4>2. Rows(device')
        <5>1. \A d \in Device : \/ device'[d] = device[d]
                               \/ /\ device[d].here = "live"
                                  /\ device'[d] = [device[d] EXCEPT !.here = "retired"]
          BY <2>0, <3>3 DEF Retire, Retires, Live, Rows
        <5>2. \A d \in Device : /\ device'[d] \in Row
                                /\ device'[d].here = "none" <=> device'[d].token = None
          <6> TAKE d \in Device
          <6>1. device[d] \in Row /\ (device[d].here = "none" <=> device[d].token = None)
            BY <2>0 DEF Rows
          <6>2. CASE device'[d] = device[d]
            BY <6>1, <6>2
          <6>3. CASE device[d].here = "live" /\ device'[d] = [device[d] EXCEPT !.here = "retired"]
            BY <6>1, <6>3 DEF Row
          <6> QED BY <5>1, <6>2, <6>3
        <5>3. device' = [d \in Device |->
                 IF \E i \in batch[p].doomed : i[1] = d /\ Retires(i)
                 THEN [device[d] EXCEPT !.here = "retired"] ELSE device[d]]
          BY <3>3 DEF Retire
        <5>4. device' \in [Device -> Row]
          BY <5>2, <5>3
        <5> QED BY <5>2, <5>4 DEF Rows
      <4> QED BY <2>0, <2>r, <3>3, <4>1, <4>2 DEF Retire
    <3>4. CASE Hold(p)
      <4>1. batch' \in [Proc -> Batch]
        BY <2>0, <3>1, <3>4, BatchTyped, BatchSet DEF Hold
      <4>2. Rows(device')
        BY <2>0, <3>4 DEF Hold, Rows, Row
      <4> QED BY <2>0, <2>r, <3>4, <4>1, <4>2 DEF Hold
    <3>5. CASE Return(p)
      BY <2>0, <2>r, <3>1, <3>5, BatchTyped, BatchSet, RecordTyped DEF Return
    <3> QED BY <2>4, <3>2, <3>3, <3>4, <3>5 DEF Finish
  <2>5. ASSUME NEW p \in Proc, NEW now \in BOOLEAN, Restart(p, now) PROVE TypeOK'
    BY <2>0, <2>r, <2>5, BatchSet, BatchTyped DEF Restart
  <2>6. ASSUME NEW d \in Device, Delete(d) PROVE TypeOK'
    <3>1. NoRow \in Row /\ (NoRow.here = "none" <=> NoRow.token = None)
      BY DEF NoRow, Row
    <3> QED BY <2>0, <2>r, <2>6, <3>1, RowSet DEF Delete, SetRow
  <2>7. ASSUME NEW d \in Device, EvidencePruned(d) PROVE TypeOK'
    BY <2>0, <2>r, <2>7 DEF EvidencePruned, Rows, Row
  <2>8. ASSUME NEW d \in Device, NextKey(d) PROVE TypeOK'
    BY <2>0, <2>r, <2>8, RecordTyped DEF NextKey
  <2>9. ASSUME NEW d \in Device, NEW t \in Token, Register(d, t) PROVE TypeOK'
    <3>1. CASE SetRow(d, [NoRow EXCEPT !.here = "live", !.token = t])
      BY <2>0, <2>r, <3>1, NoneAssumption DEF SetRow, Rows, Row, NoRow
    <3>2. CASE device[d].token = t /\ SetRow(d, [device[d] EXCEPT !.here = "live", !.dead = "no"])
      BY <2>0, <2>r, <3>2, NoneAssumption DEF SetRow, Rows, Row
    <3> QED BY <2>9, <3>1, <3>2 DEF Register
  <2>10. ASSUME NEW d \in Device, NEW t \in Token, ChangeToken(d, t) PROVE TypeOK'
    BY <2>0, <2>r, <2>10, NoneAssumption DEF ChangeToken, SetRow, Live, Rows, Row
  <2>11. ASSUME NEW t \in Token, PhoneGone(t) PROVE TypeOK'
    BY <2>0, <2>r, <2>11 DEF PhoneGone
  <2>12. CASE UNCHANGED vars
    BY <2>12 DEF vars, TypeOK
  <2> QED
    BY <2>1, <2>2, <2>3, <2>4, <2>5, <2>6, <2>7, <2>8, <2>9, <2>10, <2>11, <2>12 DEF Next
<1> QED BY <1>1, <1>2, PTL DEF Spec

-----------------------------------------------------------------------------
(* The argument.  A thread whose settings are right is told the truth, so  *)
(* what it calls dead is dead; while no living phone has been called dead, *)
(* every dead answer anywhere is true, the remembered ones included; and   *)
(* until the platform has delivered after the first wrong one, a mark that *)
(* is proven stems from a true answer, and so does every item to retire.   *)
Unheard(p) == batch[p].dead \cup batch[p].doomed

Truthful(p) ==
  /\ batch[p].proof => right[p]
  /\ right[p] => \A i \in Unheard(p) : i[2] \notin alive
Marked(d) ==
  /\ (story # "righted" /\ device[d].dead = "proven") => device[d].token \notin alive
  /\ (story = "clean" /\ device[d].dead = "bare") => device[d].token \notin alive
Heard(p) ==
  /\ story # "righted" => \A i \in batch[p].doomed : i[2] \notin alive
  /\ story = "clean" => \A i \in Unheard(p) : i[2] \notin alive
Gone(d) == device[d].here = "retired" => device[d].token \notin alive \/ story = "righted"

Sound == /\ TypeOK
         /\ \A p \in Proc : Truthful(p) /\ Heard(p)
         /\ \A d \in Device : Marked(d) /\ Gone(d)

LEMMA SoundTyped ==
  Sound => /\ device \in [Device -> Row] /\ batch \in [Proc -> Batch]
           /\ right \in [Proc -> BOOLEAN] /\ story \in Stories /\ alive \subseteq Token
BY DEF Sound, TypeOK

(* A batch that is put in a process's place keeps the others' word.        *)
LEMMA BatchKept ==
  ASSUME Sound, TypeOK', UNCHANGED <<device, alive, right, story>>,
         NEW p \in Proc, NEW b \in Batch, Step(p, b),
         b.proof => right[p],
         \A i \in b.dead \cup b.doomed : i \in Unheard(p),
         \A i \in b.doomed : i \in batch[p].doomed \/ story = "righted" \/ i[2] \notin alive
  PROVE  Sound'
<1>1. \A q \in Proc : batch'[q] = IF q = p THEN b ELSE batch[q]
  BY SoundTyped DEF Step
<1>2. \A q \in Proc : Truthful(q)' /\ Heard(q)'
  BY <1>1 DEF Sound, Truthful, Heard, Unheard
<1> QED BY <1>2 DEF Sound, Marked, Gone

(* A row that is put in a device's place, live and without a mark.         *)
LEMMA RowKept ==
  ASSUME Sound, TypeOK', UNCHANGED <<alive, right, batch, story>>,
         NEW d \in Device, NEW r \in Row, r.dead = "no", r.here # "retired", SetRow(d, r)
  PROVE  Sound'
<1>1. \A e \in Device : device'[e] = IF e = d THEN r ELSE device[e]
  BY SoundTyped DEF SetRow
<1>2. \A e \in Device : Marked(e)' /\ Gone(e)'
  BY <1>1 DEF Sound, Marked, Gone
<1> QED BY <1>2 DEF Sound, Truthful, Heard, Unheard

LEMMA SoundInit == Init => Sound
<1> SUFFICES ASSUME Init PROVE Sound
  OBVIOUS
<1>1. TypeOK
  BY DEF Init, TypeOK, Row, NoRow, Batch, NoBatch, Stories
<1> QED BY <1>1 DEF Init, Sound, Truthful, Heard, Unheard, Marked, Gone, NoBatch, NoRow

(* Handing a thread an answer of the relay.                                *)
LEMMA SoundSend ==
  ASSUME Sound, TypeOK', NEW p \in Proc, NEW i \in batch[p].todo,
         Deliver(p, i) \/ CalledDead(p, i) \/ Refuse(p, i) \/ Throttle(p, i)
  PROVE  Sound'
<1>0. batch[p] \in Batch /\ i \in Item
  BY SoundTyped DEF Batch
<1>1. CASE Deliver(p, i)
  <2>1. \A q \in Proc : /\ Unheard(q)' = Unheard(q) /\ batch'[q].doomed = batch[q].doomed
                        /\ batch'[q].proof => batch[q].proof \/ q = p
    BY <1>0, <1>1, SoundTyped DEF Deliver, Step, Unheard, Batch
  <2>2. /\ right[p] /\ UNCHANGED <<alive, right>> /\ story' # "wrong"
        /\ story' # "righted" => story = "clean" /\ story' = "clean"
    BY <1>1, SoundTyped DEF Deliver, Stories
  <2>3. \A q \in Proc : Truthful(q)' /\ Heard(q)'
    BY <2>1, <2>2 DEF Sound, Truthful, Heard
  <2>4. \A d \in Device :
          /\ device'[d].token = device[d].token /\ device'[d].here = device[d].here
          /\ device'[d].dead = "proven" => device[d].dead \in {"bare", "proven"}
          /\ device'[d].dead = "bare" => device[d].dead = "bare"
    BY <1>1, SoundTyped DEF Deliver, Row
  <2>5. \A d \in Device : Marked(d)' /\ Gone(d)'
    BY <2>2, <2>4 DEF Sound, Marked, Gone
  <2> QED BY <2>3, <2>5 DEF Sound
<1>2. CASE CalledDead(p, i)
  <2>1. \A q \in Proc : /\ batch'[q].doomed = batch[q].doomed /\ batch'[q].proof = batch[q].proof
                        /\ q # p => Unheard(q)' = Unheard(q)
                        /\ Unheard(p)' = Unheard(p) \cup {i}
    BY <1>0, <1>2, SoundTyped DEF CalledDead, Step, Unheard, Batch
  <2>2. /\ UNCHANGED <<device, alive, right>> /\ (right[p] => i[2] \notin alive)
        /\ story' = "clean" => story = "clean" /\ i[2] \notin alive
        /\ story' # "righted" => story # "righted"
        /\ story = "righted" => story' = "righted"
    BY <1>2, SoundTyped DEF CalledDead, Told, Stories
  <2>3. \A q \in Proc : Truthful(q)' /\ Heard(q)'
    BY <2>1, <2>2 DEF Sound, Truthful, Heard
  <2>4. \A d \in Device : Marked(d)' /\ Gone(d)'
    BY <2>2 DEF Sound, Marked, Gone
  <2> QED BY <2>3, <2>4 DEF Sound
<1>3. CASE Refuse(p, i) \/ Throttle(p, i)
  <2> DEFINE b == [batch[p] EXCEPT !.todo = @ \ {i}]
  <2>1. /\ b \in Batch /\ Step(p, b) /\ UNCHANGED <<device, alive, right, story>>
        /\ b.proof = batch[p].proof /\ b.dead = batch[p].dead /\ b.doomed = batch[p].doomed
    BY <1>0, <1>3 DEF Refuse, Throttle, Batch
  <2> HIDE DEF b
  <2> QED BY <2>1, BatchKept DEF Sound, Truthful, Unheard
<1> QED BY <1>1, <1>2, <1>3

(* The judgement and what follows it.                                      *)
LEMMA SoundFinish ==
  ASSUME Sound, TypeOK', NEW p \in Proc, Finish(p)
  PROVE  Sound'
<1>0. batch[p] \in Batch
  BY SoundTyped
<1>1. CASE Judge(p)
  <2> DEFINE doomed == {i \in batch[p].dead : Evidence(p, i)}
             b == [batch[p] EXCEPT !.at = "judged", !.doomed = doomed, !.dead = @ \ doomed]
  <2>1. /\ b \in Batch /\ Step(p, b) /\ UNCHANGED <<device, alive, right, story>>
        /\ b.proof = batch[p].proof /\ b.dead \cup b.doomed \subseteq Unheard(p)
        /\ b.doomed = doomed
    BY <1>0, <1>1 DEF Judge, Batch, Unheard
  <2>2. ASSUME NEW i \in doomed, story # "righted"
        PROVE  i[2] \notin alive
    <3>1. i \in Unheard(p) /\ i \in Item
      BY <1>0 DEF Unheard, Batch
    <3>2. CASE batch[p].proof
      BY <3>1, <3>2 DEF Sound, Truthful
    <3>3. CASE Holds(i) /\ device[i[1]].dead = "proven"
      BY <3>1, <3>3, <2>2 DEF Sound, Marked, Holds, Item
    <3> QED BY <3>2, <3>3 DEF Evidence
  <2> HIDE DEF b
  <2> QED BY <2>1, <2>2, BatchKept DEF Sound, Truthful
<1>2. CASE Retire(p)
  <2>1. \A q \in Proc : /\ Unheard(q)' \subseteq Unheard(q)
                        /\ batch'[q].doomed \subseteq batch[q].doomed
                        /\ batch'[q].proof = batch[q].proof
    BY <1>0, <1>2, SoundTyped DEF Retire, Step, Unheard, Batch
  <2>2. UNCHANGED <<alive, right, story>>
    BY <1>2 DEF Retire
  <2>3. \A d \in Device :
          /\ device'[d].token = device[d].token /\ device'[d].dead = device[d].dead
          /\ device'[d].here = "retired" =>
               \/ device[d].here = "retired"
               \/ \E i \in batch[p].doomed : device[d].token = i[2]
    BY <1>2, SoundTyped DEF Retire, Retires, Holds, Row
  <2>4. \A d \in Device : Marked(d)' /\ Gone(d)'
    BY <2>2, <2>3 DEF Sound, Marked, Gone, Heard
  <2>5. \A q \in Proc : Truthful(q)' /\ Heard(q)'
    BY <2>1, <2>2 DEF Sound, Truthful, Heard
  <2> QED BY <2>4, <2>5 DEF Sound
<1>3. CASE Hold(p)
  <2>1. \A q \in Proc : /\ Unheard(q)' \subseteq Unheard(q)
                        /\ batch'[q].doomed = batch[q].doomed
                        /\ batch'[q].proof = batch[q].proof
    BY <1>0, <1>3, SoundTyped DEF Hold, Step, Unheard, Batch
  <2>2. UNCHANGED <<alive, right, story>>
    BY <1>3 DEF Hold
  <2>3. \A d \in Device :
          /\ device'[d].token = device[d].token /\ device'[d].here = device[d].here
          /\ device'[d].dead = "proven" => device[d].dead = "proven"
          /\ device'[d].dead = "bare" =>
               device[d].dead = "bare" \/ <<d, device[d].token>> \in batch[p].dead
    BY <1>3, SoundTyped DEF Hold, Row
  <2>4. \A d \in Device : Marked(d)' /\ Gone(d)'
    <3> TAKE d \in Device
    <3>1. (story = "clean" /\ <<d, device[d].token>> \in batch[p].dead) => device[d].token \notin alive
      <4> SUFFICES ASSUME story = "clean", <<d, device[d].token>> \in batch[p].dead
                   PROVE  device[d].token \notin alive
        OBVIOUS
      <4>1. \A i \in Unheard(p) : i[2] \notin alive
        BY DEF Sound, Heard
      <4>2. <<d, device[d].token>>[2] \notin alive
        BY <4>1 DEF Unheard
      <4> QED BY <4>2
    <3>2. Marked(d) /\ Gone(d)
      BY DEF Sound
    <3> QED BY <2>2, <2>3, <3>1, <3>2 DEF Marked, Gone
  <2>5. \A q \in Proc : Truthful(q)' /\ Heard(q)'
    BY <2>1, <2>2 DEF Sound, Truthful, Heard
  <2> QED BY <2>4, <2>5 DEF Sound
<1>4. CASE Return(p)
  <2>1. /\ Step(p, NoBatch) /\ UNCHANGED <<device, alive, right, story>>
        /\ NoBatch \in Batch /\ NoBatch.proof = FALSE
        /\ NoBatch.dead = {} /\ NoBatch.doomed = {}
    BY <1>4 DEF Return, NoBatch, Batch
  <2>2. /\ NoBatch.proof => right[p]
        /\ \A i \in NoBatch.dead \cup NoBatch.doomed : i \in Unheard(p)
        /\ \A i \in NoBatch.doomed : i \in batch[p].doomed \/ story = "righted" \/ i[2] \notin alive
    BY <2>1
  <2> QED BY <2>1, <2>2, BatchKept
<1> QED BY <1>1, <1>2, <1>3, <1>4 DEF Finish

LEMMA SoundStep == Sound /\ TypeOK' /\ [Next]_vars => Sound'
<1> SUFFICES ASSUME Sound, TypeOK', [Next]_vars PROVE Sound'
  OBVIOUS
<1>1. ASSUME NEW p \in Proc, NEW I \in SUBSET Item, Start(p, I) PROVE Sound'
  <2> DEFINE b == [NoBatch EXCEPT !.at = "sending", !.mine = Devices(I), !.todo = I]
  <2>1. /\ Step(p, b) /\ UNCHANGED <<device, alive, right, story>>
        /\ b.proof = FALSE /\ b.dead = {} /\ b.doomed = {}
    BY <1>1 DEF Start, NoBatch
  <2>2. b \in Batch
    BY SoundTyped, BatchTyped
  <2> HIDE DEF b
  <2>3. /\ b.proof => right[p]
        /\ \A i \in b.dead \cup b.doomed : i \in Unheard(p)
        /\ \A i \in b.doomed : i \in batch[p].doomed \/ story = "righted" \/ i[2] \notin alive
    BY <2>1
  <2> QED BY <2>1, <2>2, <2>3, BatchKept
<1>2. ASSUME NEW p \in Proc, Send(p) PROVE Sound'
  BY <1>2, SoundSend DEF Send
<1>3. ASSUME NEW p \in Proc, GiveUp(p) PROVE Sound'
  <2> DEFINE b == [batch[p] EXCEPT !.todo = {}]
  <2>1. /\ b \in Batch /\ Step(p, b) /\ UNCHANGED <<device, alive, right, story>>
        /\ b.proof = batch[p].proof /\ b.dead = batch[p].dead /\ b.doomed = batch[p].doomed
    BY <1>3, SoundTyped DEF GiveUp, Batch
  <2> HIDE DEF b
  <2> QED BY <2>1, BatchKept DEF Sound, Truthful, Unheard
<1>4. ASSUME NEW p \in Proc, Finish(p) PROVE Sound'
  BY <1>4, SoundFinish
<1>5. ASSUME NEW p \in Proc, NEW now \in BOOLEAN, Restart(p, now) PROVE Sound'
  <2>1. \A q \in Proc : q # p => batch'[q] = batch[q] /\ right'[q] = right[q]
    BY <1>5, SoundTyped DEF Restart, Step
  <2>2. /\ batch'[p].proof = FALSE /\ Unheard(p)' = {} /\ batch'[p].doomed = {}
        /\ UNCHANGED <<device, alive, story>>
    BY <1>5, SoundTyped DEF Restart, Step, Unheard, NoBatch
  <2>3. \A q \in Proc : Truthful(q)' /\ Heard(q)'
    BY <2>1, <2>2 DEF Sound, Truthful, Heard, Unheard
  <2> QED BY <2>2, <2>3 DEF Sound, Marked, Gone
<1>6. ASSUME NEW d \in Device, Delete(d) PROVE Sound'
  <2>1. NoRow \in Row /\ NoRow.dead = "no" /\ NoRow.here # "retired"
    BY DEF NoRow, Row
  <2> QED BY <1>6, <2>1, RowKept DEF Delete, SetRow
<1>7. ASSUME NEW d \in Device, EvidencePruned(d) PROVE Sound'
  <2>1. /\ \A e \in Device : /\ device'[e].token = device[e].token
                             /\ device'[e].here = device[e].here
                             /\ device'[e].dead = device[e].dead
                                \/ (e = d /\ device'[e].dead = "bare")
        /\ device[d].dead = "proven" /\ UNCHANGED <<alive, right, batch, story>>
    BY <1>7, SoundTyped DEF EvidencePruned, Row
  <2>2. \A e \in Device : Marked(e)' /\ Gone(e)'
    BY <2>1, SoundTyped DEF Sound, Marked, Gone, Stories
  <2> QED BY <2>1, <2>2 DEF Sound, Truthful, Heard, Unheard
<1>8. ASSUME NEW d \in Device, NextKey(d) PROVE Sound'
  BY <1>8 DEF NextKey, Sound, Truthful, Heard, Unheard, Marked, Gone
<1>9. ASSUME NEW d \in Device, NEW t \in Token, Register(d, t) PROVE Sound'
  <2>1. PICK r \in Row : r.dead = "no" /\ r.here = "live" /\ SetRow(d, r)
    <3>1. LET r == [NoRow EXCEPT !.here = "live", !.token = t]
          IN r \in Row /\ r.dead = "no" /\ r.here = "live"
      BY DEF NoRow, Row
    <3>2. LET r == [device[d] EXCEPT !.here = "live", !.dead = "no"]
          IN r \in Row /\ r.dead = "no" /\ r.here = "live"
      BY SoundTyped DEF Row
    <3> QED BY <1>9, <3>1, <3>2 DEF Register
  <2> QED BY <2>1, RowKept DEF SetRow
<1>10. ASSUME NEW d \in Device, NEW t \in Token, ChangeToken(d, t) PROVE Sound'
  <2> DEFINE r == [device[d] EXCEPT !.token = t, !.dead = "no"]
  <2>1. r \in Row /\ r.dead = "no" /\ r.here = "live" /\ SetRow(d, r)
    BY <1>10, SoundTyped DEF ChangeToken, Live, Row
  <2> HIDE DEF r
  <2> QED BY <2>1, RowKept DEF SetRow
<1>11. ASSUME NEW t \in Token, PhoneGone(t) PROVE Sound'
  BY <1>11 DEF PhoneGone, Sound, Truthful, Heard, Unheard, Marked, Gone
<1>12. CASE UNCHANGED vars
  BY <1>12 DEF vars, Sound, Truthful, Heard, Unheard, Marked, Gone
<1> QED
  BY <1>1, <1>2, <1>3, <1>4, <1>5, <1>6, <1>7, <1>8, <1>9, <1>10, <1>11, <1>12 DEF Next

LEMMA AlwaysSound == Spec => []Sound
<1>1. Sound /\ TypeOK' /\ [Next]_vars => Sound'
  BY SoundStep
<1> QED BY <1>1, SoundInit, TypeInvariant, PTL DEF Spec

(* RetiredIsDead: a verdict that stands late, or under wrong settings,     *)
(* costs no living phone its row.                                          *)
THEOREM RetiredIsDeadHolds == Spec => []RetiredIsDead
<1>1. Sound => RetiredIsDead
  BY DEF Sound, Gone, RetiredIsDead
<1> QED BY <1>1, AlwaysSound, PTL

-----------------------------------------------------------------------------
(* The promise.  What the flush carries is claimed and still pending, one  *)
(* item for each device and in one place.                                  *)
Mine == batch[Flush].mine
Verdicts == batch[Flush].dead \cup batch[Flush].doomed
Carried == batch[Flush].todo \cup Verdicts

Booked ==
  /\ batch[Flush].at = "off" => Mine = {} /\ Carried = {}
  /\ \A i \in Carried : i[1] \in Mine /\ record[i[1]] = "pending"
  /\ \A i, j \in Carried : i[1] = j[1] => i = j
  /\ batch[Flush].todo \cap Verdicts = {}
  /\ batch[Flush].dead \cap batch[Flush].doomed = {}

LEMMA FlushTyped ==
  TypeOK => /\ batch \in [Proc -> Batch] /\ batch[Flush] \in Batch
            /\ record \in [Device -> {"none", "pending", "sent"}]
            /\ Carried \subseteq Item /\ Mine \subseteq Device
BY ProcAssumption DEF TypeOK, Batch, Carried, Verdicts, Mine

LEMMA Unmoved ==
  ASSUME TypeOK, record' = record, batch'[Flush] = batch[Flush]
  PROVE  /\ UNCHANGED Promise!vars
         /\ Booked => Booked'
BY DEF Promise!vars, Booked, Released, Pending, Mine, Carried, Verdicts

(* Inside a batch, an item moves or is forgotten, and no record changes.   *)
LEMMA Moved ==
  ASSUME TypeOK, record' = record, batch[Flush].at # "off", batch'[Flush].at # "off",
         batch'[Flush].mine = batch[Flush].mine
  PROVE  UNCHANGED Promise!vars
BY DEF Promise!vars, Released, Pending

(* What is recorded of some of the flush's devices.                        *)
LEMMA Written ==
  ASSUME TypeOK, NEW D \in SUBSET Device, NEW as \in {"none", "sent"},
         Recorded(Flush, D, as)
  PROVE  /\ \A d \in Device : record'[d] = IF d \in D THEN as ELSE record[d]
         /\ Pending' = Pending \ D
BY FlushTyped DEF Recorded, Pending

(* The flush takes its items, and each answer or verdict settles some.     *)
LEMMA FlushStep ==
  ASSUME TypeOK, Booked,
         \/ \E I \in SUBSET Item : Start(Flush, I)
         \/ Send(Flush) \/ GiveUp(Flush) \/ Finish(Flush)
  PROVE  Booked' /\ [Promise!Next]_(Promise!vars)
<1>0. batch \in [Proc -> Batch] /\ batch[Flush] \in Batch /\ Carried \subseteq Item
  BY FlushTyped
<1>1. ASSUME NEW I \in SUBSET Item, Start(Flush, I)
      PROVE  Booked' /\ Promise!Begin(Devices(I))
  <2>1. /\ batch'[Flush] = [NoBatch EXCEPT !.at = "sending", !.mine = Devices(I), !.todo = I]
        /\ batch[Flush].at = "off" /\ Mine = {}
    BY <1>0, <1>1, ProcAssumption DEF Start, Step, Booked
  <2>2. /\ batch'[Flush].at = "sending" /\ Mine' = Devices(I) /\ batch'[Flush].todo = I
        /\ Verdicts' = {} /\ batch'[Flush].dead = {}
    BY <2>1 DEF NoBatch, Mine, Verdicts
  <2>3. /\ \A d \in Device : record'[d] = IF d \in Devices(I) THEN "pending" ELSE record[d]
        /\ Devices(I) \subseteq Device /\ \A d \in Devices(I) : record[d] # "sent"
    BY <1>1 DEF Start, Recorded, Devices, Item
  <2>4. Booked'
    BY <1>1, <2>2, <2>3 DEF Booked, Carried, Devices, Start
  <2>5. Pending' = Pending \cup Devices(I)
    BY <2>3 DEF Pending
  <2>6. /\ Released(Flush)' = Devices(I) /\ Released(Flush) = {}
        /\ Pending' \ Mine' = (Pending \ Mine) \ Devices(I)
    BY <2>1, <2>2, <2>5 DEF Released, Mine
  <2> QED BY <2>1, <2>2, <2>3, <2>4, <2>6 DEF Promise!Begin, Mine
<1>2. ASSUME NEW i \in batch[Flush].todo, Deliver(Flush, i) \/ Refuse(Flush, i)
      PROVE  Booked' /\ (Promise!Deliver({i[1]}) \/ Promise!Release({i[1]}))
  <2>1. /\ batch'[Flush].todo = batch[Flush].todo \ {i}
        /\ UNCHANGED <<Mine, Verdicts, batch[Flush].at, batch[Flush].dead, batch[Flush].doomed>>
        /\ batch[Flush].at = "sending"
    <3>1. batch[Flush].at = "sending"
      BY <1>2 DEF Deliver, Refuse, Trying
    <3>2. \/ batch'[Flush] = [batch[Flush] EXCEPT !.todo = @ \ {i}, !.proof = TRUE]
          \/ batch'[Flush] = [batch[Flush] EXCEPT !.todo = @ \ {i}]
      BY <1>0, <1>2, ProcAssumption DEF Deliver, Refuse, Step
    <3>3. /\ batch'[Flush].todo = batch[Flush].todo \ {i}
          /\ batch'[Flush].at = batch[Flush].at /\ batch'[Flush].mine = batch[Flush].mine
          /\ batch'[Flush].dead = batch[Flush].dead /\ batch'[Flush].doomed = batch[Flush].doomed
      BY <1>0, <3>2 DEF Batch
    <3> QED BY <3>1, <3>3 DEF Mine, Verdicts
  <2>2. i \in Carried /\ i[1] \in Device /\ i[1] \in Mine /\ record[i[1]] = "pending"
    BY <1>0 DEF Booked, Carried, Item
  <2>3. PICK as \in {"none", "sent"} :
          /\ Recorded(Flush, {i[1]}, as)
          /\ as = "sent" => Deliver(Flush, i)
    BY <1>2 DEF Deliver, Refuse
  <2>4. /\ \A d \in Device : record'[d] = IF d \in {i[1]} THEN as ELSE record[d]
        /\ Pending' = Pending \ {i[1]}
    BY <2>2, <2>3, Written
  <2>5. Booked'
    <3>1. Carried' \subseteq Carried /\ i \notin Carried'
      BY <2>1 DEF Carried, Booked
    <3>2. \A j \in Carried' : j[1] # i[1] /\ j[1] \in Device
      BY <1>0, <2>2, <3>1 DEF Booked, Item
    <3> QED BY <2>1, <2>4, <3>1, <3>2 DEF Booked, Mine, Verdicts
  <2>6. /\ Released(Flush)' = Released(Flush) \ {i[1]} /\ i[1] \in Released(Flush)
        /\ Pending' \ Mine' = Pending \ Mine
    BY <2>1, <2>2, <2>4 DEF Released, Mine, Pending
  <2>7. CASE as = "sent"
    <3>1. {d \in Device : record'[d] = "sent"} = {d \in Device : record[d] = "sent"} \cup {i[1]}
      BY <2>2, <2>4, <2>7
    <3>2. Promise!Deliver({i[1]})
      BY <2>1, <2>6, <3>1 DEF Promise!Deliver, Mine
    <3> QED BY <2>5, <3>2
  <2>8. CASE as = "none"
    <3>1. {d \in Device : record'[d] = "sent"} = {d \in Device : record[d] = "sent"}
      BY <2>2, <2>4, <2>8
    <3>2. Promise!Release({i[1]})
      BY <2>1, <2>6, <3>1 DEF Promise!Release, Mine
    <3> QED BY <2>5, <3>2
  <2> QED BY <2>7, <2>8
<1>3. ASSUME NEW i \in batch[Flush].todo, CalledDead(Flush, i) \/ Throttle(Flush, i)
      PROVE  Booked' /\ UNCHANGED Promise!vars
  <2>1. /\ Carried' \subseteq Carried /\ batch'[Flush].todo = batch[Flush].todo \ {i}
        /\ batch'[Flush].dead \subseteq batch[Flush].dead \cup {i}
        /\ batch'[Flush].doomed = batch[Flush].doomed
        /\ UNCHANGED <<record, batch[Flush].mine, batch[Flush].at>>
        /\ batch[Flush].at = "sending"
    <3>1. batch[Flush].at = "sending" /\ record' = record
      BY <1>3 DEF CalledDead, Throttle, Trying
    <3>2. \/ batch'[Flush] = [batch[Flush] EXCEPT !.todo = @ \ {i}, !.dead = @ \cup {i}]
          \/ batch'[Flush] = [batch[Flush] EXCEPT !.todo = @ \ {i}]
      BY <1>0, <1>3, ProcAssumption DEF CalledDead, Throttle, Step
    <3>3. /\ batch'[Flush].todo = batch[Flush].todo \ {i}
          /\ batch'[Flush].at = batch[Flush].at /\ batch'[Flush].mine = batch[Flush].mine
          /\ batch'[Flush].dead \subseteq batch[Flush].dead \cup {i}
          /\ batch'[Flush].doomed = batch[Flush].doomed
      BY <1>0, <3>2 DEF Batch
    <3> QED BY <3>1, <3>3 DEF Carried, Verdicts
  <2>2. Booked'
    BY <2>1 DEF Booked, Mine, Carried, Verdicts
  <2> QED BY <2>1, <2>2, Moved
<1>4. CASE GiveUp(Flush)
  <2>1. /\ Carried' \subseteq Carried /\ batch'[Flush].todo = {}
        /\ UNCHANGED <<record, batch[Flush].mine, batch[Flush].at, batch[Flush].dead,
                       batch[Flush].doomed>>
        /\ batch[Flush].at = "sending"
    BY <1>0, <1>4, ProcAssumption DEF GiveUp, Step, Batch, Carried, Verdicts
  <2>2. Booked'
    BY <2>1 DEF Booked, Mine, Verdicts
  <2> QED BY <2>1, <2>2, Moved
<1>5. CASE Judge(Flush)
  <2> DEFINE doomed == {i \in batch[Flush].dead : Evidence(Flush, i)}
  <2>1. /\ batch'[Flush].doomed = doomed /\ batch'[Flush].dead = batch[Flush].dead \ doomed
        /\ batch'[Flush].at = "judged" /\ batch[Flush].at = "sending"
        /\ UNCHANGED <<record, batch[Flush].mine, batch[Flush].todo>>
    BY <1>0, <1>5, ProcAssumption DEF Judge, Step, Batch
  <2> HIDE DEF doomed
  <2>2. doomed \subseteq batch[Flush].dead
    BY DEF doomed
  <2>3. Carried' \subseteq Carried
    BY <2>1, <2>2 DEF Carried, Verdicts
  <2>4. Booked'
    BY <2>1, <2>2, <2>3 DEF Booked, Mine, Verdicts
  <2> QED BY <2>1, <2>4, Moved
<1>6. CASE Retire(Flush)
  <2> DEFINE D == Devices(batch[Flush].doomed)
  <2>1. /\ batch'[Flush].doomed = {} /\ batch'[Flush].at = "retired"
        /\ batch[Flush].at = "judged" /\ Recorded(Flush, D, "none")
        /\ UNCHANGED <<batch[Flush].mine, batch[Flush].dead, batch[Flush].todo>>
    BY <1>0, <1>6, ProcAssumption DEF Retire, Step, Batch
  <2>2. D \in SUBSET Device /\ D \subseteq Mine /\ \A d \in D : record[d] = "pending"
    BY <1>0 DEF Devices, Booked, Carried, Verdicts, Item
  <2>3. /\ \A d \in Device : record'[d] = IF d \in D THEN "none" ELSE record[d]
        /\ Pending' = Pending \ D
    BY <2>1, <2>2, Written
  <2>4. Booked'
    <3>1. Carried' \subseteq Carried /\ Carried' \cap batch[Flush].doomed = {}
      BY <2>1 DEF Carried, Verdicts, Booked
    <3>2. \A j \in Carried' : j[1] \notin D /\ j[1] \in Device
      BY <1>0, <3>1 DEF Booked, Devices, Carried, Verdicts, Item
    <3> QED BY <2>1, <2>3, <3>1, <3>2 DEF Booked, Mine, Verdicts
  <2> HIDE DEF D
  <2>5. /\ Released(Flush)' = Released(Flush) \ D /\ D \subseteq Released(Flush)
        /\ Pending' \ Mine' = Pending \ Mine
    BY <2>1, <2>2, <2>3 DEF Released, Mine, Pending
  <2>6. {d \in Device : record'[d] = "sent"} = {d \in Device : record[d] = "sent"}
    BY <2>2, <2>3
  <2>7. Promise!Release(D)
    BY <2>1, <2>5, <2>6 DEF Promise!Release, Mine
  <2> QED BY <2>2, <2>4, <2>7 DEF Promise!Next
<1>7. CASE Hold(Flush)
  <2>1. /\ Carried' \subseteq Carried /\ batch'[Flush].dead = {}
        /\ batch'[Flush].at = "held" /\ batch[Flush].at = "retired"
        /\ UNCHANGED <<record, batch[Flush].mine, batch[Flush].todo, batch[Flush].doomed>>
    BY <1>0, <1>7, ProcAssumption DEF Hold, Step, Batch, Carried, Verdicts
  <2>2. Booked'
    BY <2>1 DEF Booked, Mine, Verdicts
  <2> QED BY <2>1, <2>2, Moved
<1>8. CASE Return(Flush)
  <2>1. /\ batch'[Flush] = NoBatch /\ batch[Flush].at # "off"
        /\ Recorded(Flush, Released(Flush), "none")
    BY <1>0, <1>8, ProcAssumption DEF Return, Step
  <2>2. Mine' = {} /\ Carried' = {} /\ Verdicts' = {} /\ batch'[Flush].at = "off"
        /\ batch'[Flush].todo = {} /\ batch'[Flush].dead = {}
    BY <2>1 DEF NoBatch, Mine, Carried, Verdicts
  <2>3. /\ \A d \in Device : record'[d] = IF d \in Released(Flush) THEN "none" ELSE record[d]
        /\ Pending' = Pending \ Released(Flush)
    <3>1. Released(Flush) \in SUBSET Device
      BY DEF Released, Pending
    <3> QED BY <2>1, <3>1, Written
  <2>4. Booked'
    BY <2>2 DEF Booked
  <2>5. /\ Released(Flush)' = {} /\ Pending' \ Mine' = Pending \ Mine
    BY <2>2, <2>3 DEF Released, Mine
  <2>6. {d \in Device : record'[d] = "sent"} = {d \in Device : record[d] = "sent"}
    BY <2>3 DEF Released, Pending
  <2>7. Promise!Return
    BY <2>1, <2>2, <2>5, <2>6 DEF Promise!Return, Mine
  <2> QED BY <2>4, <2>7 DEF Promise!Next
<1>9. ASSUME NEW I \in SUBSET Item, Start(Flush, I) PROVE Promise!Next
  <2>1. Devices(I) \in SUBSET Device
    BY DEF Devices, Item
  <2> QED BY <1>1, <1>9, <2>1 DEF Promise!Next
<1>10. ASSUME NEW i \in batch[Flush].todo, Deliver(Flush, i) \/ Refuse(Flush, i)
       PROVE  Promise!Next
  <2>1. {i[1]} \in SUBSET Device
    BY <1>0 DEF Carried, Item
  <2> QED BY <1>2, <1>10, <2>1 DEF Promise!Next
<1>11. CASE Send(Flush)
  BY <1>2, <1>3, <1>10, <1>11 DEF Send
<1> QED BY <1>1, <1>4, <1>5, <1>6, <1>7, <1>8, <1>9, <1>11 DEF Finish

LEMMA BookedStep ==
  TypeOK /\ Booked /\ [Next]_vars => Booked' /\ [Promise!Next]_(Promise!vars)
<1> SUFFICES ASSUME TypeOK, Booked, [Next]_vars
             PROVE  Booked' /\ [Promise!Next]_(Promise!vars)
  OBVIOUS
<1>0. batch \in [Proc -> Batch] /\ record \in [Device -> {"none", "pending", "sent"}]
  BY FlushTyped
<1>1. ASSUME NEW p \in Proc, p # Flush,
             \/ \E I \in SUBSET Item : Start(p, I)
             \/ Send(p) \/ GiveUp(p) \/ Finish(p)
             \/ \E now \in BOOLEAN : Restart(p, now)
      PROVE  Booked' /\ UNCHANGED Promise!vars
  <2>1. record' = record /\ \E b : Step(p, b)
    BY <1>1 DEF Start, Send, GiveUp, Finish, Restart, Deliver, CalledDead, Refuse,
                Throttle, Judge, Retire, Hold, Return, Recorded
  <2>2. batch'[Flush] = batch[Flush]
    BY <1>0, <1>1, <2>1, ProcAssumption DEF Step
  <2> QED BY <2>1, <2>2, Unmoved
<1>2. ASSUME NEW now \in BOOLEAN, Restart(Flush, now)
      PROVE  Booked' /\ [Promise!Next]_(Promise!vars)
  <2>1. record' = record /\ batch'[Flush] = NoBatch
    BY <1>0, <1>2, ProcAssumption DEF Restart, Step
  <2>2. Mine' = {} /\ Carried' = {} /\ Verdicts' = {} /\ batch'[Flush].at = "off"
        /\ batch'[Flush].todo = {} /\ batch'[Flush].dead = {}
    BY <2>1 DEF NoBatch, Mine, Carried, Verdicts
  <2>3. Booked'
    BY <2>2 DEF Booked
  <2>4. Pending' = Pending /\ Released(Flush)' = {} /\ Pending' \ Mine' = Pending
    BY <2>1, <2>2 DEF Released, Mine, Pending
  <2>5. CASE batch[Flush].at = "off"
    <3>1. Mine = {}
      BY <2>5 DEF Booked
    <3> QED BY <2>1, <2>2, <2>3, <2>4, <2>5, <3>1 DEF Promise!vars, Released, Mine
  <2>6. CASE batch[Flush].at # "off"
    <3>1. Promise!Abort
      BY <2>1, <2>2, <2>4, <2>6 DEF Promise!Abort, Released, Mine
    <3> QED BY <2>3, <3>1 DEF Promise!Next
  <2> QED BY <2>5, <2>6
<1>3. ASSUME NEW d \in Device, NextKey(d) PROVE Booked' /\ [Promise!Next]_(Promise!vars)
  <2>1. /\ batch' = batch /\ batch[Flush].at = "off" /\ Mine = {} /\ Carried = {}
        /\ {d} \in SUBSET Device /\ Recorded(Flush, {d}, "none")
    BY <1>3 DEF NextKey, Booked
  <2>2. /\ \A e \in Device : record'[e] = IF e \in {d} THEN "none" ELSE record[e]
        /\ Pending' = Pending \ {d}
    BY <2>1, Written
  <2>3. Booked'
    BY <2>1 DEF Booked, Mine, Carried, Verdicts
  <2>4. Promise!Prune(d)
    BY <2>1, <2>2 DEF Promise!Prune, Released, Mine
  <2> QED BY <2>3, <2>4 DEF Promise!Next
<1>4. ASSUME record' = record, batch' = batch PROVE Booked' /\ UNCHANGED Promise!vars
  BY <1>4, Unmoved
<1>5. ASSUME NEW d \in Device,
             \/ Delete(d) \/ EvidencePruned(d)
             \/ \E t \in Token : Register(d, t) \/ ChangeToken(d, t)
      PROVE  record' = record /\ batch' = batch
  BY <1>5 DEF Delete, EvidencePruned, Register, ChangeToken, SetRow
<1>6. ASSUME NEW t \in Token, PhoneGone(t) PROVE record' = record /\ batch' = batch
  BY <1>6 DEF PhoneGone
<1>7. CASE UNCHANGED vars
  BY <1>4, <1>7 DEF vars
<1> QED BY <1>1, <1>2, <1>3, <1>4, <1>5, <1>6, <1>7, FlushStep DEF Next

(* send_push_batch keeps the contract it shares with the mail batches.     *)
THEOREM KeepsThePromiseHolds == Spec => KeepsThePromise
<1>1. Init => Booked /\ Promise!Init
  BY ProcAssumption DEF Init, Booked, Mine, Carried, Verdicts, NoBatch,
                        Promise!Init, Released, Pending
<1>2. TypeOK /\ Booked /\ [Next]_vars => Booked'
  BY BookedStep
<1>3. TypeOK /\ Booked /\ [Next]_vars => [Promise!Next]_(Promise!vars)
  BY BookedStep
<1> QED BY <1>1, <1>2, <1>3, TypeInvariant, PTL DEF Spec, KeepsThePromise, Promise!Spec
=============================================================================
