------------------------------ MODULE PushBatch ------------------------------
(***************************************************************************)
(* A push batch (app/push.py, send_push_batch): one request per item to    *)
(* the relay of a platform, and the judgement of tokens the relay calls    *)
(* dead.  The relay says the same of every token while our settings for    *)
(* the platform are wrong, so a device is retired only on evidence that    *)
(* the platform works: a delivery since the device first answered dead.    *)
(*                                                                         *)
(* A batch reads the devices once and then sends for minutes, beside other *)
(* batches (the digest flush, the verification senders) and beside the     *)
(* handlers that change the devices.  One platform: the batch keeps its    *)
(* books per platform, and only its budget spans them, which here may run  *)
(* out at any moment.                                                      *)
(***************************************************************************)
EXTENDS Naturals, FiniteSets

CONSTANTS Device, Token,
          Proc,      \* threads that run batches
          Flush,     \* the digest flush; the others verify devices
          None,
          MaxItems   \* bound: items in batches at a time

ASSUME ProcAssumption == Flush \in Proc
ASSUME NoneAssumption == None \notin Token
ASSUME BoundAssumption == MaxItems \in Nat

VARIABLES
  device,  \* push_devices
  alive,   \* tokens with an app behind them
  right,   \* the platform settings a process was started with are right
  batch,   \* a process's batch
  record,  \* sent_idempotency, of the flush's item for a device
  story    \* history: what the relay told of living phones

vars == <<device, alive, right, batch, record, story>>

(* A row: here "none" (no row), "live" or "retired"; its token; dead:      *)
(* dead_since is not set, set, or set and followed by a delivery that      *)
(* sent_idempotency still shows.                                           *)
Row == [here: {"none", "live", "retired"}, token: Token \cup {None},
        dead: {"no", "bare", "proven"}]
NoRow == [here |-> "none", token |-> None, dead |-> "no"]

Item == Device \X Token

(* at: where the batch stands; mine: devices whose item the batch claimed; *)
(* todo: claimed items not tried yet; dead:                                *)
(* items the relay called dead, and after the judgement those to hold;     *)
(* doomed: those to retire; proof: this batch delivered something.         *)
Batch == [at: {"off", "sending", "judged", "retired", "held"},
          mine: SUBSET Device, todo: SUBSET Item, dead: SUBSET Item, doomed: SUBSET Item, proof: BOOLEAN]
NoBatch == [at |-> "off", mine |-> {}, todo |-> {}, dead |-> {}, doomed |-> {}, proof |-> FALSE]

(* Nothing yet; a living phone was called dead; and then a delivery went   *)
(* out.                                                                    *)
Stories == {"clean", "wrong", "righted"}

-----------------------------------------------------------------------------
Live(d) == device[d].here = "live"
Taken(t) == \E d \in Device : device[d].token = t

(* The row still holds the item's token.                                   *)
Holds(i) == device[i[1]].token = i[2]

Step(p, b) == batch' = [batch EXCEPT ![p] = b]

(* A verification push has a key of its minute, and only one sender claims *)
(* a device's minute (VerifyBudget): its record holds nothing up.          *)
Recorded(p, D, as) ==
  record' = IF p = Flush THEN [d \in Device |-> IF d \in D THEN as ELSE record[d]]
            ELSE record

Devices(I) == {i[1] : i \in I}

Claims == UNION {{p} \X batch[p].mine : p \in Proc}

(* live_devices, and the test of the token.  A digest's item also needs a  *)
(* verified row (DeviceVerification): here an item may go out for any.     *)
Sendable(i) == Live(i[1]) /\ Holds(i)

(* One transaction claims the items that can be sent and are not recorded, *)
(* the stale claims of a batch that died among them; the others are        *)
(* undeliverable, or sent already.                                         *)
Start(p, I) ==
  /\ batch[p].at = "off"
  /\ I # {} /\ Cardinality(Claims) + Cardinality(I) <= MaxItems
  /\ \A i, j \in I : i[1] = j[1] => i = j
  /\ \A i \in I : Sendable(i) /\ (p = Flush => record[i[1]] # "sent")
  /\ Step(p, [NoBatch EXCEPT !.at = "sending", !.mine = Devices(I), !.todo = I])
  /\ Recorded(p, Devices(I), "pending")
  /\ UNCHANGED <<device, alive, right, story>>

Trying(p, i) == batch[p].at = "sending" /\ i \in batch[p].todo

(* 200: the claim becomes the record of a delivery, which is evidence for  *)
(* every other device that answered dead; the device's own mark goes.      *)
Deliver(p, i) ==
  /\ Trying(p, i)
  /\ right[p]
  /\ Step(p, [batch[p] EXCEPT !.todo = @ \ {i}, !.proof = TRUE])
  /\ Recorded(p, {i[1]}, "sent")
  /\ device' = [d \in Device |->
       [device[d] EXCEPT !.dead = IF d = i[1] /\ Holds(i) THEN "no"
                                  ELSE IF @ = "bare" THEN "proven" ELSE @]]
  /\ story' = IF story = "wrong" THEN "righted" ELSE story
  /\ UNCHANGED <<alive, right>>

(* What a living phone is told under wrong settings.                       *)
Told(i) == story' = IF i[2] \in alive /\ story = "clean" THEN "wrong" ELSE story

(* Dead token: judged after the loop.                                      *)
CalledDead(p, i) ==
  /\ Trying(p, i)
  /\ ~right[p] \/ i[2] \notin alive
  /\ Step(p, [batch[p] EXCEPT !.todo = @ \ {i}, !.dead = @ \cup {i}])
  /\ Told(i)
  /\ UNCHANGED <<device, alive, right, record>>

(* A refused payload is dropped and its claim deleted; an item the client  *)
(* cannot even send goes the same way.  (Refusals count for the sender of  *)
(* a verification when the batch delivered something: VerifyBudget.)       *)
Refuse(p, i) ==
  /\ Trying(p, i)
  /\ Step(p, [batch[p] EXCEPT !.todo = @ \ {i}])
  /\ Recorded(p, {i[1]}, "none")
  /\ UNCHANGED <<device, alive, right, story>>

(* A throttled token: released at the end.                                 *)
Throttle(p, i) ==
  /\ Trying(p, i)
  /\ right[p]
  /\ Step(p, [batch[p] EXCEPT !.todo = @ \ {i}])
  /\ UNCHANGED <<device, alive, right, record, story>>

(* An outage, a quota, our credentials refused twice, the budget spent:    *)
(* the rest is released at the end.                                        *)
GiveUp(p) ==
  /\ batch[p].at = "sending" /\ batch[p].todo # {}
  /\ Step(p, [batch[p] EXCEPT !.todo = {}])
  /\ UNCHANGED <<device, alive, right, record, story>>

(* Mutant: a second dead answer is evidence enough.                        *)
EvidenceTwice(p, i) == \/ batch[p].proof
                       \/ Holds(i) /\ device[i[1]].dead # "no"

(* The platform delivered in this batch, or since the device first         *)
(* answered dead.                                                          *)
Evidence(p, i) == \/ batch[p].proof
                  \/ Holds(i) /\ device[i[1]].dead = "proven"

(* After the loop: whom the dead answers stand against.                    *)
Judge(p) ==
  LET doomed == {i \in batch[p].dead : Evidence(p, i)}
  IN /\ batch[p].at = "sending" /\ batch[p].todo = {}
     /\ Step(p, [batch[p] EXCEPT !.at = "judged", !.doomed = doomed,
                                 !.dead = @ \ doomed])
     /\ UNCHANGED <<device, alive, right, record, story>>

(* Mutant: the row is retired by its id alone.                             *)
RetiresById(i) == Live(i[1])

(* retire_device: WHERE id = ? AND token = ? AND retired_at IS NULL        *)
Retires(i) == Live(i[1]) /\ Holds(i)

Retire(p) ==
  /\ batch[p].at = "judged"
  /\ device' = [d \in Device |->
       IF \E i \in batch[p].doomed : i[1] = d /\ Retires(i)
       THEN [device[d] EXCEPT !.here = "retired"] ELSE device[d]]
  /\ Recorded(p, Devices(batch[p].doomed), "none")
  /\ Step(p, [batch[p] EXCEPT !.at = "retired", !.doomed = {}])
  /\ UNCHANGED <<alive, right, story>>

(* Without evidence the first dead answer is remembered.                   *)
Hold(p) ==
  /\ batch[p].at = "retired"
  /\ device' = [d \in Device |->
       IF <<d, device[d].token>> \in batch[p].dead /\ device[d].dead = "no"
       THEN [device[d] EXCEPT !.dead = "bare"] ELSE device[d]]
  /\ Step(p, [batch[p] EXCEPT !.at = "held", !.dead = {}])
  /\ UNCHANGED <<alive, right, record, story>>

Pending == {d \in Device : record[d] = "pending"}

(* Mutant: held devices keep their claims.                                 *)
ReleasedButHeld(p) == {d \in batch[p].mine \cap Pending : device[d].dead = "no"}

(* Every claim of the batch that is neither delivered nor dropped.         *)
Released(p) == batch[p].mine \cap Pending

Return(p) ==
  /\ batch[p].at = "held"
  /\ Recorded(p, Released(p), "none")
  /\ Step(p, NoBatch)
  /\ UNCHANGED <<device, alive, right, story>>

-----------------------------------------------------------------------------
(* The process is started again, with the settings as they are by then.    *)
Restart(p, now) ==
  /\ batch[p].at # "off" \/ right[p] # now
  /\ right' = [right EXCEPT ![p] = now]
  /\ Step(p, NoBatch)
  /\ UNCHANGED <<device, alive, record, story>>

(* The next cycle's keys are new ones, and old records are pruned.         *)
NextKey(d) ==
  /\ batch[Flush].at = "off" /\ record[d] # "none"
  /\ Recorded(Flush, {d}, "none")
  /\ UNCHANGED <<device, alive, right, batch, story>>

(* Fourteen days: no record shows a delivery since dead_since.             *)
EvidencePruned(d) ==
  /\ device[d].dead = "proven"
  /\ device' = [device EXCEPT ![d].dead = "bare"]
  /\ UNCHANGED <<alive, right, batch, record, story>>

(* The handlers of the API (DeviceVerification): a row is made,            *)
(* registered again, given another token, deleted.                         *)
SetRow(d, r) ==
  /\ device' = [device EXCEPT ![d] = r]
  /\ UNCHANGED <<alive, right, batch, record, story>>

(* An id is new only when no batch remembers it.                           *)
NewId(d) == \A p \in Proc : \A i \in batch[p].todo \cup batch[p].dead
                                       \cup batch[p].doomed : i[1] # d

Register(d, t) ==
  \/ /\ device[d].here = "none" /\ NewId(d) /\ ~Taken(t)
     /\ SetRow(d, [NoRow EXCEPT !.here = "live", !.token = t])
  \/ /\ device[d].token = t
     /\ device[d].here = "retired" \/ device[d].dead # "no"
     /\ SetRow(d, [device[d] EXCEPT !.here = "live", !.dead = "no"])

ChangeToken(d, t) ==
  /\ Live(d) /\ ~Taken(t)
  /\ SetRow(d, [device[d] EXCEPT !.token = t, !.dead = "no"])

Delete(d) == device[d].here # "none" /\ SetRow(d, NoRow)

(* The app is uninstalled.                                                 *)
PhoneGone(t) ==
  /\ t \in alive
  /\ alive' = alive \ {t}
  /\ UNCHANGED <<device, right, batch, record, story>>

-----------------------------------------------------------------------------
Init ==
  /\ device = [d \in Device |-> NoRow]
  /\ alive = Token
  /\ right \in [Proc -> BOOLEAN]
  /\ batch = [p \in Proc |-> NoBatch]
  /\ record = [d \in Device |-> "none"]
  /\ story = "clean"

Send(p) == \E i \in batch[p].todo :
  Deliver(p, i) \/ CalledDead(p, i) \/ Refuse(p, i) \/ Throttle(p, i)

Finish(p) == Judge(p) \/ Retire(p) \/ Hold(p) \/ Return(p)

Next ==
  \/ \E p \in Proc : \/ \E I \in SUBSET Item : Start(p, I)
                     \/ Send(p) \/ GiveUp(p) \/ Finish(p)
                     \/ \E now \in BOOLEAN : Restart(p, now)
  \/ \E d \in Device : \/ Delete(d) \/ EvidencePruned(d) \/ NextKey(d)
                       \/ \E t \in Token : Register(d, t) \/ ChangeToken(d, t)
  \/ \E t \in Token : PhoneGone(t)

Spec == Init /\ [][Next]_vars

-----------------------------------------------------------------------------
TypeOK ==
  /\ device \in [Device -> Row]
  /\ \A d \in Device : device[d].here = "none" <=> device[d].token = None
  /\ alive \subseteq Token
  /\ right \in [Proc -> BOOLEAN]
  /\ batch \in [Proc -> Batch]
  /\ record \in [Device -> {"none", "pending", "sent"}]
  /\ story \in Stories

(* A retired row's phone has lost the app, whatever changed while a batch  *)
(* was sending: a late verdict spares the new token, and wrong settings    *)
(* retire nobody before the platform has delivered something after its     *)
(* first wrong answer.                                                     *)
RetiredIsDead ==
  \A d \in Device :
    device[d].here = "retired" => device[d].token \notin alive \/ story = "righted"

Promise == INSTANCE MailPromise WITH
  Key      <- Device,
  running  <- batch[Flush].at # "off",
  open     <- Released(Flush),
  recorded <- {d \in Device : record[d] = "sent"},
  orphan   <- Pending \ batch[Flush].mine

(* "Same contract as app.mail.send_batch": the flush's batches implement   *)
(* the promise of the mail batches, claims, records, releases and all.     *)
KeepsThePromise == Promise!Spec
=============================================================================
