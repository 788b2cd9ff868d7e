------------------------------ MODULE MailBatch ------------------------------
(***************************************************************************)
(* mail.send_batch: one batch after another claims its items, walks the    *)
(* provider chain within each provider's window, judges the items of a     *)
(* call one by one (_deliver: per-message verdicts, or bisection), records *)
(* what was accepted, strikes what every provider refused and releases the *)
(* rest.                                                                   *)
(*                                                                         *)
(* There is one batch at a time: every caller runs in the poller's main    *)
(* loop, and the web workers send single mails under keys of their own     *)
(* (OtherMail).  The keys here are stable ones, such as a confirmation's   *)
(* or a check-in's, so that a later batch may carry an item again.         *)
(***************************************************************************)
EXTENDS Naturals, Sequences, FiniteSets

CONSTANTS Key,         \* idempotency keys
          Address,     \* recipients
          To,          \* the recipient of a key
          Providers,   \* length of the provider chain; 1 is asked first
          BatchSize,   \* items a provider takes in one call
          Quota,       \* mails a provider takes in its window
          MaxFailures, \* max_send_failures_per_address
          SystemicMin, \* _SYSTEMIC_REJECTION_MIN
          MaxFaults,   \* bound: crashes, raising writes, lost answers
          MaxOther     \* bound: mails beside the batches

Provider == 1 .. Providers

ASSUME KeyAssumption == IsFiniteSet(Key) /\ To \in [Key -> Address]
ASSUME ChainAssumption ==
  /\ Providers \in Nat /\ Quota \in [Provider -> Nat]
  /\ BatchSize \in [Provider -> Nat \ {0}]
ASSUME LimitAssumption ==
  /\ MaxFailures \in Nat \ {0} /\ SystemicMin \in Nat \ {0}
  /\ MaxFaults \in Nat /\ MaxOther \in Nat

VARIABLES
  claim,      \* sent_idempotency: "none", "pending", "stale" (pending for
              \* _STALE_CLAIM_MINUTES), "sent" (a provider's name)
  used,       \* sends in each provider's window
  failures,   \* email_failures, counted up to MaxFailures
  suppressed, \* email_suppressions
  pc,         \* "idle", "choosing" a provider, "calling", "striking", "deferring"
  at,         \* the provider in turn
  room,       \* what its window still takes
  queue,      \* remaining: items to be tried, in order
  refused,    \* items the provider in turn refused
  call,       \* items of the current call still without a verdict
  accepted,   \* items of the current call the provider took
  served,     \* sent_by_provider of the provider in turn
  list,       \* history: the batch as claimed
  delivered,  \* of this batch: items recorded as sent
  turnedDown, \* history: <<item, provider>> refusals in this batch
  excused,    \* history: providers that failed or ran out of room in it
  mails,      \* history: times a key was accepted, since its record was pruned
  doubts,     \* history: those of them that were never recorded
  faults, others  \* bounded counters

table   == <<claim, used, failures>>
chain   == <<at, room, queue, refused>>
current == <<call, accepted, served>>
batch   == <<list, delivered, turnedDown, excused>>
ghosts  == <<mails, doubts, faults, others>>
vars    == <<table, suppressed, pc, chain, current, batch, ghosts>>

Items(q) == {q[i] : i \in DOMAIN q}
InFlight == Items(queue) \cup Items(refused) \cup accepted
Less(a, b) == IF b < a THEN a - b ELSE 0
Smaller(a, b) == IF a < b THEN a ELSE b

-----------------------------------------------------------------------------
(* The world around the batch.                                             *)

(* A confirmation's or management mail of a web worker (mail.send), which  *)
(* looks at no window.                                                     *)
OtherMail(p) ==
  /\ others < MaxOther /\ others' = others + 1
  /\ used' = [used EXCEPT ![p] = @ + 1]
  /\ UNCHANGED <<claim, failures, suppressed, pc, chain, current, batch, mails,
                 doubts, faults>>

WindowFrees(p) ==
  /\ used[p] > 0
  /\ used' = [used EXCEPT ![p] = @ - 1]
  /\ UNCHANGED <<claim, failures, suppressed, pc, chain, current, batch, ghosts>>

(* A bounce or complaint webhook; and an address that signs up again, for  *)
(* which a bounce is forgotten and a complaint is not.                     *)
Suppress(a) ==
  /\ suppressed' = suppressed \cup {a}
  /\ UNCHANGED <<table, pc, chain, current, batch, ghosts>>

Rearm(a) ==
  /\ suppressed' \in {suppressed \ {a}, suppressed}
  /\ failures' = [failures EXCEPT ![a] = 0]
  /\ UNCHANGED <<claim, used, pc, chain, current, batch, ghosts>>

(* The claim of a process that died is believed for a while only.          *)
GoesStale(k) ==
  /\ claim[k] = "pending" /\ k \notin InFlight
  /\ claim' = [claim EXCEPT ![k] = "stale"]
  /\ UNCHANGED <<used, failures, suppressed, pc, chain, current, batch, ghosts>>

(* _prune_idempotency, after fourteen days.                                *)
Prune(k) ==
  /\ pc = "idle" /\ claim[k] # "none"
  /\ claim' = [claim EXCEPT ![k] = "none"]
  /\ mails' = [mails EXCEPT ![k] = 0] /\ doubts' = [doubts EXCEPT ![k] = 0]
  /\ UNCHANGED <<used, failures, suppressed, pc, chain, current, batch, faults, others>>

-----------------------------------------------------------------------------
(* The batch.                                                              *)

_dead_addresses == suppressed \cup {a \in Address : failures[a] >= MaxFailures}

(* Mutant: a pending claim is believed for ever.                           *)
ClaimableFresh == {k \in Key : claim[k] = "none"}

(* _claim, by one transaction for the whole batch.                         *)
Claimable == {k \in Key : claim[k] \in {"none", "stale"}}

Lists == UNION {[1 .. n -> Key] : n \in 0 .. Cardinality(Key)}

(* A caller's items in its order, less the dead addresses, the sent and    *)
(* the keys believed to be in flight.                                      *)
Open(q) ==
  /\ pc = "idle"
  /\ \A i \in DOMAIN q : q[i] \in Claimable /\ To[q[i]] \notin _dead_addresses
  /\ \A i, j \in DOMAIN q : q[i] = q[j] => i = j
  /\ claim' = [k \in Key |-> IF k \in Items(q) THEN "pending" ELSE claim[k]]
  /\ pc' = "choosing"
  /\ queue' = q /\ list' = q
  /\ UNCHANGED <<used, failures, suppressed, at, room, refused, current, delivered,
                 turnedDown, excused, ghosts>>

(* What the provider in turn refused gets one more chance at the next.     *)
HandedOn == queue \o refused

_headroom(p) == Less(Quota[p], used[p])

(* Mutant: only what was not tried goes to the next provider.              *)
NextProviderForTheRest ==
  /\ pc = "choosing" /\ at < Providers /\ queue # <<>>
  /\ pc' = "calling"
  /\ at' = at + 1 /\ room' = _headroom(at + 1) /\ served' = 0
  /\ UNCHANGED <<table, suppressed, queue, refused, call, accepted, batch, ghosts>>

(* The next provider of the chain, with the room of its window.            *)
NextProvider ==
  /\ pc = "choosing" /\ at < Providers /\ HandedOn # <<>>
  /\ pc' = "calling"
  /\ at' = at + 1 /\ room' = _headroom(at + 1) /\ served' = 0
  /\ queue' = HandedOn /\ refused' = <<>>
  /\ UNCHANGED <<table, suppressed, call, accepted, batch, ghosts>>

Chunk == Smaller(Smaller(BatchSize[at], room), Len(queue))

(* A call to the provider, with the next items of the queue.               *)
Call ==
  /\ pc = "calling" /\ call = 0 /\ accepted = {}
  /\ queue # <<>> /\ room > 0
  /\ call' = Chunk
  /\ UNCHANGED <<table, suppressed, pc, chain, accepted, served, batch, ghosts>>

(* _deliver judges the items of a call in order.                           *)
Accept ==
  /\ call > 0 /\ call' = call - 1
  /\ accepted' = accepted \cup {Head(queue)}
  /\ queue' = Tail(queue)
  /\ mails' = [mails EXCEPT ![Head(queue)] = @ + 1]
  /\ UNCHANGED <<table, suppressed, pc, at, room, refused, served, batch, doubts,
                 faults, others>>

Refuse ==
  /\ call > 0 /\ call' = call - 1
  /\ refused' = Append(refused, Head(queue))
  /\ queue' = Tail(queue)
  /\ turnedDown' = turnedDown \cup {<<Head(queue), at>>}
  /\ UNCHANGED <<table, suppressed, pc, at, room, accepted, served, list, delivered,
                 excused, ghosts>>

(* The transaction after a call: what was accepted is sent and counted,    *)
(* and the failures of its addresses are cleared.                          *)
Record ==
  /\ claim' = [k \in Key |-> IF k \in accepted THEN "sent" ELSE claim[k]]
  /\ used' = [used EXCEPT ![at] = @ + Cardinality(accepted)]
  /\ failures' = [a \in Address |-> IF \E k \in accepted : To[k] = a
                                    THEN 0 ELSE failures[a]]
  /\ delivered' = delivered \cup accepted /\ served' = served + Cardinality(accepted)
  /\ accepted' = {} /\ call' = 0
  /\ UNCHANGED <<suppressed, pc, at, refused, list, turnedDown, excused, others>>

Answered ==
  /\ pc = "calling" /\ call = 0 /\ accepted # {}
  /\ Record
  /\ room' = room - Cardinality(accepted)
  /\ UNCHANGED <<queue, mails, doubts, faults>>

Fault == faults < MaxFaults /\ faults' = faults + 1
Doubt(S) == doubts' = [k \in Key |-> doubts[k] + IF k \in S THEN 1 ELSE 0]
Taken(S) == mails' = [k \in Key |-> mails[k] + IF k \in S THEN 1 ELSE 0]
Unjudged == {queue[i] : i \in 1 .. call}

(* Mutant: the call a provider failed at goes to the back of the queue.    *)
ProviderFailsToTheBack ==
  /\ call > 0
  /\ Record /\ room' = 0
  /\ queue' = SubSeq(queue, call + 1, Len(queue)) \o SubSeq(queue, 1, call)
  /\ UNCHANGED <<mails, doubts, faults>>

(* An error status, or a timeout after some of the call was taken: no room *)
(* to ask this provider for more, and the rest is the next one's.          *)
ProviderFails ==
  /\ call > 0
  /\ Record /\ room' = 0
  /\ \/ UNCHANGED <<mails, doubts, faults>>
     \/ \E S \in SUBSET Unjudged : Fault /\ Doubt(S) /\ Taken(S)
  /\ UNCHANGED queue

(* Nothing delivered and too many refused: no verdict on the recipients.   *)
Systemic == Len(refused) >= SystemicMin /\ served = 0

(* Out of items, or out of room, with the provider in turn.                *)
Leave ==
  /\ pc = "calling" /\ call = 0 /\ accepted = {}
  /\ queue = <<>> \/ room = 0
  /\ pc' = "choosing"
  /\ excused' = IF room = 0 \/ Systemic THEN excused \cup {at} ELSE excused
  /\ queue' = IF Systemic THEN HandedOn ELSE queue
  /\ refused' = IF Systemic THEN <<>> ELSE refused
  /\ UNCHANGED <<table, suppressed, at, room, current, list, delivered, turnedDown,
                 ghosts>>

(* The chain is at its end, or there is nothing to hand on.                *)
ChainEnds ==
  /\ pc = "choosing" /\ (at = Providers \/ HandedOn = <<>>)
  /\ pc' = "striking"
  /\ UNCHANGED <<table, suppressed, chain, current, batch, ghosts>>

Released(S) == claim' = [k \in Key |-> IF k \in S THEN "none" ELSE claim[k]]

(* Out of send_batch: its locals are gone.                                 *)
Gone ==
  /\ pc' = "idle"
  /\ at' = 0 /\ room' = 0 /\ queue' = <<>> /\ refused' = <<>>
  /\ call' = 0 /\ accepted' = {} /\ served' = 0
  /\ list' = <<>> /\ delivered' = {} /\ turnedDown' = {} /\ excused' = {}

(* Mutant: a refused item keeps its claim.                                 *)
StrikeUnreleased ==
  /\ pc = "striking" /\ pc' = "deferring"
  /\ refused' = <<>>
  /\ failures' = [a \in Address |->
       Smaller(MaxFailures, failures[a] + Cardinality({k \in Items(refused) : To[k] = a}))]
  /\ UNCHANGED <<claim, used, suppressed, at, room, queue, current, batch, ghosts>>

(* One transaction: a failure for every refused item, and its release.     *)
Strike ==
  /\ pc = "striking" /\ pc' = "deferring"
  /\ Released(Items(refused)) /\ refused' = <<>>
  /\ failures' = [a \in Address |->
       Smaller(MaxFailures, failures[a] + Cardinality({k \in Items(refused) : To[k] = a}))]
  /\ UNCHANGED <<used, suppressed, at, room, queue, current, batch, ghosts>>

(* Mutant: the whole batch is released, what was delivered included.       *)
DeferAll ==
  /\ pc = "deferring" /\ Gone
  /\ Released(Items(list))
  /\ UNCHANGED <<used, failures, suppressed, ghosts>>

(* Another transaction: the rest is released, and the batch returns.       *)
Defer ==
  /\ pc = "deferring" /\ Gone
  /\ Released(Items(queue))
  /\ UNCHANGED <<used, failures, suppressed, ghosts>>

(* A write raises, or the process dies: claims stay, and what the provider *)
(* took in this call is not recorded.                                      *)
Dies ==
  /\ pc # "idle" /\ Gone
  /\ Fault
  /\ \E S \in SUBSET Unjudged : Doubt(S \cup accepted) /\ Taken(S)
  /\ UNCHANGED <<table, suppressed, others>>

-----------------------------------------------------------------------------
Init ==
  /\ claim = [k \in Key |-> "none"]
  /\ used = [p \in Provider |-> 0]
  /\ failures = [a \in Address |-> 0] /\ suppressed = {}
  /\ pc = "idle" /\ at = 0 /\ room = 0 /\ queue = <<>> /\ refused = <<>>
  /\ call = 0 /\ accepted = {} /\ served = 0
  /\ list = <<>> /\ delivered = {} /\ turnedDown = {} /\ excused = {}
  /\ mails = [k \in Key |-> 0] /\ doubts = [k \in Key |-> 0]
  /\ faults = 0 /\ others = 0

World ==
  \/ \E p \in Provider : OtherMail(p) \/ WindowFrees(p)
  \/ \E a \in Address : Suppress(a) \/ Rearm(a)
  \/ \E k \in Key : GoesStale(k) \/ Prune(k)

Batch == \/ NextProvider \/ Call \/ Accept \/ Refuse \/ Answered \/ ProviderFails
         \/ Leave \/ ChainEnds \/ Strike \/ Defer

Next == World \/ (\E q \in Lists : Open(q)) \/ Batch \/ Dies

Spec == Init /\ [][Next]_vars

(* A batch gets on (every call has a timeout), the clock runs, and every   *)
(* caller brings an unsent item again in a later cycle or run.             *)
Fairness ==
  /\ WF_vars(Batch)
  /\ \A k \in Key : /\ WF_vars(GoesStale(k))
                     /\ SF_vars(\E q \in Lists : k \in Items(q) /\ Open(q))

FairSpec == Spec /\ Fairness

-----------------------------------------------------------------------------
TypeOK ==
  /\ claim \in [Key -> {"none", "pending", "stale", "sent"}]
  /\ used \in [Provider -> Nat]
  /\ failures \in [Address -> 0 .. MaxFailures] /\ suppressed \subseteq Address
  /\ pc \in {"idle", "choosing", "calling", "striking", "deferring"}
  /\ at \in 0 .. Providers /\ room \in Nat
  /\ queue \in Seq(Key) /\ refused \in Seq(Key) /\ list \in Seq(Key)
  /\ call \in 0 .. Len(queue) /\ accepted \subseteq Key /\ served \in Nat
  /\ delivered \subseteq Key /\ turnedDown \subseteq Key \X Provider
  /\ excused \subseteq Provider
  /\ mails \in [Key -> Nat] /\ doubts \in [Key -> Nat]
  /\ faults \in Nat /\ others \in Nat

(* A key is mailed once until its record is pruned, and again only for     *)
(* every time its acceptance never came to be recorded: a lost answer, a   *)
(* raising write, a dead process.                                          *)
OneMailPerKey == \A k \in Key : mails[k] <= 1 + doubts[k]

(* The batches push no provider past its window; only other mail does.     *)
WindowKept == \A p \in Provider : used[p] <= Quota[p] + others

(* An address is struck only when every provider refused its item, but for *)
(* those that failed, had no room, or refused everything.                  *)
EveryProviderRefused ==
  pc = "striking" =>
    \A k \in Items(refused), p \in Provider :
      <<k, p>> \in turnedDown \/ p \in excused

(* The tail is deferred: nobody is left behind for an item further down    *)
(* the caller's list, unless a provider refused him.                       *)
TailDeferred ==
  pc = "deferring" =>
    \A i, j \in DOMAIN list :
      i < j /\ list[i] \in Items(queue) /\ list[j] \in delivered
        => \E p \in Provider : <<list[i], p>> \in turnedDown

(* What the callers rely on (MailPromise).                                 *)
Orphans == {k \in Key : claim[k] \in {"pending", "stale"}} \ InFlight
Promise == INSTANCE MailPromise WITH running <- pc # "idle", open <- InFlight,
             recorded <- {k \in Key : claim[k] = "sent"}, orphan <- Orphans
KeepsThePromise == Promise!Spec

(* No claim of a dead process silences a key for good: while its address   *)
(* is good, a later batch takes it over.                                   *)
ClaimIsSettled ==
  \A k \in Key :
    <>[](To[k] \notin _dead_addresses)
      => (claim[k] \in {"pending", "stale"} ~> claim[k] \in {"none", "sent"})
=============================================================================
