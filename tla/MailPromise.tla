----------------------------- MODULE MailPromise -----------------------------
(***************************************************************************)
(* What a mail batch promises its callers (the digest flush, the check-in, *)
(* the confirmations), whatever providers it goes through: an item is      *)
(* recorded as sent at most once until its record is pruned, and when the  *)
(* batch returns every item is either recorded or free to be tried again.  *)
(* Only a batch that does not return leaves orphans, items nobody tries    *)
(* while they are believed to be in flight.  The docstring of              *)
(* mail.send_batch, made precise.                                          *)
(***************************************************************************)
CONSTANT Key     \* idempotency keys

VARIABLES
  running,   \* a batch is under way
  open,      \* its items without a verdict
  recorded,  \* items recorded as sent
  orphan     \* items of batches that did not return

vars == <<running, open, recorded, orphan>>

TypeOK == /\ running \in BOOLEAN
          /\ open \subseteq Key /\ recorded \subseteq Key /\ orphan \subseteq Key

Init == ~running /\ open = {} /\ recorded = {} /\ orphan = {}

(* A batch takes items that are not recorded, orphans among them once they *)
(* are believed lost.                                                      *)
Begin(B) ==
  /\ ~running /\ B \cap recorded = {}
  /\ running' = TRUE /\ open' = B
  /\ orphan' = orphan \ B
  /\ UNCHANGED recorded

Deliver(S) ==
  /\ S \subseteq open
  /\ open' = open \ S /\ recorded' = recorded \cup S
  /\ UNCHANGED <<running, orphan>>

(* Items every provider refused are released while the batch is under way. *)
Release(S) ==
  /\ S \subseteq open
  /\ open' = open \ S
  /\ UNCHANGED <<running, recorded, orphan>>

(* The batch returns; what it had no room for is released.                 *)
Return ==
  /\ running
  /\ running' = FALSE /\ open' = {}
  /\ UNCHANGED <<recorded, orphan>>

(* An exception, or the end of the process.                                *)
Abort ==
  /\ running
  /\ running' = FALSE /\ open' = {} /\ orphan' = orphan \cup open
  /\ UNCHANGED recorded

Prune(k) ==
  /\ ~running
  /\ recorded' = recorded \ {k} /\ orphan' = orphan \ {k}
  /\ UNCHANGED <<running, open>>

Next == \/ \E S \in SUBSET Key : Begin(S) \/ Deliver(S) \/ Release(S)
        \/ Return \/ Abort
        \/ \E k \in Key : Prune(k)

Spec == Init /\ [][Next]_vars

(* What a caller relies on: nothing recorded is tried again, and nothing   *)
(* is both under way and given up.                                         *)
Settled == /\ open \cap (recorded \cup orphan) = {}
           /\ recorded \cap orphan = {}
           /\ open # {} => running
=============================================================================
