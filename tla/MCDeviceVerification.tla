------------------------ MODULE MCDeviceVerification ------------------------
(* Instances of DeviceVerification for TLC: Ada's phone changes from token *)
(* t1 to t2, Eve's phone has t3, and Eve knows all of them.                *)
EXTENDS DeviceVerification, TLC

CONSTANTS ada, eve, t1, t2, t3, a1, a2, e1, e2

MCPhone  == [t \in Token |-> IF t = t3 THEN eve ELSE ada]
MCHolder == [x \in Secret |-> IF x \in {e1, e2} THEN eve ELSE ada]

Symmetric == Permutations(Worker) \cup Permutations(Sender)
=============================================================================
