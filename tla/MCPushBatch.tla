----------------------------- MODULE MCPushBatch -----------------------------
(* Instances of PushBatch for TLC.                                         *)
EXTENDS PushBatch, TLC

Symmetric == Permutations(Device) \cup Permutations(Token)
=============================================================================
