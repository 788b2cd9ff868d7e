----------------------------- MODULE MCPollCycle -----------------------------
(* Instances of PollCycle for TLC.                                         *)
EXTENDS PollCycle
=============================================================================
