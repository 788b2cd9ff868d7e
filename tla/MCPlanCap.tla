------------------------------ MODULE MCPlanCap ------------------------------
(* Instances of PlanCap for TLC: both app rows belong to one device, and    *)
(* rows of a door and services are interchangeable.                         *)
EXTENDS PlanCap, TLC

CONSTANT d1

MCOwner == [s \in AppSub |-> d1]

Symmetric == Permutations(MailSub) \cup Permutations(AppSub) \cup Permutations(Service)
==============================================================================
