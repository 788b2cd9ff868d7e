---------------------------- MODULE MCMailBatch ----------------------------
(* Instances of MailBatch for TLC: a chain of two providers, the first     *)
(* taking two items a call as Mailjet takes fifty, the second one.         *)
EXTENDS MailBatch

MCTo == [k \in Key |-> CHOOSE a \in Address : TRUE]
MCBatchSize == <<2, 1>>
MCQuota == <<1, 2>>
=============================================================================
