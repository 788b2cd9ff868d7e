-------------------------- MODULE MCDigestDelivery --------------------------
(* Instances of DigestDelivery for TLC: a few subscribers, one or two      *)
(* slots, quotas small enough that both walls come up.                     *)
EXTENDS DigestDelivery, TLC

CONSTANTS m1, m2, m3, a1

(* Ids interleave the channels, so that ties are broken across them.       *)
MCId == [s \in Sub |-> CASE s = m1 -> 1 [] s = m2 -> 2 [] s = a1 -> 3
                         [] OTHER -> 4]

=============================================================================
