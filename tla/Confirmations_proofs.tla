------------------------ MODULE Confirmations_proofs ------------------------
(***************************************************************************)
(* Proofs about Confirmations for any sign-ups, addresses and pool.  The   *)
(* last section counts the confirmations a flood can still get out.        *)
(***************************************************************************)
EXTENDS Confirmations, FiniteSetTheorems, TLAPS

(* The state keeps its type, and between two cycles no batch is open.      *)
THEOREM TypeInvariant == Spec => []TypeOK
<1>1. Init => TypeOK
  BY PoolAssumption DEF Init, TypeOK
<1>2. TypeOK /\ [Next]_vars => TypeOK'
  <2> SUFFICES ASSUME TypeOK, [Next]_vars PROVE TypeOK'
      OBVIOUS
  <2> USE RowAssumption, PoolAssumption DEF TypeOK
  <2>1. ASSUME NEW a \in Address, Asks(a)
        PROVE  TypeOK'
    BY <2>1 DEF Asks, table, pool, block, batch, ghosts
  <2>2. ASSUME NEW a \in Address, TurnedAway(a)
        PROVE  TypeOK'
    BY <2>2 DEF TurnedAway, table, pool, block, batch, ghosts
  <2>3. ASSUME NEW t \in Sub, SignUp(t)
        PROVE  TypeOK'
    BY <2>3 DEF SignUp, Lifted, table, pool, block, batch, ghosts
  <2>4. ASSUME NEW t \in Sub, Confirm(t)
        PROVE  TypeOK'
    BY <2>4 DEF Confirm, table, pool, block, batch, ghosts
  <2>5. ASSUME NEW t \in Sub, Leaves(t)
        PROVE  TypeOK'
    BY <2>5 DEF Leaves, Ended, table, pool, block, batch, ghosts
  <2>6. ASSUME NEW a \in Address, NEW verdict \in {"bounce", "complaint"}, Blocked(a, verdict)
        PROVE  TypeOK'
    BY <2>6 DEF Blocked, Suppressed, Ended, Of, table, pool, block, batch, ghosts
  <2>7. ASSUME NEW a \in Address, SoftBounce(a)
        PROVE  TypeOK'
    <3>1. soft' \in [Address -> 0 .. Threshold]
      BY <2>7 DEF SoftBounce, Smaller
    <3>2. /\ reason' \in [Address -> {"none", "bounce", "complaint"}]
          /\ row' \in [Sub -> {"none", "pending", "confirmed", "deleted", "purged"}]
          /\ young' \subseteq Sub /\ marked' \subseteq Sub
      BY <2>7 DEF SoftBounce, Suppressed, Ended, Of, table
    <3> QED
      BY <2>7, <3>1, <3>2 DEF SoftBounce, pool, batch, ghosts
  <2>8. ASSUME NEW a \in Address, Delivered(a)
        PROVE  TypeOK'
    BY <2>8 DEF Delivered, table, pool, block, batch, ghosts
  <2>9. ASSUME NEW a \in Address, UnsubscribedThere(a)
        PROVE  TypeOK'
    BY <2>9 DEF UnsubscribedThere, Ended, Of, table, pool, block, batch, ghosts
  <2>10. ASSUME NEW t \in Sub, GrowsOld(t)
        PROVE  TypeOK'
    BY <2>10 DEF GrowsOld, table, pool, block, batch, ghosts
  <2>11. ASSUME NEW t \in Sub, GoesStale(t)
        PROVE  TypeOK'
    BY <2>11 DEF GoesStale, table, pool, block, batch, ghosts
  <2>12. ASSUME NEW t \in Sub, AgesOut(t)
        PROVE  TypeOK'
    BY <2>12 DEF AgesOut, table, pool, block, batch, ghosts
  <2>13. ASSUME NEW t \in Sub, Purge(t)
        PROVE  TypeOK'
    BY <2>13 DEF Purge, table, pool, block, batch, ghosts
  <2>14. ASSUME NEW t \in Sub, PruneClaim(t)
        PROVE  TypeOK'
    BY <2>14 DEF PruneClaim, table, pool, block, batch, ghosts
  <2>15. ASSUME NEW a \in Address, PruneBounce(a)
        PROVE  TypeOK'
    BY <2>15 DEF PruneBounce, Forgotten, Of, table, pool, block, batch, ghosts
  <2>16. ASSUME NEW a \in Address, ComplaintLapses(a)
        PROVE  TypeOK'
    BY <2>16 DEF ComplaintLapses, Forgotten, table, pool, block, batch, ghosts
  <2>17. BesideAgesOut => TypeOK'
    BY DEF BesideAgesOut, table, pool, block, batch, ghosts
  <2>18. Digest => TypeOK'
    BY DEF Digest, table, pool, block, batch, ghosts
  <2>19. OtherMail => TypeOK'
    BY DEF OtherMail, table, pool, block, batch, ghosts
  <2>20. Pick => TypeOK'
    BY DEF Pick, Queue, table, pool, block, batch, ghosts
  <2>21. Claim => TypeOK'
    BY DEF Claim, Claimable, table, pool, block, batch, ghosts
  <2>22. BatchReturns => TypeOK'
    BY DEF BatchReturns, table, pool, block, batch, ghosts
  <2>23. CycleEnds => TypeOK'
    BY DEF CycleEnds, table, pool, block, batch, ghosts
  <2>24. ASSUME NEW t \in Sub, Accept(t)
        PROVE  TypeOK'
    BY <2>24 DEF Accept, table, pool, block, batch, ghosts
  <2>25. ASSUME NEW t \in Sub, Decline(t)
        PROVE  TypeOK'
    BY <2>25 DEF Decline, table, pool, block, batch, ghosts
  <2>26. ASSUME NEW t \in Sub, Mark(t)
        PROVE  TypeOK'
    BY <2>26 DEF Mark, table, pool, block, batch, ghosts
  <2>27. Dies => TypeOK'
    BY DEF Dies, table, pool, block, batch, ghosts
  <2>28. UNCHANGED vars => TypeOK'
    BY DEF vars, table, pool, block, batch, ghosts
  <2> QED
    BY <2>1, <2>2, <2>3, <2>4, <2>5, <2>6, <2>7, <2>8, <2>9, <2>10, <2>11, <2>12, <2>13, <2>14, <2>15, <2>16, <2>17, <2>18, <2>19, <2>20, <2>21, <2>22, <2>23, <2>24, <2>25, <2>26, <2>27, <2>28
       DEF Next, Website, Webhooks, Clock, Cycle
<1> QED BY <1>1, <1>2, PTL DEF Spec

-----------------------------------------------------------------------------
(* A row that was sent a mail on record keeps the claim of its key for as  *)
(* long as the queue could offer it again.                                 *)
MailInv(s) ==
  /\ row[s] = "none" => mails[s] = 0 /\ s \notin picked
  /\ pc \in {"idle", "marking"} => s \notin picked
  /\ pc = "sending" /\ s \in picked => claim[s] = "pending"
  /\ \/ mails[s] <= doubts[s]
     \/ mails[s] = 1 + doubts[s] /\ (claim[s] = "sent" \/ s \notin young \cup picked)

(* A sign-up at a dead address has no link to confirm by, and none is      *)
(* under way.                                                              *)
BlockInv(s) ==
  reason[To[s]] # "none" =>
    /\ row[s] # "confirmed"
    /\ row[s] = "pending" => mails[s] = 0 /\ ~(pc = "sending" /\ s \in picked)

(* Both are inductive, together with the type.                             *)
LEMMA MailInvariant == Spec => [](\A s \in Sub : MailInv(s))
<1> DEFINE Inv == \A s \in Sub : MailInv(s)
<1>1. Init => Inv
  BY DEF Init, MailInv
<1>2. TypeOK /\ Inv /\ [Next]_vars => Inv'
  <2> SUFFICES ASSUME TypeOK, Inv, [Next]_vars, NEW s \in Sub PROVE MailInv(s)'
      OBVIOUS
  <2>0. MailInv(s)
    OBVIOUS
  <2> USE <2>0, RowAssumption, PoolAssumption DEF TypeOK, MailInv
  <2> HIDE DEF Inv
  <2>1. ASSUME NEW a \in Address, Asks(a)
        PROVE  MailInv(s)'
    BY <2>1 DEF Asks, table, pool, block, batch, ghosts
  <2>2. ASSUME NEW a \in Address, TurnedAway(a)
        PROVE  MailInv(s)'
    BY <2>2 DEF TurnedAway, table, pool, block, batch, ghosts
  <2>3. ASSUME NEW t \in Sub, SignUp(t)
        PROVE  MailInv(s)'
    BY <2>3 DEF SignUp, Lifted, table, pool, block, batch, ghosts
  <2>4. ASSUME NEW t \in Sub, Confirm(t)
        PROVE  MailInv(s)'
    BY <2>4 DEF Confirm, table, pool, block, batch, ghosts
  <2>5. ASSUME NEW t \in Sub, Leaves(t)
        PROVE  MailInv(s)'
    BY <2>5 DEF Leaves, Ended, table, pool, block, batch, ghosts
  <2>6. ASSUME NEW a \in Address, NEW verdict \in {"bounce", "complaint"}, Blocked(a, verdict)
        PROVE  MailInv(s)'
    BY <2>6 DEF Blocked, Suppressed, Ended, Of, table, pool, block, batch, ghosts
  <2>7. ASSUME NEW a \in Address, SoftBounce(a)
        PROVE  MailInv(s)'
    BY <2>7 DEF SoftBounce, Suppressed, Ended, Of, Smaller, table, pool, block, batch, ghosts
  <2>8. ASSUME NEW a \in Address, Delivered(a)
        PROVE  MailInv(s)'
    BY <2>8 DEF Delivered, table, pool, block, batch, ghosts
  <2>9. ASSUME NEW a \in Address, UnsubscribedThere(a)
        PROVE  MailInv(s)'
    BY <2>9 DEF UnsubscribedThere, Ended, Of, table, pool, block, batch, ghosts
  <2>10. ASSUME NEW t \in Sub, GrowsOld(t)
        PROVE  MailInv(s)'
    BY <2>10 DEF GrowsOld, table, pool, block, batch, ghosts
  <2>11. ASSUME NEW t \in Sub, GoesStale(t)
        PROVE  MailInv(s)'
    BY <2>11 DEF GoesStale, table, pool, block, batch, ghosts
  <2>12. ASSUME NEW t \in Sub, AgesOut(t)
        PROVE  MailInv(s)'
    BY <2>12 DEF AgesOut, table, pool, block, batch, ghosts
  <2>13. ASSUME NEW t \in Sub, Purge(t)
        PROVE  MailInv(s)'
    BY <2>13 DEF Purge, table, pool, block, batch, ghosts
  <2>14. ASSUME NEW t \in Sub, PruneClaim(t)
        PROVE  MailInv(s)'
    BY <2>14 DEF PruneClaim, table, pool, block, batch, ghosts
  <2>15. ASSUME NEW a \in Address, PruneBounce(a)
        PROVE  MailInv(s)'
    BY <2>15 DEF PruneBounce, Forgotten, Of, table, pool, block, batch, ghosts
  <2>16. ASSUME NEW a \in Address, ComplaintLapses(a)
        PROVE  MailInv(s)'
    BY <2>16 DEF ComplaintLapses, Forgotten, table, pool, block, batch, ghosts
  <2>17. BesideAgesOut => MailInv(s)'
    BY DEF BesideAgesOut, table, pool, block, batch, ghosts
  <2>18. Digest => MailInv(s)'
    BY DEF Digest, table, pool, block, batch, ghosts
  <2>19. OtherMail => MailInv(s)'
    BY DEF OtherMail, table, pool, block, batch, ghosts
  <2>20. Pick => MailInv(s)'
    BY DEF Pick, Queue, table, pool, block, batch, ghosts
  <2>21. Claim => MailInv(s)'
    BY DEF Claim, Claimable, table, pool, block, batch, ghosts
  <2>22. BatchReturns => MailInv(s)'
    BY DEF BatchReturns, table, pool, block, batch, ghosts
  <2>23. CycleEnds => MailInv(s)'
    BY DEF CycleEnds, table, pool, block, batch, ghosts
  <2>24. ASSUME NEW t \in Sub, Accept(t)
        PROVE  MailInv(s)'
    BY <2>24 DEF Accept, table, pool, block, batch, ghosts
  <2>25. ASSUME NEW t \in Sub, Decline(t)
        PROVE  MailInv(s)'
    BY <2>25 DEF Decline, table, pool, block, batch, ghosts
  <2>26. ASSUME NEW t \in Sub, Mark(t)
        PROVE  MailInv(s)'
    BY <2>26 DEF Mark, table, pool, block, batch, ghosts
  <2>27. Dies => MailInv(s)'
    BY DEF Dies, table, pool, block, batch, ghosts
  <2>28. UNCHANGED vars => MailInv(s)'
    BY DEF vars, table, pool, block, batch, ghosts
  <2> QED
    BY <2>1, <2>2, <2>3, <2>4, <2>5, <2>6, <2>7, <2>8, <2>9, <2>10, <2>11, <2>12, <2>13, <2>14, <2>15, <2>16, <2>17, <2>18, <2>19, <2>20, <2>21, <2>22, <2>23, <2>24, <2>25, <2>26, <2>27, <2>28
       DEF Next, Website, Webhooks, Clock, Cycle
<1> QED BY <1>1, <1>2, TypeInvariant, PTL DEF Spec

LEMMA BlockInvariant == Spec => [](\A s \in Sub : BlockInv(s))
<1> DEFINE Mails == \A s \in Sub : MailInv(s)
           Inv == \A s \in Sub : BlockInv(s)
<1>1. Init => Inv
  BY RowAssumption DEF Init, BlockInv
<1>2. TypeOK /\ Mails /\ Inv /\ [Next]_vars => Inv'
  <2> SUFFICES ASSUME TypeOK, Mails, Inv, [Next]_vars, NEW s \in Sub PROVE BlockInv(s)'
      OBVIOUS
  <2>0. MailInv(s) /\ BlockInv(s) /\ To[s] \in Address
    BY RowAssumption
  <2> USE <2>0, PoolAssumption DEF TypeOK, MailInv, BlockInv
  <2> HIDE DEF Inv, Mails
  <2>1. ASSUME NEW a \in Address, Asks(a)
        PROVE  BlockInv(s)'
    BY <2>1 DEF Asks, table, pool, block, batch, ghosts
  <2>2. ASSUME NEW a \in Address, TurnedAway(a)
        PROVE  BlockInv(s)'
    BY <2>2 DEF TurnedAway, table, pool, block, batch, ghosts
  <2>3. ASSUME NEW t \in Sub, SignUp(t)
        PROVE  BlockInv(s)'
    BY <2>3 DEF SignUp, Lifted, table, pool, block, batch, ghosts
  <2>4. ASSUME NEW t \in Sub, Confirm(t)
        PROVE  BlockInv(s)'
    BY <2>4 DEF Confirm, table, pool, block, batch, ghosts
  <2>5. ASSUME NEW t \in Sub, Leaves(t)
        PROVE  BlockInv(s)'
    BY <2>5 DEF Leaves, Ended, table, pool, block, batch, ghosts
  <2>6. ASSUME NEW a \in Address, NEW verdict \in {"bounce", "complaint"}, Blocked(a, verdict)
        PROVE  BlockInv(s)'
    BY <2>6 DEF Blocked, Suppressed, Ended, Of, table, pool, block, batch, ghosts
  <2>7. ASSUME NEW a \in Address, SoftBounce(a)
        PROVE  BlockInv(s)'
    BY <2>7 DEF SoftBounce, Suppressed, Ended, Of, Smaller, table, pool, block, batch, ghosts
  <2>8. ASSUME NEW a \in Address, Delivered(a)
        PROVE  BlockInv(s)'
    BY <2>8 DEF Delivered, table, pool, block, batch, ghosts
  <2>9. ASSUME NEW a \in Address, UnsubscribedThere(a)
        PROVE  BlockInv(s)'
    BY <2>9 DEF UnsubscribedThere, Ended, Of, table, pool, block, batch, ghosts
  <2>10. ASSUME NEW t \in Sub, GrowsOld(t)
        PROVE  BlockInv(s)'
    BY <2>10 DEF GrowsOld, table, pool, block, batch, ghosts
  <2>11. ASSUME NEW t \in Sub, GoesStale(t)
        PROVE  BlockInv(s)'
    BY <2>11 DEF GoesStale, table, pool, block, batch, ghosts
  <2>12. ASSUME NEW t \in Sub, AgesOut(t)
        PROVE  BlockInv(s)'
    BY <2>12 DEF AgesOut, table, pool, block, batch, ghosts
  <2>13. ASSUME NEW t \in Sub, Purge(t)
        PROVE  BlockInv(s)'
    BY <2>13 DEF Purge, table, pool, block, batch, ghosts
  <2>14. ASSUME NEW t \in Sub, PruneClaim(t)
        PROVE  BlockInv(s)'
    BY <2>14 DEF PruneClaim, table, pool, block, batch, ghosts
  <2>15. ASSUME NEW a \in Address, PruneBounce(a)
        PROVE  BlockInv(s)'
    BY <2>15 DEF PruneBounce, Forgotten, Of, table, pool, block, batch, ghosts
  <2>16. ASSUME NEW a \in Address, ComplaintLapses(a)
        PROVE  BlockInv(s)'
    BY <2>16 DEF ComplaintLapses, Forgotten, table, pool, block, batch, ghosts
  <2>17. BesideAgesOut => BlockInv(s)'
    BY DEF BesideAgesOut, table, pool, block, batch, ghosts
  <2>18. Digest => BlockInv(s)'
    BY DEF Digest, table, pool, block, batch, ghosts
  <2>19. OtherMail => BlockInv(s)'
    BY DEF OtherMail, table, pool, block, batch, ghosts
  <2>20. Pick => BlockInv(s)'
    BY DEF Pick, Queue, table, pool, block, batch, ghosts
  <2>21. Claim => BlockInv(s)'
    BY DEF Claim, Claimable, table, pool, block, batch, ghosts
  <2>22. BatchReturns => BlockInv(s)'
    BY DEF BatchReturns, table, pool, block, batch, ghosts
  <2>23. CycleEnds => BlockInv(s)'
    BY DEF CycleEnds, table, pool, block, batch, ghosts
  <2>24. ASSUME NEW t \in Sub, Accept(t)
        PROVE  BlockInv(s)'
    BY <2>24 DEF Accept, table, pool, block, batch, ghosts
  <2>25. ASSUME NEW t \in Sub, Decline(t)
        PROVE  BlockInv(s)'
    BY <2>25 DEF Decline, table, pool, block, batch, ghosts
  <2>26. ASSUME NEW t \in Sub, Mark(t)
        PROVE  BlockInv(s)'
    BY <2>26 DEF Mark, table, pool, block, batch, ghosts
  <2>27. Dies => BlockInv(s)'
    BY DEF Dies, table, pool, block, batch, ghosts
  <2>28. UNCHANGED vars => BlockInv(s)'
    BY DEF vars, table, pool, block, batch, ghosts
  <2> QED
    BY <2>1, <2>2, <2>3, <2>4, <2>5, <2>6, <2>7, <2>8, <2>9, <2>10, <2>11, <2>12, <2>13, <2>14, <2>15, <2>16, <2>17, <2>18, <2>19, <2>20, <2>21, <2>22, <2>23, <2>24, <2>25, <2>26, <2>27, <2>28
       DEF Next, Website, Webhooks, Clock, Cycle
<1> QED BY <1>1, <1>2, TypeInvariant, MailInvariant, PTL DEF Spec

(* For any pool and any number of crashes: a sign-up is mailed once, and   *)
(* again only for an acceptance that was never recorded.                   *)
THEOREM OneConfirmationHolds == Spec => []OneConfirmation
<1>1. TypeOK /\ (\A s \in Sub : MailInv(s)) => OneConfirmation
  BY DEF TypeOK, MailInv, OneConfirmation
<1> QED BY <1>1, TypeInvariant, MailInvariant, PTL

(* Nobody who confirmed is at an address that was retired, whenever the    *)
(* verdict arrived.                                                        *)
THEOREM LiveIsMailableHolds == Spec => []LiveIsMailable
<1>1. TypeOK /\ (\A s \in Sub : BlockInv(s)) => LiveIsMailable
  BY DEF BlockInv, LiveIsMailable
<1> QED BY <1>1, TypeInvariant, BlockInvariant, PTL

-----------------------------------------------------------------------------
(* The flood bound.  A row counted in the rolling day was mailed, and its  *)
(* key keeps it from being mailed once more by an open batch.              *)
CountInv(s) ==
  s \in counted => mails[s] > 0 /\ (claim[s] = "sent" \/ s \notin young \cup picked)

(* What the open batch may still send past the pressure line, on top of    *)
(* what went out past it, is within the reserve: the room a batch is given *)
(* lies before the line or within what is left of the reserve.             *)
PastTheLine  == Cardinality(past \cap (marked \cup delivered))
StillToCross == Less(Cardinality(picked), Less(Line, usedDay))
FloodInv     == PastTheLine + StillToCross <= Reserve + others

LEMMA LessIsNat ==
  ASSUME NEW a \in Nat, NEW b \in Nat
  PROVE  Less(a, b) \in Nat /\ (b < a => Less(a, b) = a - b) /\ (~(b < a) => Less(a, b) = 0)
BY DEF Less

(* Any set of rows is finite, and a part of it has no more members.        *)
LEMMA RowsAreFinite ==
  ASSUME NEW S \in SUBSET Sub
  PROVE  /\ IsFiniteSet(S) /\ Cardinality(S) \in Nat
         /\ \A T \in SUBSET S : Cardinality(T) <= Cardinality(S)
<1>1. IsFiniteSet(S)
  BY RowAssumption, FS_Subset
<1>2. \A T \in SUBSET S : Cardinality(T) <= Cardinality(S)
  BY <1>1, FS_Subset
<1>3. Cardinality(S) \in Nat
  BY <1>1, FS_CardinalityType
<1> QED BY <1>1, <1>2, <1>3

(* The first n rows of a queue are n at most: ids tell their places apart. *)
LEMMA FirstOfQueue ==
  ASSUME NEW Q \in SUBSET Sub, NEW n \in Nat
  PROVE  Cardinality({s \in Q : Cardinality(Ahead(s, Q)) < n}) <= n
<1> DEFINE P == {s \in Q : Cardinality(Ahead(s, Q)) < n}
           f == [s \in P |-> Cardinality(Ahead(s, Q))]
<1>1. \A s \in Q : Ahead(s, Q) \in SUBSET Sub /\ Cardinality(Ahead(s, Q)) \in Nat
  BY RowsAreFinite DEF Ahead
<1>2. ASSUME NEW s \in P, NEW t \in P, s < t
      PROVE  f[s] < f[t]
  <2>1. Ahead(s, Q) \in SUBSET (Ahead(t, Q) \ {s}) /\ s \in Ahead(t, Q)
    <3>1. s \in Q /\ t \in Q /\ s < t
      BY <1>2
    <3>2. ASSUME NEW q \in Q, q < s
          PROVE  q < t /\ q # s
      <4>1. q \in Nat /\ s \in Nat /\ t \in Nat
        BY RowAssumption
      <4> QED BY <3>1, <3>2, <4>1
    <3> HIDE DEF P, f
    <3> QED BY <3>1, <3>2 DEF Ahead
  <2>2. IsFiniteSet(Ahead(t, Q))
    BY <1>1, RowsAreFinite
  <2>3. Cardinality(Ahead(t, Q) \ {s}) = Cardinality(Ahead(t, Q)) - 1
    <3> HIDE DEF P, f
    <3> QED BY <2>1, <2>2, FS_RemoveElement
  <2>4. Ahead(t, Q) \ {s} \in SUBSET Sub
    BY <1>1
  <2>5. Cardinality(Ahead(s, Q)) <= Cardinality(Ahead(t, Q) \ {s})
    BY <2>1, <2>4, RowsAreFinite
  <2> QED BY <1>1, <2>3, <2>5
<1>3. f \in [P -> 0 .. (n - 1)]
  BY <1>1
<1>4. ASSUME NEW s \in P, NEW t \in P, f[s] = f[t]
      PROVE  s = t
  <2>1. s \in Nat /\ t \in Nat
    BY RowAssumption
  <2>2. f[s] \in Nat /\ f[t] \in Nat
    BY <1>1
  <2>3. ~(s < t) /\ ~(t < s)
    BY <1>2, <1>4, <2>2
  <2> QED BY <2>1, <2>3
<1>5. f \in Injection(P, 0 .. (n - 1))
  BY <1>3, <1>4 DEF Injection, IsInjective
<1>6. IsFiniteSet(0 .. (n - 1)) /\ Cardinality(0 .. (n - 1)) = n
  <2>1. IsFiniteSet(0 .. (n - 1))
        /\ Cardinality(0 .. (n - 1)) = IF 0 > n - 1 THEN 0 ELSE (n - 1) - 0 + 1
    BY FS_Interval
  <2> QED BY <2>1
<1> HIDE DEF P, f
<1>7. Cardinality(P) <= Cardinality(0 .. (n - 1))
  BY <1>5, <1>6, FS_Injection
<1> QED BY <1>6, <1>7 DEF P

(* A batch is given no more rows than lie before the line, or than the     *)
(* reserve has left.                                                       *)
LEMMA RoomForTheBatch ==
  ASSUME TypeOK, Pick
  PROVE  /\ Cardinality(picked') \in Nat
         /\ \/ Cardinality(picked') <= Less(Line, usedDay)
            \/ Cardinality(picked') <= Less(Reserve, Cardinality(counted \cap marked))
<1>1. usedDay \in Nat /\ Cardinality(counted \cap marked) \in Nat
  <2>1. counted \in SUBSET Sub /\ counted \cap marked \in SUBSET Sub
    BY DEF TypeOK
  <2>2. Cardinality(counted) \in Nat /\ Cardinality(counted \cap marked) \in Nat
    BY <2>1, RowsAreFinite
  <2> QED BY <2>2 DEF TypeOK, usedDay
<1>2. /\ daily_room \in Nat /\ Less(Line, usedDay) \in Nat
      /\ Less(Reserve, Cardinality(counted \cap marked)) \in Nat
  BY <1>1, LessIsNat, PoolAssumption DEF daily_room
<1>3. /\ confirmation_room \in Nat
      /\ \/ confirmation_room <= Less(Line, usedDay)
         \/ confirmation_room <= Less(Reserve, Cardinality(counted \cap marked))
  <2> HIDE DEF daily_room, usedDay
  <2> QED BY <1>2 DEF confirmation_room, Smaller, Larger
<1>4. Queue \in SUBSET Sub
  BY DEF Queue, TypeOK
<1>5. picked' = {s \in Queue : Cardinality(Ahead(s, Queue)) < confirmation_room}
  BY DEF Pick
<1>6. picked' \in SUBSET Sub
  BY <1>4, <1>5
<1> HIDE DEF Queue, confirmation_room, Ahead
<1>7. Cardinality(picked') <= confirmation_room
  BY <1>3, <1>4, <1>5, FirstOfQueue
<1>8. Cardinality(picked') \in Nat
  BY <1>6, RowsAreFinite
<1> QED BY <1>2, <1>3, <1>7, <1>8

(* The marks of a batch change neither side: a row it delivered counts.    *)
LEMMA FloodUnmoved ==
  ASSUME FloodInv, UNCHANGED <<counted, beside, past, others>>,
         picked' = picked, marked' \cup delivered' = marked \cup delivered
  PROVE  FloodInv'
<1>1. past' \cap (marked' \cup delivered') = past \cap (marked \cup delivered)
  OBVIOUS
<1>2. PastTheLine' = PastTheLine
  BY <1>1 DEF PastTheLine
<1>3. StillToCross' = StillToCross
  BY DEF StillToCross, usedDay
<1> QED BY <1>2, <1>3 DEF FloodInv

(* The numbers of the bound are natural numbers.                           *)
LEMMA FloodNumbers ==
  ASSUME TypeOK
  PROVE  /\ PastTheLine \in Nat /\ StillToCross \in Nat /\ usedDay \in Nat
         /\ Cardinality(picked) \in Nat /\ Cardinality(counted) \in Nat
         /\ Less(Line, usedDay) \in Nat
         /\ IsFiniteSet(picked) /\ IsFiniteSet(counted)
         /\ IsFiniteSet(past \cap (marked \cup delivered))
<1>1. picked \in SUBSET Sub /\ counted \in SUBSET Sub
      /\ past \cap (marked \cup delivered) \in SUBSET Sub
  BY DEF TypeOK
<1>2. /\ Cardinality(picked) \in Nat /\ Cardinality(counted) \in Nat
      /\ Cardinality(past \cap (marked \cup delivered)) \in Nat
      /\ IsFiniteSet(picked) /\ IsFiniteSet(counted)
      /\ IsFiniteSet(past \cap (marked \cup delivered))
  BY <1>1, RowsAreFinite
<1>3. usedDay \in Nat
  BY <1>2 DEF usedDay, TypeOK
<1>4. Less(Line, usedDay) \in Nat
  BY <1>3, LessIsNat, PoolAssumption
<1>5. StillToCross \in Nat
  BY <1>2, <1>4, LessIsNat DEF StillToCross
<1> QED BY <1>2, <1>3, <1>4, <1>5 DEF PastTheLine

LEMMA FloodNumbersNext ==
  ASSUME TypeOK'
  PROVE  /\ PastTheLine' \in Nat /\ StillToCross' \in Nat /\ usedDay' \in Nat
         /\ Cardinality(picked') \in Nat
<1>1. picked' \in SUBSET Sub /\ counted' \in SUBSET Sub
      /\ past' \cap (marked' \cup delivered') \in SUBSET Sub
  BY DEF TypeOK
<1>2. /\ Cardinality(picked') \in Nat /\ Cardinality(counted') \in Nat
      /\ Cardinality(past' \cap (marked' \cup delivered')) \in Nat
  BY <1>1, RowsAreFinite
<1>3. usedDay' \in Nat
  BY <1>2 DEF usedDay, TypeOK
<1>4. StillToCross' \in Nat
  BY <1>2, <1>3, LessIsNat, PoolAssumption DEF StillToCross
<1> QED BY <1>2, <1>3, <1>4 DEF PastTheLine

(* Less rows to send, or more of the day left, and no more sent past the   *)
(* line.                                                                   *)
LEMMA FloodEased ==
  ASSUME TypeOK, TypeOK', FloodInv, others' = others,
         PastTheLine' <= PastTheLine,
         Cardinality(picked') <= Cardinality(picked), usedDay' <= usedDay
  PROVE  FloodInv'
<1>1. /\ PastTheLine' \in Nat /\ usedDay' \in Nat /\ Cardinality(picked') \in Nat
      /\ StillToCross' \in Nat
  BY FloodNumbersNext
<1>2. \A p, p1, u, u1 \in Nat :
        p1 <= p /\ u1 <= u => Less(p1, Less(Line, u1)) <= Less(p, Less(Line, u))
  BY PoolAssumption DEF Less
<1>3. StillToCross' <= StillToCross
  BY <1>1, <1>2, FloodNumbers DEF StillToCross
<1>4. \A a, a1, b, b1, c \in Nat : a1 <= a /\ b1 <= b /\ a + b <= c => a1 + b1 <= c
  OBVIOUS
<1>5. Reserve + others \in Nat /\ Reserve' = Reserve
  BY PoolAssumption DEF TypeOK
<1> QED BY <1>1, <1>3, <1>4, <1>5, FloodNumbers DEF FloodInv

LEMMA CountStep ==
  ASSUME TypeOK, \A s \in Sub : MailInv(s), \A s \in Sub : CountInv(s), [Next]_vars
  PROVE  \A s \in Sub : CountInv(s)'
<1> SUFFICES ASSUME NEW s \in Sub PROVE CountInv(s)'
    OBVIOUS
<1>0. MailInv(s) /\ CountInv(s)
  OBVIOUS
<1> USE <1>0, RowAssumption, PoolAssumption DEF TypeOK, MailInv, CountInv
<1>1. ASSUME NEW a \in Address, Asks(a)
      PROVE  CountInv(s)'
  BY <1>1 DEF Asks, table, pool, block, batch, ghosts
<1>2. ASSUME NEW a \in Address, TurnedAway(a)
      PROVE  CountInv(s)'
  BY <1>2 DEF TurnedAway, table, pool, block, batch, ghosts
<1>3. ASSUME NEW t \in Sub, SignUp(t)
      PROVE  CountInv(s)'
  BY <1>3 DEF SignUp, Lifted, table, pool, block, batch, ghosts
<1>4. ASSUME NEW t \in Sub, Confirm(t)
      PROVE  CountInv(s)'
  BY <1>4 DEF Confirm, table, pool, block, batch, ghosts
<1>5. ASSUME NEW t \in Sub, Leaves(t)
      PROVE  CountInv(s)'
  BY <1>5 DEF Leaves, Ended, table, pool, block, batch, ghosts
<1>6. ASSUME NEW a \in Address, NEW verdict \in {"bounce", "complaint"}, Blocked(a, verdict)
      PROVE  CountInv(s)'
  BY <1>6 DEF Blocked, Suppressed, Ended, Of, table, pool, block, batch, ghosts
<1>7. ASSUME NEW a \in Address, SoftBounce(a)
      PROVE  CountInv(s)'
  <2>1. young' \in SUBSET young
    BY <1>7 DEF SoftBounce, Ended, table
  <2>2. UNCHANGED <<claim, counted, picked, mails>>
    BY <1>7 DEF SoftBounce, pool, batch, ghosts
  <2> QED BY <2>1, <2>2
<1>8. ASSUME NEW a \in Address, Delivered(a)
      PROVE  CountInv(s)'
  BY <1>8 DEF Delivered, table, pool, block, batch, ghosts
<1>9. ASSUME NEW a \in Address, UnsubscribedThere(a)
      PROVE  CountInv(s)'
  BY <1>9 DEF UnsubscribedThere, Ended, Of, table, pool, block, batch, ghosts
<1>10. ASSUME NEW t \in Sub, GrowsOld(t)
       PROVE  CountInv(s)'
  BY <1>10 DEF GrowsOld, table, pool, block, batch, ghosts
<1>11. ASSUME NEW t \in Sub, GoesStale(t)
       PROVE  CountInv(s)'
  BY <1>11 DEF GoesStale, table, pool, block, batch, ghosts
<1>12. ASSUME NEW t \in Sub, AgesOut(t)
       PROVE  CountInv(s)'
  BY <1>12 DEF AgesOut, table, pool, block, batch, ghosts
<1>13. ASSUME NEW t \in Sub, Purge(t)
       PROVE  CountInv(s)'
  BY <1>13 DEF Purge, table, pool, block, batch, ghosts
<1>14. ASSUME NEW t \in Sub, PruneClaim(t)
       PROVE  CountInv(s)'
  BY <1>14 DEF PruneClaim, table, pool, block, batch, ghosts
<1>15. ASSUME NEW a \in Address, PruneBounce(a)
       PROVE  CountInv(s)'
  BY <1>15 DEF PruneBounce, Forgotten, Of, table, pool, block, batch, ghosts
<1>16. ASSUME NEW a \in Address, ComplaintLapses(a)
       PROVE  CountInv(s)'
  BY <1>16 DEF ComplaintLapses, Forgotten, table, pool, block, batch, ghosts
<1>17. BesideAgesOut => CountInv(s)'
  BY DEF BesideAgesOut, table, pool, block, batch, ghosts
<1>18. Digest => CountInv(s)'
  BY DEF Digest, table, pool, block, batch, ghosts
<1>19. OtherMail => CountInv(s)'
  BY DEF OtherMail, table, pool, block, batch, ghosts
<1>20. Pick => CountInv(s)'
  BY DEF Pick, Queue, table, pool, block, batch, ghosts
<1>21. Claim => CountInv(s)'
  BY DEF Claim, Claimable, table, pool, block, batch, ghosts
<1>22. BatchReturns => CountInv(s)'
  BY DEF BatchReturns, table, pool, block, batch, ghosts
<1>23. CycleEnds => CountInv(s)'
  BY DEF CycleEnds, table, pool, block, batch, ghosts
<1>24. ASSUME NEW t \in Sub, Accept(t)
       PROVE  CountInv(s)'
  BY <1>24 DEF Accept, table, pool, block, batch, ghosts
<1>25. ASSUME NEW t \in Sub, Decline(t)
       PROVE  CountInv(s)'
  BY <1>25 DEF Decline, table, pool, block, batch, ghosts
<1>26. ASSUME NEW t \in Sub, Mark(t)
       PROVE  CountInv(s)'
  BY <1>26 DEF Mark, table, pool, block, batch, ghosts
<1>27. Dies => CountInv(s)'
  BY DEF Dies, table, pool, block, batch, ghosts
<1>28. UNCHANGED vars => CountInv(s)'
  BY DEF vars, table, pool, block, batch, ghosts
<1> QED
  BY <1>1, <1>2, <1>3, <1>4, <1>5, <1>6, <1>7, <1>8, <1>9, <1>10, <1>11, <1>12, <1>13, <1>14, <1>15, <1>16, <1>17, <1>18, <1>19, <1>20, <1>21, <1>22, <1>23, <1>24, <1>25, <1>26, <1>27, <1>28
     DEF Next, Website, Webhooks, Clock, Cycle

(* The batch is picked within its room.                                    *)
LEMMA FloodPick == ASSUME TypeOK, FloodInv, Pick PROVE FloodInv'
<1>1. PastTheLine' = PastTheLine /\ usedDay' = usedDay /\ others' = others
  BY DEF Pick, table, pool, ghosts, PastTheLine, usedDay
<1>2. picked = {} /\ delivered = {}
  BY DEF Pick, TypeOK
<1>3. PastTheLine <= Cardinality(counted \cap marked)
      /\ Cardinality(counted \cap marked) \in Nat
  <2>1. /\ counted \cap marked \in SUBSET Sub
        /\ past \cap (marked \cup delivered) \in SUBSET (counted \cap marked)
    BY <1>2 DEF TypeOK
  <2> QED BY <2>1, RowsAreFinite DEF PastTheLine
<1>4. StillToCross' = Less(Cardinality(picked'), Less(Line, usedDay))
  BY <1>1 DEF StillToCross
<1>5. PastTheLine <= Reserve + others
  <2>1. \A a, b, c \in Nat : a + b <= c => a <= c
    OBVIOUS
  <2>2. Reserve + others \in Nat
    BY PoolAssumption DEF TypeOK
  <2> QED BY <2>1, <2>2, FloodNumbers DEF FloodInv
<1>6. \A a, p, l, k, o \in Nat :
        a <= k /\ a <= Reserve + o /\ (p <= l \/ p <= Less(Reserve, k))
          => a + Less(p, l) <= Reserve + o
  BY PoolAssumption DEF Less
<1>7. PastTheLine + Less(Cardinality(picked'), Less(Line, usedDay)) <= Reserve + others
  <2>1. others \in Nat
    BY DEF TypeOK
  <2> QED BY <1>3, <1>5, <1>6, <2>1, RoomForTheBatch, FloodNumbers
<1> QED BY <1>1, <1>4, <1>7 DEF FloodInv

(* A mail past the line was one of those still to cross it; one before the *)
(* line takes a row and its place together.                                *)
LEMMA FloodAccept ==
  ASSUME TypeOK, FloodInv, \A s \in Sub : MailInv(s) /\ CountInv(s),
         NEW t \in Sub, Accept(t)
  PROVE  FloodInv'
<1>1. t \in picked /\ t \notin counted /\ t \notin past
  BY DEF Accept, MailInv, CountInv, TypeOK
<1>2. Cardinality(picked') = Cardinality(picked) - 1
  BY <1>1, FloodNumbers, FS_RemoveElement DEF Accept
<1>3. usedDay' = usedDay + 1
  <2>1. Cardinality(counted \cup {t}) = Cardinality(counted) + 1
    BY <1>1, FloodNumbers, FS_AddElement
  <2>2. counted' = counted \cup {t} /\ beside' = beside
    BY DEF Accept
  <2>3. \A c, b \in Nat : (c + 1) + b = (c + b) + 1
    OBVIOUS
  <2>4. usedDay' = (Cardinality(counted) + 1) + beside
    BY <2>1, <2>2 DEF usedDay
  <2>5. beside \in Nat /\ Cardinality(counted) \in Nat
    BY FloodNumbers DEF TypeOK
  <2> QED BY <2>3, <2>4, <2>5 DEF usedDay
<1>4. PastTheLine' = IF usedDay >= Line THEN PastTheLine + 1 ELSE PastTheLine
  <2> DEFINE S == past \cap (marked \cup delivered)
  <2>1. /\ marked' = marked /\ delivered' = delivered \cup {t}
        /\ past' = IF usedDay >= Line THEN past \cup {t} ELSE past
    BY DEF Accept, table
  <2>2. CASE usedDay >= Line
    <3>1. past' \cap (marked' \cup delivered') = S \cup {t}
      BY <2>1, <2>2
    <3>2. t \notin S /\ IsFiniteSet(S)
      BY <1>1, FloodNumbers
    <3>3. Cardinality(S \cup {t}) = Cardinality(S) + 1
      <4> HIDE DEF S
      <4> QED BY <3>2, FS_AddElement
    <3> QED BY <2>2, <3>1, <3>3 DEF PastTheLine
  <2>3. CASE ~(usedDay >= Line)
    <3>1. past' \cap (marked' \cup delivered') = S
      BY <1>1, <2>1, <2>3
    <3> QED BY <2>3, <3>1 DEF PastTheLine
  <2> QED BY <2>2, <2>3
<1>5. \A a, p, u, c \in Nat :
        p > 0 /\ a + Less(p, Less(Line, u)) <= c =>
          (IF u >= Line THEN a + 1 ELSE a) + Less(p - 1, Less(Line, u + 1)) <= c
  BY PoolAssumption DEF Less
<1>6. Cardinality(picked) \in Nat /\ Cardinality(picked) > 0
  <2>1. Cardinality(picked) # 0
    BY <1>1, FloodNumbers, FS_EmptySet
  <2> QED BY <2>1, FloodNumbers
<1>7. Reserve + others \in Nat /\ others' = others
  BY PoolAssumption DEF Accept, TypeOK
<1>8. PastTheLine + Less(Cardinality(picked), Less(Line, usedDay)) <= Reserve + others
  BY DEF FloodInv, StillToCross
<1>9. (IF usedDay >= Line THEN PastTheLine + 1 ELSE PastTheLine)
        + Less(Cardinality(picked) - 1, Less(Line, usedDay + 1)) <= Reserve + others
  BY <1>5, <1>6, <1>7, <1>8, FloodNumbers
<1>10. StillToCross' = Less(Cardinality(picked) - 1, Less(Line, usedDay + 1))
  BY <1>2, <1>3 DEF StillToCross
<1> QED BY <1>4, <1>7, <1>9, <1>10 DEF FloodInv

(* Other mail may take the place of one confirmation before the line: the  *)
(* bound grows with it.                                                    *)
LEMMA FloodOther == ASSUME TypeOK, FloodInv, OtherMail PROVE FloodInv'
<1>1. PastTheLine' = PastTheLine /\ picked' = picked
  BY DEF OtherMail, table, batch, PastTheLine
<1>2. usedDay' = usedDay + 1
  <2>1. counted' = counted /\ beside' = beside + 1
    BY DEF OtherMail
  <2>2. beside \in Nat /\ Cardinality(counted) \in Nat
    BY FloodNumbers DEF TypeOK
  <2>3. \A c, b \in Nat : c + (b + 1) = (c + b) + 1
    OBVIOUS
  <2> QED BY <2>1, <2>2, <2>3 DEF usedDay
<1>3. StillToCross' = Less(Cardinality(picked), Less(Line, usedDay + 1))
  BY <1>1, <1>2 DEF StillToCross
<1>4. \A a, p, u, o \in Nat :
        a + Less(p, Less(Line, u)) <= Reserve + o
          => a + Less(p, Less(Line, u + 1)) <= Reserve + (o + 1)
  BY PoolAssumption DEF Less
<1>5. others \in Nat /\ others' = others + 1
  BY DEF OtherMail, TypeOK
<1>6. PastTheLine + Less(Cardinality(picked), Less(Line, usedDay)) <= Reserve + others
  BY DEF FloodInv, StillToCross
<1>7. PastTheLine + Less(Cardinality(picked), Less(Line, usedDay + 1))
        <= Reserve + (others + 1)
  BY <1>4, <1>5, <1>6, FloodNumbers
<1> QED BY <1>1, <1>3, <1>5, <1>7 DEF FloodInv

LEMMA FloodStep ==
  ASSUME TypeOK, TypeOK', FloodInv, [Next]_vars,
         \A s \in Sub : MailInv(s) /\ CountInv(s)
  PROVE  FloodInv'
<1> DEFINE Same == /\ UNCHANGED <<counted, beside, past, others>>
                   /\ picked' = picked /\ marked' \cup delivered' = marked \cup delivered
<1>1. Same => FloodInv'
  BY FloodUnmoved
<1>2. Website => Same
  BY DEF Website, Asks, TurnedAway, SignUp, Confirm, Leaves, Ended, table, pool, batch, ghosts
<1>3. Webhooks => Same
  <2>1. ASSUME NEW a \in Address, SoftBounce(a)
        PROVE  Same
    <3>1. marked' = marked
      BY <2>1 DEF SoftBounce, Ended, table
    <3> QED BY <2>1, <3>1 DEF SoftBounce, pool, batch, ghosts
  <2> QED BY <2>1 DEF Webhooks, Blocked, Delivered, UnsubscribedThere, Ended, table, pool,
                      batch, ghosts
<1>4. Clock => FloodInv'
  <2>1. ASSUME NEW t \in Sub, AgesOut(t)
        PROVE  FloodInv'
    <3>1. /\ marked' = marked /\ delivered' = delivered /\ picked' = picked
          /\ beside' = beside /\ others' = others /\ counted' = counted \ {t}
          /\ past' = past \ {t} /\ t \in counted
      BY <2>1 DEF AgesOut, table, batch
    <3>2. PastTheLine' <= PastTheLine
      <4>1. /\ past \cap (marked \cup delivered) \in SUBSET Sub
            /\ past' \cap (marked' \cup delivered') \in SUBSET (past \cap (marked \cup delivered))
        BY <3>1 DEF TypeOK
      <4> QED BY <4>1, RowsAreFinite DEF PastTheLine
    <3>3. Cardinality(counted') <= Cardinality(counted) /\ Cardinality(counted') \in Nat
      <4>1. counted \in SUBSET Sub /\ counted' \in SUBSET counted /\ counted' \in SUBSET Sub
        BY <3>1 DEF TypeOK
      <4> QED BY <4>1, RowsAreFinite
    <3>4. usedDay' <= usedDay
      <4>1. \A c, c1, b \in Nat : c1 <= c => c1 + b <= c + b
        OBVIOUS
      <4>2. beside \in Nat
        BY DEF TypeOK
      <4> QED BY <3>1, <3>3, <4>1, <4>2, FloodNumbers DEF usedDay
    <3>5. Cardinality(picked') <= Cardinality(picked)
      BY <3>1, FloodNumbers
    <3> QED BY <3>1, <3>2, <3>4, <3>5, FloodEased
  <2>2. ASSUME BesideAgesOut
        PROVE  FloodInv'
    <3>1. /\ PastTheLine' = PastTheLine /\ picked' = picked /\ others' = others
          /\ counted' = counted /\ beside' = beside - 1 /\ beside > 0
      BY <2>2 DEF BesideAgesOut, table, batch, ghosts, PastTheLine
    <3>2. usedDay' <= usedDay
      <4>1. \A c, b \in Nat : b > 0 => c + (b - 1) <= c + b
        OBVIOUS
      <4>2. beside \in Nat
        BY DEF TypeOK
      <4> QED BY <3>1, <4>1, <4>2, FloodNumbers DEF usedDay
    <3>3. PastTheLine' <= PastTheLine /\ Cardinality(picked') <= Cardinality(picked)
      BY <3>1, FloodNumbers
    <3> QED BY <3>1, <3>2, <3>3, FloodEased
  <2>3. ASSUME NEW t \in Sub, GrowsOld(t) \/ GoesStale(t) \/ Purge(t) \/ PruneClaim(t)
        PROVE  Same
    BY <2>3 DEF GrowsOld, GoesStale, Purge, PruneClaim, table, pool, batch, ghosts
  <2>4. ASSUME NEW a \in Address, PruneBounce(a) \/ ComplaintLapses(a)
        PROVE  Same
    BY <2>4 DEF PruneBounce, ComplaintLapses, table, pool, batch, ghosts
  <2> QED BY <1>1, <2>1, <2>2, <2>3, <2>4 DEF Clock
<1>5. Digest => FloodInv'
  <2> SUFFICES ASSUME Digest PROVE FloodInv'
      OBVIOUS
  <2>1. /\ PastTheLine' = PastTheLine /\ picked' = picked /\ picked = {}
        /\ others' = others
    BY DEF Digest, TypeOK, table, batch, ghosts, PastTheLine
  <2>2. StillToCross' = 0
    <3>1. Cardinality({}) = 0
      BY FS_EmptySet
    <3>2. usedDay' \in Nat
      BY FloodNumbersNext
    <3>3. Less(Line, usedDay') \in Nat
      BY <3>2, LessIsNat, PoolAssumption
    <3>4. StillToCross' = Less(0, Less(Line, usedDay'))
      BY <2>1, <3>1 DEF StillToCross
    <3>5. \A n \in Nat : Less(0, n) = 0
      BY DEF Less
    <3> QED BY <3>3, <3>4, <3>5
  <2>3. \A a, b, c \in Nat : a + b <= c => a + 0 <= c
    OBVIOUS
  <2>4. Reserve + others \in Nat
    BY PoolAssumption DEF TypeOK
  <2> QED BY <2>1, <2>2, <2>3, <2>4, FloodNumbers DEF FloodInv
<1>6. ASSUME UNCHANGED <<counted, beside, past, marked, others>>,
             picked' \in SUBSET picked, delivered' \in SUBSET delivered
      PROVE  FloodInv'
  <2>1. PastTheLine' <= PastTheLine
    <3>1. /\ past \cap (marked \cup delivered) \in SUBSET Sub
          /\ past' \cap (marked' \cup delivered') \in SUBSET (past \cap (marked \cup delivered))
      BY <1>6 DEF TypeOK
    <3> QED BY <3>1, RowsAreFinite DEF PastTheLine
  <2>2. Cardinality(picked') <= Cardinality(picked)
    BY <1>6, RowsAreFinite DEF TypeOK
  <2>3. usedDay' <= usedDay
    <3>1. usedDay' = usedDay
      BY <1>6 DEF usedDay
    <3> QED BY <3>1, FloodNumbers
  <2> QED BY <1>6, <2>1, <2>2, <2>3, FloodEased
<1>7. Claim => FloodInv'
  BY <1>6 DEF Claim, table, pool, ghosts
<1>8. ASSUME NEW t \in Sub, Decline(t)
      PROVE  FloodInv'
  BY <1>6, <1>8 DEF Decline, table, pool, ghosts
<1>9. Dies => FloodInv'
  <2> SUFFICES ASSUME Dies PROVE FloodInv'
      OBVIOUS
  <2>1. /\ UNCHANGED <<counted, beside, past, marked, others>>
        /\ picked' = {} /\ delivered' = {}
    BY DEF Dies, table, pool
  <2> QED BY <1>6, <2>1
<1>10. BatchReturns \/ CycleEnds => Same
  BY DEF BatchReturns, CycleEnds, table, pool, ghosts
<1>11. ASSUME NEW t \in Sub, Mark(t)
       PROVE  Same
  BY <1>11 DEF Mark, pool, ghosts
<1>12. UNCHANGED vars => Same
  BY DEF vars, table, pool, batch, ghosts
<1> HIDE DEF Same
<1> QED
  BY <1>1, <1>2, <1>3, <1>4, <1>5, <1>7, <1>8, <1>9, <1>10, <1>11, <1>12, FloodPick,
     FloodAccept, FloodOther
     DEF Next, Cycle

(* Both are inductive.                                                     *)
LEMMA FloodInvariant == Spec => []((\A s \in Sub : CountInv(s)) /\ FloodInv)
<1> DEFINE Mails == \A s \in Sub : MailInv(s)
           Counts == \A s \in Sub : CountInv(s)
<1>1. Init => Counts /\ FloodInv
  <2> SUFFICES ASSUME Init PROVE Counts /\ FloodInv
      OBVIOUS
  <2>1. Counts
    BY DEF Init, CountInv
  <2>2. past \cap (marked \cup delivered) = {} /\ picked = {} /\ Cardinality({}) = 0
    BY FS_EmptySet DEF Init
  <2>3. usedDay \in Nat
    BY <2>2 DEF Init, usedDay
  <2>4. Less(Line, usedDay) \in Nat
    BY <2>3, LessIsNat, PoolAssumption
  <2>5. PastTheLine = 0 /\ StillToCross = 0
    <3>1. StillToCross = Less(0, Less(Line, usedDay))
      BY <2>2 DEF StillToCross
    <3>2. \A n \in Nat : Less(0, n) = 0
      BY DEF Less
    <3> QED BY <2>2, <2>4, <3>1, <3>2 DEF PastTheLine
  <2>6. FloodInv
    BY <2>5, PoolAssumption DEF Init, FloodInv
  <2> QED BY <2>1, <2>6
<1>2. TypeOK /\ TypeOK' /\ Mails /\ Counts /\ FloodInv /\ [Next]_vars
        => (Counts /\ FloodInv)'
  <2> SUFFICES ASSUME TypeOK, TypeOK', Mails, Counts, FloodInv, [Next]_vars
               PROVE  (Counts /\ FloodInv)'
      OBVIOUS
  <2>1. Counts'
    BY CountStep
  <2>2. FloodInv'
    BY FloodStep
  <2> QED BY <2>1, <2>2
<1> QED BY <1>1, <1>2, TypeInvariant, MailInvariant, PTL DEF Spec

(* For any pool, line and reserve: past the pressure line a rolling day's  *)
(* confirmations stay within the reserve, but for other mail that          *)
(* overtook a batch.                                                       *)
THEOREM FloodBoundHolds == Spec => []FloodBound
<1>1. TypeOK /\ FloodInv => FloodBound
  <2> SUFFICES ASSUME TypeOK, FloodInv PROVE FloodBound
      OBVIOUS
  <2>1. \A a, b, c \in Nat : a + b <= c => a <= c
    OBVIOUS
  <2>2. Reserve + others \in Nat
    BY PoolAssumption DEF TypeOK
  <2> QED BY <2>1, <2>2, FloodNumbers DEF FloodInv, FloodBound, PastTheLine
<1> QED BY <1>1, TypeInvariant, FloodInvariant, PTL
=============================================================================
