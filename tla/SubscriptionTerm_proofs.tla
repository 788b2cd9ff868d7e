----------------------- MODULE SubscriptionTerm_proofs -----------------------
(***************************************************************************)
(* Proofs about SubscriptionTerm for any number of subscriptions and any   *)
(* terms, windows and grace with Window < Short <= Term.                   *)
(***************************************************************************)
EXTENDS SubscriptionTerm, TLAPS

(* A new term outlasts the check-in's window.                              *)
LEMMA TermLength ==
  /\ \A b \in BOOLEAN : /\ ttl_days_for(b) \in Nat
                        /\ Window < ttl_days_for(b) /\ ttl_days_for(b) <= Term
  /\ \A s : NewEnd(s) \in Nat /\ Window < NewEnd(s) /\ NewEnd(s) <= Term
BY TermAssumption DEF NewEnd, ttl_days_for

-----------------------------------------------------------------------------
(* The state keeps its type; no remaining term is ever longer than Term.   *)
THEOREM TypeInvariant == Spec => []TypeOK
<1>1. Init => TypeOK
  BY TermAssumption DEF Init, TypeOK, RowStates, Steps
<1>2. TypeOK /\ [Next]_vars => TypeOK'
  <2> SUFFICES ASSUME TypeOK, [Next]_vars PROVE TypeOK'
      OBVIOUS
  <2> USE TermAssumption, TermLength DEF TypeOK, RowStates, Steps, Stored
  <2>1. ASSUME NEW t \in Sub, NEW b \in BOOLEAN, NEW push \in BOOLEAN, SignUp(t, b, push)
        PROVE  TypeOK'
    BY <2>1 DEF SignUp, rows, batch, history, counts
  <2>2. ASSUME NEW t \in Sub, Confirm(t)
        PROVE  TypeOK'
    BY <2>2 DEF Confirm, rows, batch, history, counts
  <2>3. ASSUME NEW t \in Sub, ReadForRenew(t)
        PROVE  TypeOK'
    BY <2>3 DEF ReadForRenew, rows, batch, history, counts
  <2>4. ASSUME NEW t \in Sub, Renew(t)
        PROVE  TypeOK'
    <3>1. NewEnd(t) \in Int /\ NewEnd(t) <= Term
      OBVIOUS
    <3>2. /\ left' \in [Sub -> Int] /\ \A s \in Sub : left'[s] <= Term
          /\ claim' \in [Sub -> {"none", "pending", "sent"}]
          /\ due' \in [Sub -> {"no", "yes", "moved"}]
      BY <2>4, <3>1 DEF Renew, MoveExpiry
    <3> QED
      BY <2>4, <3>2 DEF Renew, LatchCleared, Asked, rows, batch, history, counts
  <2>5. ASSUME NEW t \in Sub, RenewNothing(t)
        PROVE  TypeOK'
    BY <2>5 DEF RenewNothing, rows, batch, history, counts
  <2>6. ASSUME NEW t \in Sub, NEW b \in BOOLEAN, Edit(t, b)
        PROVE  TypeOK'
    <3> DEFINE d == IF b THEN Least(left[t], Short) ELSE left[t]
    <3>1. d \in Int /\ d <= Term
      BY DEF Least
    <3>2. MoveExpiry(t, d)
      BY <2>6 DEF Edit
    <3> HIDE DEF d
    <3>3. /\ left' \in [Sub -> Int] /\ \A s \in Sub : left'[s] <= Term
          /\ claim' \in [Sub -> {"none", "pending", "sent"}]
          /\ due' \in [Sub -> {"no", "yes", "moved"}]
      BY <3>1, <3>2 DEF MoveExpiry
    <3> QED
      BY <2>6, <3>3 DEF Edit, rows, batch, history, counts
  <2>7. ASSUME NEW t \in Sub, Unsubscribe(t)
        PROVE  TypeOK'
    BY <2>7 DEF Unsubscribe, rows, batch, history, counts
  <2>8. ASSUME NEW t \in Sub, ProofTurns(t)
        PROVE  TypeOK'
    BY <2>8 DEF ProofTurns, rows, batch, history, counts
  <2>9. Clean => TypeOK'
    BY DEF Clean, Clamped, ttl_days_for, Least, rows, batch, history, counts
  <2>10. OpenMail => TypeOK'
    BY DEF OpenMail, OpenBatch, Claimable, Found, rows, batch, history, counts
  <2>11. OpenPush => TypeOK'
    BY DEF OpenPush, OpenBatch, Claimable, Found, rows, batch, history, counts
  <2>12. ASSUME NEW t \in Sub, Deliver(t)
        PROVE  TypeOK'
    BY <2>12 DEF Deliver, Judged, Asked, rows, batch, history, counts
  <2>13. ASSUME NEW t \in Sub, Decline(t)
        PROVE  TypeOK'
    BY <2>13 DEF Decline, Judged, rows, batch, history, counts
  <2>14. CloseMail => TypeOK'
    BY DEF CloseMail, CloseBatch, EndBatch, Latched, rows, batch, history, counts
  <2>15. ClosePush => TypeOK'
    BY DEF ClosePush, CloseBatch, EndBatch, Latched, rows, batch, history, counts
  <2>16. StepRaises("mailing", "push") => TypeOK'
    BY DEF StepRaises, EndBatch, Fault, Unanswered, rows, batch, history, counts
  <2>17. StepRaises("pushing", "ran") => TypeOK'
    BY DEF StepRaises, EndBatch, Fault, Unanswered, rows, batch, history, counts
  <2>18. Crash => TypeOK'
    BY DEF Crash, Fault, Unanswered, Asked, rows, batch, history, counts
  <2>19. NextDay => TypeOK'
    BY DEF NextDay, Fault, rows, batch, history, counts
  <2>20. UNCHANGED vars => TypeOK'
    BY DEF vars, rows, batch, history, counts
  <2> QED
    BY <2>1, <2>2, <2>3, <2>4, <2>5, <2>6, <2>7, <2>8, <2>9, <2>10, <2>11, <2>12, <2>13, <2>14, <2>15, <2>16, <2>17, <2>18, <2>19, <2>20
       DEF Next, Handlers, Housekeeping
<1> QED BY <1>1, <1>2, PTL DEF Spec

-----------------------------------------------------------------------------
(* What a run owes a row in its window: a question, unless it could not be *)
(* asked today.                                                            *)
Settled(s) ==
  row[s] \in Stored /\ InWindow(s) /\ asked[s] = 0 /\ s \notin stamped => s \in spared

(* How often a row was asked, from its claim: the claim stays on record    *)
(* for as long as the term it asked about, since nothing but a renewal     *)
(* moves an expiry date that is inside the window.                         *)
AskInv(s) ==
  /\ row[s] = "none" => asked[s] = 0 /\ due[s] = "no" /\ s \notin special
  /\ due[s] # "no" => hk \in {"mailing", "pushing"}
  /\ due[s] = "yes" => claim[s] = "pending" /\ left[s] <= Window
  /\ asked[s] > 0 => left[s] <= Window
  /\ claim[s] = "sent" => asked[s] > 0
  /\ claim[s] # "sent" => asked[s] <= doubts
  /\ asked[s] <= 1 + doubts

(* Why a term that is over was asked about: the days of its window that    *)
(* have passed unasked are days it was spared, and each step of a run      *)
(* settles what it found.                                                  *)
EndInv(s) ==
  /\ s \in latched => asked[s] > 0 \/ s \in stamped
  /\ row[s] \in Stored /\ asked[s] = 0 /\ s \notin stamped /\ left[s] <= Window
       => IF left[s] < 0 THEN spare[s] >= Window ELSE spare[s] + left[s] >= Window
  /\ hk = "mailing" /\ s \notin app => Settled(s) \/ due[s] = "yes"
  /\ hk \in {"push", "pushing", "ran"} /\ s \notin app => Settled(s)
  /\ hk = "pushing" /\ s \in app => Settled(s) \/ due[s] = "yes"
  /\ hk = "ran" /\ s \in app => Settled(s)

AskedInv == \A s \in Sub : AskInv(s)
EndedInv == \A s \in Sub : EndInv(s)

(* No step asks a term a second time, unless the poller died on the first. *)
LEMMA AskedStep ==
  ASSUME TypeOK, AskedInv, [Next]_vars, NEW s \in Sub
  PROVE  AskInv(s)'
<1> USE TermAssumption, TermLength DEF TypeOK, AskInv, AskedInv, Stored,
     InWindow
<1>1. ASSUME NEW t \in Sub, NEW b \in BOOLEAN, NEW push \in BOOLEAN, SignUp(t, b, push)
      PROVE  AskInv(s)'
  BY <1>1 DEF SignUp, rows, batch, history, counts
<1>2. ASSUME NEW t \in Sub, Confirm(t)
      PROVE  AskInv(s)'
  BY <1>2 DEF Confirm, rows, batch, history, counts
<1>3. ASSUME NEW t \in Sub, ReadForRenew(t)
      PROVE  AskInv(s)'
  BY <1>3 DEF ReadForRenew, rows, batch, history, counts
<1>4. ASSUME NEW t \in Sub, Renew(t)
      PROVE  AskInv(s)'
  BY <1>4 DEF Renew, MoveExpiry, NewEnd, LatchCleared, Asked, rows, batch,
       history, counts
<1>5. ASSUME NEW t \in Sub, RenewNothing(t)
      PROVE  AskInv(s)'
  BY <1>5 DEF RenewNothing, rows, batch, history, counts
<1>6. ASSUME NEW t \in Sub, NEW b \in BOOLEAN, Edit(t, b)
      PROVE  AskInv(s)'
  BY <1>6 DEF Edit, MoveExpiry, Least, rows, batch, history, counts
<1>7. ASSUME NEW t \in Sub, Unsubscribe(t)
      PROVE  AskInv(s)'
  BY <1>7 DEF Unsubscribe, rows, batch, history, counts
<1>8. ASSUME NEW t \in Sub, ProofTurns(t)
      PROVE  AskInv(s)'
  BY <1>8 DEF ProofTurns, rows, batch, history, counts
<1>9. Clean => AskInv(s)'
  BY DEF Clean, Clamped, ttl_days_for, Least, rows, batch, history, counts
<1>10. OpenMail => AskInv(s)'
  BY DEF OpenMail, OpenBatch, Claimable, Found, rows, batch, history, counts
<1>11. OpenPush => AskInv(s)'
  BY DEF OpenPush, OpenBatch, Claimable, Found, rows, batch, history, counts
<1>12. ASSUME NEW t \in Sub, Deliver(t)
      PROVE  AskInv(s)'
  BY <1>12 DEF Deliver, Judged, Asked, rows, batch, history, counts
<1>13. ASSUME NEW t \in Sub, Decline(t)
      PROVE  AskInv(s)'
  BY <1>13 DEF Decline, Judged, rows, batch, history, counts
<1>14. CloseMail => AskInv(s)'
  BY DEF CloseMail, CloseBatch, EndBatch, Latched, rows, batch, history,
       counts
<1>15. ClosePush => AskInv(s)'
  BY DEF ClosePush, CloseBatch, EndBatch, Latched, rows, batch, history,
       counts
<1>16. StepRaises("mailing", "push") => AskInv(s)'
  BY DEF StepRaises, EndBatch, Fault, Unanswered, rows, batch, history, counts
<1>17. StepRaises("pushing", "ran") => AskInv(s)'
  BY DEF StepRaises, EndBatch, Fault, Unanswered, rows, batch, history, counts
<1>18. Crash => AskInv(s)'
  BY DEF Crash, Fault, Unanswered, Asked, rows, batch, history, counts
<1>19. NextDay => AskInv(s)'
  BY DEF NextDay, Fault, rows, batch, history, counts
<1>20. UNCHANGED vars => AskInv(s)'
  BY DEF vars, rows, batch, history, counts
<1> QED BY <1>1, <1>2, <1>3, <1>4, <1>5, <1>6, <1>7, <1>8, <1>9, <1>10, <1>11,
     <1>12, <1>13, <1>14, <1>15, <1>16, <1>17, <1>18, <1>19, <1>20
       DEF Next, Handlers, Housekeeping

(* No step of a run leaves a row of its channel unsettled behind.          *)
LEMMA EndedStep ==
  ASSUME TypeOK, AskedInv, EndedInv, [Next]_vars, NEW s \in Sub
  PROVE  EndInv(s)'
<1> USE TermAssumption, TermLength DEF TypeOK, EndInv, AskedInv, EndedInv,
     AskInv, Settled, Stored, InWindow
<1>1. ASSUME NEW t \in Sub, NEW b \in BOOLEAN, NEW push \in BOOLEAN, SignUp(t, b, push)
      PROVE  EndInv(s)'
  BY <1>1 DEF SignUp, rows, batch, history, counts
<1>2. ASSUME NEW t \in Sub, Confirm(t)
      PROVE  EndInv(s)'
  BY <1>2 DEF Confirm, rows, batch, history, counts
<1>3. ASSUME NEW t \in Sub, ReadForRenew(t)
      PROVE  EndInv(s)'
  BY <1>3 DEF ReadForRenew, rows, batch, history, counts
<1>4. ASSUME NEW t \in Sub, Renew(t)
      PROVE  EndInv(s)'
  BY <1>4 DEF Renew, MoveExpiry, NewEnd, LatchCleared, Asked, rows, batch,
       history, counts
<1>5. ASSUME NEW t \in Sub, RenewNothing(t)
      PROVE  EndInv(s)'
  BY <1>5 DEF RenewNothing, rows, batch, history, counts
<1>6. ASSUME NEW t \in Sub, NEW b \in BOOLEAN, Edit(t, b)
      PROVE  EndInv(s)'
  BY <1>6 DEF Edit, MoveExpiry, Least, rows, batch, history, counts
<1>7. ASSUME NEW t \in Sub, Unsubscribe(t)
      PROVE  EndInv(s)'
  BY <1>7 DEF Unsubscribe, rows, batch, history, counts
<1>8. ASSUME NEW t \in Sub, ProofTurns(t)
      PROVE  EndInv(s)'
  BY <1>8 DEF ProofTurns, rows, batch, history, counts
<1>9. Clean => EndInv(s)'
  BY DEF Clean, Clamped, ttl_days_for, Least, rows, batch, history, counts
<1>10. OpenMail => EndInv(s)'
  BY DEF OpenMail, OpenBatch, Claimable, Found, rows, batch, history, counts
<1>11. OpenPush => EndInv(s)'
  BY DEF OpenPush, OpenBatch, Claimable, Found, rows, batch, history, counts
<1>12. ASSUME NEW t \in Sub, Deliver(t)
      PROVE  EndInv(s)'
  BY <1>12 DEF Deliver, Judged, Asked, rows, batch, history, counts
<1>13. ASSUME NEW t \in Sub, Decline(t)
      PROVE  EndInv(s)'
  BY <1>13 DEF Decline, Judged, rows, batch, history, counts
<1>14. CloseMail => EndInv(s)'
  BY DEF CloseMail, CloseBatch, EndBatch, Latched, rows, batch, history,
       counts
<1>15. ClosePush => EndInv(s)'
  BY DEF ClosePush, CloseBatch, EndBatch, Latched, rows, batch, history,
       counts
<1>16. StepRaises("mailing", "push") => EndInv(s)'
  BY DEF StepRaises, EndBatch, Fault, Unanswered, rows, batch, history, counts
<1>17. StepRaises("pushing", "ran") => EndInv(s)'
  BY DEF StepRaises, EndBatch, Fault, Unanswered, rows, batch, history, counts
<1>18. Crash => EndInv(s)'
  BY DEF Crash, Fault, Unanswered, Asked, rows, batch, history, counts
<1>19. NextDay => EndInv(s)'
  BY DEF NextDay, Fault, rows, batch, history, counts
<1>20. UNCHANGED vars => EndInv(s)'
  BY DEF vars, rows, batch, history, counts
<1> QED BY <1>1, <1>2, <1>3, <1>4, <1>5, <1>6, <1>7, <1>8, <1>9, <1>10, <1>11,
     <1>12, <1>13, <1>14, <1>15, <1>16, <1>17, <1>18, <1>19, <1>20
       DEF Next, Handlers, Housekeeping

-----------------------------------------------------------------------------
(* A term asks once, and twice only when the poller died between a         *)
(* delivery and its record: the check-in's idempotency claim.              *)
THEOREM AskedOnceHolds == Spec => []AskedOnce
<1>1. Init => AskedInv
  BY DEF Init, AskedInv, AskInv
<1>2. TypeOK /\ AskedInv /\ [Next]_vars => AskedInv'
  BY AskedStep DEF AskedInv
<1>3. AskedInv => AskedOnce
  BY DEF AskedInv, AskInv, AskedOnce
<1> QED BY <1>1, <1>2, <1>3, TypeInvariant, PTL DEF Spec

(* Nobody's term ends unasked, but for the reasons NoSilentEnd names.      *)
THEOREM NoSilentEndHolds == Spec => []NoSilentEnd
<1>1. Init => AskedInv /\ EndedInv
  BY TermAssumption
     DEF Init, AskedInv, AskInv, EndedInv, EndInv, Settled, Stored
<1>2. TypeOK /\ AskedInv /\ [Next]_vars => AskedInv'
  BY AskedStep DEF AskedInv
<1>3. TypeOK /\ AskedInv /\ EndedInv /\ [Next]_vars => EndedInv'
  BY EndedStep DEF EndedInv
<1>4. TypeOK /\ AskedInv /\ EndedInv => NoSilentEnd
  <2> SUFFICES ASSUME TypeOK, AskedInv, EndedInv, NEW s \in Sub, Paused(s),
                      ~(asked[s] > 0), s \notin stamped
               PROVE  spare[s] >= Window
      BY DEF NoSilentEnd
  <2>1. row[s] \in Stored /\ left[s] <= 0 /\ left[s] \in Int /\ spare[s] \in Nat
    BY DEF Paused, Stored, TypeOK
  <2>2. asked[s] = 0
    BY DEF TypeOK
  <2> QED BY <2>1, <2>2, TermAssumption DEF EndedInv, EndInv
<1> QED BY <1>1, <1>2, <1>3, <1>4, TypeInvariant, PTL DEF Spec

-----------------------------------------------------------------------------
(* A special-category row is never kept past the short retention, but for  *)
(* a renewal judged on an outdated reading, until the next clamp.          *)
SpecialInv == SensitiveTermKept /\ \A s \in Sub : row[s] = "none" => s \notin special

THEOREM SensitiveTermHolds == Spec => []SensitiveTermKept
<1>1. Init => SpecialInv
  BY DEF Init, SpecialInv, SensitiveTermKept
<1>2. TypeOK /\ SpecialInv /\ [Next]_vars => SpecialInv'
  <2> SUFFICES ASSUME TypeOK, SpecialInv, [Next]_vars PROVE SpecialInv'
      OBVIOUS
  <2> USE TermAssumption DEF TypeOK, SpecialInv, SensitiveTermKept, Stored
  <2>1. ASSUME NEW t \in Sub, NEW b \in BOOLEAN, NEW push \in BOOLEAN, SignUp(t, b, push)
        PROVE  SpecialInv'
    BY <2>1 DEF SignUp, ttl_days_for, rows, batch, history, counts
  <2>2. ASSUME NEW t \in Sub, Confirm(t)
        PROVE  SpecialInv'
    BY <2>2 DEF Confirm, rows, batch, history, counts
  <2>3. ASSUME NEW t \in Sub, ReadForRenew(t)
        PROVE  SpecialInv'
    BY <2>3 DEF ReadForRenew, rows, batch, history, counts
  <2>4. ASSUME NEW t \in Sub, Renew(t)
        PROVE  SpecialInv'
    BY <2>4 DEF Renew, MoveExpiry, NewEnd, LatchCleared, Asked, ttl_days_for,
         rows, batch, history, counts
  <2>5. ASSUME NEW t \in Sub, RenewNothing(t)
        PROVE  SpecialInv'
    BY <2>5 DEF RenewNothing, rows, batch, history, counts
  <2>6. ASSUME NEW t \in Sub, NEW b \in BOOLEAN, Edit(t, b)
        PROVE  SpecialInv'
    BY <2>6 DEF Edit, MoveExpiry, Least, rows, batch, history, counts
  <2>7. ASSUME NEW t \in Sub, Unsubscribe(t)
        PROVE  SpecialInv'
    BY <2>7 DEF Unsubscribe, rows, batch, history, counts
  <2>8. ASSUME NEW t \in Sub, ProofTurns(t)
        PROVE  SpecialInv'
    BY <2>8 DEF ProofTurns, rows, batch, history, counts
  <2>9. Clean => SpecialInv'
    BY DEF Clean, Clamped, ttl_days_for, Least, rows, batch, history, counts
  <2>10. OpenMail => SpecialInv'
    BY DEF OpenMail, OpenBatch, Claimable, Found, rows, batch, history, counts
  <2>11. OpenPush => SpecialInv'
    BY DEF OpenPush, OpenBatch, Claimable, Found, rows, batch, history, counts
  <2>12. ASSUME NEW t \in Sub, Deliver(t)
        PROVE  SpecialInv'
    BY <2>12 DEF Deliver, Judged, Asked, rows, batch, history, counts
  <2>13. ASSUME NEW t \in Sub, Decline(t)
        PROVE  SpecialInv'
    BY <2>13 DEF Decline, Judged, rows, batch, history, counts
  <2>14. CloseMail => SpecialInv'
    BY DEF CloseMail, CloseBatch, EndBatch, Latched, rows, batch, history,
         counts
  <2>15. ClosePush => SpecialInv'
    BY DEF ClosePush, CloseBatch, EndBatch, Latched, rows, batch, history,
         counts
  <2>16. StepRaises("mailing", "push") => SpecialInv'
    BY DEF StepRaises, EndBatch, Fault, Unanswered, rows, batch, history,
         counts
  <2>17. StepRaises("pushing", "ran") => SpecialInv'
    BY DEF StepRaises, EndBatch, Fault, Unanswered, rows, batch, history,
         counts
  <2>18. Crash => SpecialInv'
    BY DEF Crash, Fault, Unanswered, Asked, rows, batch, history, counts
  <2>19. NextDay => SpecialInv'
    BY DEF NextDay, Fault, rows, batch, history, counts
  <2>20. UNCHANGED vars => SpecialInv'
    BY DEF vars, rows, batch, history, counts
  <2> QED BY <2>1, <2>2, <2>3, <2>4, <2>5, <2>6, <2>7, <2>8, <2>9, <2>10,
       <2>11, <2>12, <2>13, <2>14, <2>15, <2>16, <2>17, <2>18, <2>19, <2>20
         DEF Next, Handlers, Housekeeping
<1>3. SpecialInv => SensitiveTermKept
  BY DEF SpecialInv
<1> QED BY <1>1, <1>2, <1>3, TypeInvariant, PTL DEF Spec

-----------------------------------------------------------------------------
(* No row outlives its term by more than the grace, nor its deletion by    *)
(* more than the purge, by more than the days without a run and one.       *)
KeptInv ==
  /\ RetentionKept
  /\ hk # "waiting" =>
       \A s \in Sub : /\ row[s] \in Stored => 0 <= left[s] + Grace
                      /\ row[s] = "deleted" => age[s] <= Purge

THEOREM RetentionHolds == Spec => []RetentionKept
<1>1. Init => KeptInv
  BY TermAssumption DEF Init, KeptInv, RetentionKept, Stored
<1>2. TypeOK /\ KeptInv /\ [Next]_vars => KeptInv'
  <2> SUFFICES ASSUME TypeOK, KeptInv, [Next]_vars PROVE KeptInv'
      OBVIOUS
  <2> USE TermAssumption, TermLength DEF TypeOK, KeptInv, RetentionKept, Stored, Steps
  <2>1. ASSUME NEW t \in Sub, NEW b \in BOOLEAN, NEW push \in BOOLEAN, SignUp(t, b, push)
        PROVE  KeptInv'
    BY <2>1 DEF SignUp, rows, batch, history, counts
  <2>2. ASSUME NEW t \in Sub, Confirm(t)
        PROVE  KeptInv'
    BY <2>2 DEF Confirm, rows, batch, history, counts
  <2>3. ASSUME NEW t \in Sub, ReadForRenew(t)
        PROVE  KeptInv'
    BY <2>3 DEF ReadForRenew, rows, batch, history, counts
  <2>4. ASSUME NEW t \in Sub, Renew(t)
        PROVE  KeptInv'
    BY <2>4 DEF Renew, MoveExpiry, NewEnd, LatchCleared, Asked, rows, batch,
         history, counts
  <2>5. ASSUME NEW t \in Sub, RenewNothing(t)
        PROVE  KeptInv'
    BY <2>5 DEF RenewNothing, rows, batch, history, counts
  <2>6. ASSUME NEW t \in Sub, NEW b \in BOOLEAN, Edit(t, b)
        PROVE  KeptInv'
    BY <2>6 DEF Edit, MoveExpiry, Least, rows, batch, history, counts
  <2>7. ASSUME NEW t \in Sub, Unsubscribe(t)
        PROVE  KeptInv'
    BY <2>7 DEF Unsubscribe, rows, batch, history, counts
  <2>8. ASSUME NEW t \in Sub, ProofTurns(t)
        PROVE  KeptInv'
    BY <2>8 DEF ProofTurns, rows, batch, history, counts
  <2>9. Clean => KeptInv'
    BY DEF Clean, Clamped, ttl_days_for, Least, AfterTheGrace, rows, batch,
         history, counts
  <2>10. OpenMail => KeptInv'
    BY DEF OpenMail, OpenBatch, Claimable, Found, rows, batch, history, counts
  <2>11. OpenPush => KeptInv'
    BY DEF OpenPush, OpenBatch, Claimable, Found, rows, batch, history, counts
  <2>12. ASSUME NEW t \in Sub, Deliver(t)
        PROVE  KeptInv'
    BY <2>12 DEF Deliver, Judged, Asked, rows, batch, history, counts
  <2>13. ASSUME NEW t \in Sub, Decline(t)
        PROVE  KeptInv'
    BY <2>13 DEF Decline, Judged, rows, batch, history, counts
  <2>14. CloseMail => KeptInv'
    BY DEF CloseMail, CloseBatch, EndBatch, Latched, rows, batch, history,
         counts
  <2>15. ClosePush => KeptInv'
    BY DEF ClosePush, CloseBatch, EndBatch, Latched, rows, batch, history,
         counts
  <2>16. StepRaises("mailing", "push") => KeptInv'
    BY DEF StepRaises, EndBatch, Fault, Unanswered, rows, batch, history,
         counts
  <2>17. StepRaises("pushing", "ran") => KeptInv'
    BY DEF StepRaises, EndBatch, Fault, Unanswered, rows, batch, history,
         counts
  <2>18. Crash => KeptInv'
    BY DEF Crash, Fault, Unanswered, Asked, rows, batch, history, counts
  <2>19. NextDay => KeptInv'
    <3> SUFFICES ASSUME NextDay PROVE KeptInv'
        OBVIOUS
    <3>1. hk' = "waiting" /\ hk \in {"ran", "waiting"}
      BY DEF NextDay
    <3>2. \/ hk = "waiting" /\ faults' = faults + 1
          \/ hk = "ran" /\ faults' = faults
      BY DEF NextDay, Fault, counts
    <3>3. row' = row
      BY DEF NextDay
    <3>4. ASSUME NEW s \in Sub, row[s] \in Stored
          PROVE  -left'[s] <= Grace + 1 + faults'
      <4>1. left'[s] = left[s] - 1
        BY <3>4 DEF NextDay
      <4>2. left[s] \in Int /\ faults \in Nat /\ Grace \in Nat
        OBVIOUS
      <4>3. CASE hk = "waiting"
        <5>1. -left[s] <= Grace + 1 + faults
          BY <3>4
        <5> QED BY <3>2, <4>1, <4>2, <4>3, <5>1
      <4>4. CASE hk = "ran"
        <5>1. hk # "waiting"
          BY <4>4
        <5>2. 0 <= left[s] + Grace
          BY <3>4, <5>1
        <5> QED BY <3>2, <4>1, <4>2, <4>4, <5>2
      <4> QED BY <3>1, <4>3, <4>4
    <3>5. ASSUME NEW s \in Sub, row[s] = "deleted"
          PROVE  age'[s] <= Purge + 1 + faults'
      <4>1. age'[s] = age[s] + 1
        BY <3>5 DEF NextDay
      <4>2. age[s] \in Nat /\ faults \in Nat /\ Purge \in Nat
        OBVIOUS
      <4>3. CASE hk = "waiting"
        <5>1. age[s] <= Purge + 1 + faults
          BY <3>5
        <5> QED BY <3>2, <4>1, <4>2, <4>3, <5>1
      <4>4. CASE hk = "ran"
        <5>1. age[s] <= Purge
          BY <3>5, <4>4
        <5> QED BY <3>2, <4>1, <4>2, <4>4, <5>1
      <4> QED BY <3>1, <4>3, <4>4
    <3> QED BY <3>1, <3>3, <3>4, <3>5
  <2>20. UNCHANGED vars => KeptInv'
    BY DEF vars, rows, batch, history, counts
  <2> QED BY <2>1, <2>2, <2>3, <2>4, <2>5, <2>6, <2>7, <2>8, <2>9, <2>10,
       <2>11, <2>12, <2>13, <2>14, <2>15, <2>16, <2>17, <2>18, <2>19, <2>20
         DEF Next, Handlers, Housekeeping
<1>3. KeptInv => RetentionKept
  BY DEF KeptInv
<1> QED BY <1>1, <1>2, <1>3, TypeInvariant, PTL DEF Spec
=============================================================================
