--------------------------- MODULE PlanCap_proofs ---------------------------
(***************************************************************************)
(* Proofs about PlanCap for every number of rows, services and offices and *)
(* every cap: its type invariant, the bounds on the services and the polls *)
(* of a city, how an excess over the cap comes about and drains, and the   *)
(* ceilings of a device.                                                   *)
(***************************************************************************)
EXTENDS PlanCap, FiniteSetTheorems, TLAPS

(***************************************************************************)
(* What an acceptance by cap_refuses leaves polled: either the wanted      *)
(* service was polled already, or everything polled, it included, is       *)
(* within the cap and the app's share.                                     *)
(***************************************************************************)
LEMMA ShareType == app_share \in Nat
BY CapAssumption, SMT DEF app_share

LEMMA MailAccepted ==
  ASSUME NEW mail \in SUBSET Service, NEW app \in SUBSET Service,
         NEW v \in Service, NEW own,
         ~CapRefusesMail(mail, app, v, own)
  PROVE  \/ v \in mail \cup app \cup own
         \/ Cardinality(mail \cup app \cup {v}) <= Cap + app_share
<1> SUFFICES ASSUME v \notin mail \cup app \cup own
             PROVE  Cardinality(mail \cup app \cup {v}) <= Cap + app_share
    OBVIOUS
<1> DEFINE held == app \ mail
<1>1. IsFiniteSet(mail) /\ IsFiniteSet(app) /\ IsFiniteSet(held)
  BY FilterAssumption, FS_Subset, held \in SUBSET Service
<1>2. /\ Cardinality(mail) \in Nat /\ Cardinality(held) \in Nat
      /\ Cardinality(mail \cap held) \in Nat
  BY <1>1, FS_CardinalityType, FS_Intersection
<1>3. ~(Cardinality(mail) + Past(Cardinality(held), app_share) + 1 > Cap)
  BY DEF CapRefusesMail
<1>4. mail \cup app \cup {v} = (mail \cup held) \cup {v}
  OBVIOUS
<1> HIDE DEF held
<1>5. /\ IsFiniteSet(mail \cup held)
      /\ Cardinality(mail \cup held) =
           Cardinality(mail) + Cardinality(held) - Cardinality(mail \cap held)
  BY <1>1, FS_Union
<1>6. Cardinality(mail \cup held) \in Nat
  BY <1>5, FS_CardinalityType
<1>7. Cardinality((mail \cup held) \cup {v}) =
        IF v \in mail \cup held THEN Cardinality(mail \cup held)
                                ELSE Cardinality(mail \cup held) + 1
  BY <1>5, FS_AddElement
<1>8. /\ Past(Cardinality(held), app_share) \in Nat
      /\ Cardinality(held) <= Past(Cardinality(held), app_share) + app_share
  BY <1>2, ShareType DEF Past
<1>9. Cardinality((mail \cup held) \cup {v}) <= Cap + app_share
  BY <1>2, <1>3, <1>5, <1>6, <1>7, <1>8, ShareType, CapAssumption
<1> QED BY <1>4, <1>9

LEMMA AppAccepted ==
  ASSUME NEW mail \in SUBSET Service, NEW app \in SUBSET Service,
         NEW v \in Service, NEW own,
         ~CapRefusesApp(mail, app, v, own)
  PROVE  \/ v \in mail \cup app \cup own
         \/ Cardinality(mail \cup app \cup {v}) <= Cap + app_share
<1> SUFFICES ASSUME v \notin mail \cup app \cup own
             PROVE  Cardinality((mail \cup app) \cup {v}) <= Cap + app_share
    OBVIOUS
<1>1. IsFiniteSet(mail \cup app)
  BY FilterAssumption, FS_Subset, mail \cup app \in SUBSET Service
<1>2. Cardinality(mail \cup app) \in Nat
  BY <1>1, FS_CardinalityType
<1>3. Cardinality((mail \cup app) \cup {v}) = Cardinality(mail \cup app) + 1
  BY <1>1, FS_AddElement
<1>4. ~(Cardinality(mail \cup app) + 1 > Cap)
  BY DEF CapRefusesApp
<1> QED BY <1>2, <1>3, <1>4, ShareType, CapAssumption

-----------------------------------------------------------------------------
(* Everything polled but for subscription s.                               *)
Others(s) == ServicesOf(LiveMail \ {s}) \cup ServicesOf(LiveApp \ {s})

LEMMA PolledType ==
  ASSUME TypeOK
  PROVE  /\ Polled \in SUBSET Service
         /\ \A s : /\ ServicesOf(LiveMail \ {s}) \in SUBSET Service
                   /\ ServicesOf(LiveApp \ {s}) \in SUBSET Service
                   /\ Others(s) \in SUBSET Polled
         /\ \A s \in Sub : Own(s) \in SUBSET Polled
<1>1. \A s \in Sub : row[s] = "live" => filter[s].service \in Service
  BY DEF TypeOK, Filter
<1> QED
  BY <1>1 DEF Polled, MailServices, AppServices, ServicesOf, LiveMail, LiveApp,
              Others, Own, Sub

LEMMA PolledCount ==
  ASSUME NEW S \in SUBSET Service
  PROVE  IsFiniteSet(S) /\ Cardinality(S) \in Nat
BY FilterAssumption, FS_Subset, FS_CardinalityType

LEMMA SubsetCount ==
  ASSUME NEW S \in SUBSET Service, NEW T \in SUBSET S
  PROVE  Cardinality(T) <= Cardinality(S)
BY PolledCount, FS_Subset

(* A step that brings nobody to life and edits nobody alive polls no more. *)
LEMMA NobodyComes ==
  ASSUME \A t \in Sub : row'[t] = "live" => row[t] = "live" /\ filter'[t] = filter[t]
  PROVE  Polled' \subseteq Polled
BY DEF Polled, MailServices, AppServices, ServicesOf, LiveMail, LiveApp, Sub

(* One that changes subscription s alone polls at most what it then names. *)
LEMMA OneComes ==
  ASSUME NEW s \in Sub,
         \A t \in Sub \ {s} :
           row'[t] = "live" => row[t] = "live" /\ filter'[t] = filter[t]
  PROVE  Polled' \subseteq Others(s) \cup {filter'[s].service}
BY DEF Polled, MailServices, AppServices, ServicesOf, LiveMail, LiveApp, Sub, Others

-----------------------------------------------------------------------------
(* The rows keep their types: no live, expired or pending row is without a *)
(* filter, and no request in flight is judged on nothing.                  *)
THEOREM TypeInvariant == Spec => []TypeOK
<1>1. Init => TypeOK
  BY SMT DEF Init, TypeOK, Rows, Filter, NoFilter, NoRequest
<1>2. TypeOK /\ [Next]_vars => TypeOK'
  <2> SUFFICES ASSUME TypeOK, [Next]_vars PROVE TypeOK'
    OBVIOUS
  <2> USE DEF TypeOK, Rows, NoRequest, Done, Idle
  <2>1. ASSUME NEW s \in MailSub, NEW f \in Filter, Subscribe(s, f) \/ Manage(s, f)
        PROVE  TypeOK'
    BY <2>1 DEF Subscribe, Manage, Sub
  <2>2. ASSUME NEW s \in Sub, ReadForConfirm(s) \/ ReadForRenew(s)
        PROVE  TypeOK'
    <3>1. filter[s] \in Filter
      BY <2>2 DEF ReadForConfirm, ReadForRenew
    <3>2. /\ \E kind \in {"confirm", "renew"} :
               request' = [request EXCEPT ![s] = [kind |-> kind, filter |-> filter[s]]]
          /\ UNCHANGED <<row, filter, unproven, stale>>
      BY <2>2 DEF ReadForConfirm, ReadForRenew, Send
    <3> QED BY <3>1, <3>2
  <2>3. ASSUME NEW s \in MailSub, Confirm(s)
        PROVE  TypeOK'
    <3>1. /\ row' \in [Sub -> Rows]
          /\ \A t \in Sub : row'[t] # "none" => row[t] # "none"
      BY <2>3 DEF Confirm, Sub
    <3>2. /\ request' = [request EXCEPT ![s] = [kind |-> "none", filter |-> NoFilter]]
          /\ UNCHANGED <<filter, unproven>>
          /\ stale' \in Nat
      BY <2>3 DEF Confirm, CountStale
    <3> QED BY <3>1, <3>2
  <2>4. ASSUME NEW s \in Sub, RenewMail(s) \/ RenewApp(s)
        PROVE  TypeOK'
    <3>1. /\ row' \in [Sub -> Rows]
          /\ \A t \in Sub : row'[t] # "none" => row[t] # "none"
      BY <2>4 DEF RenewMail, RenewApp, RenewedRow
    <3>2. /\ Done(s) /\ CountStale(s)
          /\ UNCHANGED <<filter, unproven>>
      BY <2>4 DEF RenewMail, RenewApp
    <3>3. stale' \in Nat
      BY <3>2 DEF CountStale
    <3> QED BY <3>1, <3>2, <3>3
  <2>5. ASSUME NEW s \in AppSub, NEW f \in Filter,
               CreateSubscription(s, f) \/ UpdateSubscription(s, f)
        PROVE  TypeOK'
    BY <2>5 DEF CreateSubscription, UpdateSubscription, Sub
  <2>6. ASSUME NEW d \in Device, TokenChanges(d) \/ TokenVerified(d)
        PROVE  TypeOK'
    BY <2>6 DEF TokenChanges, TokenVerified
  <2>7. ASSUME NEW d \in Device, DeleteDevice(d)
        PROVE  TypeOK'
    BY <2>7 DEF DeleteDevice
  <2>8. ASSUME NEW s \in Sub, Refuse(s)
        PROVE  TypeOK'
    BY <2>8 DEF Refuse
  <2>9. ASSUME NEW s \in Sub, SoftDelete(s) \/ Expire(s)
        PROVE  TypeOK'
    BY <2>9 DEF SoftDelete, Expire
  <2>10. CASE UNCHANGED vars
    BY <2>10 DEF vars
  <2> QED
    BY <2>1, <2>2, <2>3, <2>4, <2>5, <2>6, <2>7, <2>8, <2>9, <2>10
       DEF Next, Website, App, Either, Sub
<1> QED BY <1>1, <1>2, PTL DEF Spec

-----------------------------------------------------------------------------
(* The bound on what is polled is inductive as it stands.  An accepted     *)
(* request leaves the services polled as they were, or within the cap and  *)
(* the share; one judged on an outdated filter adds one service and is     *)
(* counted in stale.                                                       *)
LEMMA NoGrowth ==
  ASSUME TypeOK, TypeOK', PolledBound, Polled' \subseteq Polled, stale' >= stale
  PROVE  PolledBound'
<1>1. Cardinality(Polled') <= Cardinality(Polled)
  BY PolledType, SubsetCount
<1>2. Cardinality(Polled) \in Nat /\ Cardinality(Polled') \in Nat
  <2>1. Polled' \in SUBSET Service
    BY PolledType
  <2> QED BY <2>1, PolledType, PolledCount
<1> QED
  BY <1>1, <1>2, ShareType, CapAssumption DEF PolledBound, TypeOK

LEMMA WithinCapAndShare ==
  ASSUME TypeOK, TypeOK', Cardinality(Polled') <= Cap + app_share
  PROVE  PolledBound'
<1>1. Cardinality(Polled') \in Nat
  <2>1. Polled' \in SUBSET Service
    <3>1. \A s \in Sub : row'[s] = "live" => filter'[s].service \in Service
      BY DEF TypeOK, Filter
    <3> QED
      BY <3>1 DEF Polled, MailServices, AppServices, ServicesOf, LiveMail, LiveApp, Sub
  <2> QED BY <2>1, PolledCount
<1> QED
  BY <1>1, ShareType, CapAssumption DEF PolledBound, TypeOK

LEMMA OneMore ==
  ASSUME TypeOK, TypeOK', PolledBound, NEW v,
         Polled' \subseteq Polled \cup {v}, stale' = stale + 1
  PROVE  PolledBound'
<1>1. IsFiniteSet(Polled) /\ Cardinality(Polled) \in Nat
  BY PolledType, PolledCount
<1>2. /\ IsFiniteSet(Polled \cup {v})
      /\ Cardinality(Polled \cup {v}) = IF v \in Polled THEN Cardinality(Polled)
                                                     ELSE Cardinality(Polled) + 1
  BY <1>1, FS_AddElement
<1>3. Cardinality(Polled') <= Cardinality(Polled \cup {v})
      /\ Cardinality(Polled') \in Nat
  BY <1>2, FS_Subset, FS_CardinalityType
<1> QED
  BY <1>1, <1>2, <1>3, ShareType, CapAssumption DEF PolledBound, TypeOK

(* An accepted request of subscription s, judged on the service it then    *)
(* names.                                                                  *)
LEMMA Accepted ==
  ASSUME TypeOK, TypeOK', PolledBound, stale' = stale, NEW s \in Sub,
         NEW f \in Filter, filter'[s].service = f.service,
         ~RefusedMail(s, f) \/ ~RefusedApp(s, f),
         \A t \in Sub \ {s} :
           row'[t] = "live" => row[t] = "live" /\ filter'[t] = filter[t]
  PROVE  PolledBound'
<1>1. f.service \in Service
  BY DEF Filter
<1>2. Polled' \subseteq Others(s) \cup {f.service}
  BY OneComes
<1>3. \/ f.service \in Others(s) \cup Own(s)
      \/ Cardinality(Others(s) \cup {f.service}) <= Cap + app_share
  BY <1>1, PolledType, MailAccepted, AppAccepted DEF RefusedMail, RefusedApp, Others
<1>4. CASE f.service \in Others(s) \cup Own(s)
  <2>1. Polled' \subseteq Polled
    BY <1>2, <1>4, PolledType
  <2> QED BY <2>1, NoGrowth DEF TypeOK
<1>5. CASE Cardinality(Others(s) \cup {f.service}) <= Cap + app_share
  <2>1. Others(s) \cup {f.service} \in SUBSET Service
    BY <1>1, PolledType
  <2>2. Cardinality(Polled') <= Cardinality(Others(s) \cup {f.service})
    BY <1>2, <2>1, SubsetCount
  <2>3. Cardinality(Polled') \in Nat
        /\ Cardinality(Others(s) \cup {f.service}) \in Nat
    BY <1>2, <2>1, PolledCount
  <2>4. Cardinality(Polled') <= Cap + app_share
    BY <1>5, <2>2, <2>3, ShareType, CapAssumption
  <2> QED BY <2>4, WithinCapAndShare
<1> QED BY <1>3, <1>4, <1>5

(* A confirmation or a renewal of subscription s.                          *)
LEMMA Revived ==
  ASSUME TypeOK, TypeOK', PolledBound, NEW s \in Sub,
         request[s].kind # "none",
         ~RefusedMail(s, request[s].filter) \/ ~RefusedApp(s, request[s].filter),
         \A t \in Sub \ {s} : row'[t] = row[t],
         row'[s] = "live" => row[s] \in {"live", "pending", "expired"},
         filter' = filter,
         CountStale(s)
  PROVE  PolledBound'
<1>1. CASE row[s] \notin {"pending", "expired"}
  <2>1. Polled' \subseteq Polled
    BY <1>1, NobodyComes
  <2>2. stale' = stale
    BY <1>1 DEF CountStale, Outdated
  <2> QED BY <2>1, <2>2, NoGrowth DEF TypeOK
<1>2. CASE row[s] \in {"pending", "expired"} /\ request[s].filter = filter[s]
  <2>1. stale' = stale
    BY <1>2 DEF CountStale, Outdated
  <2>2. request[s].filter \in Filter
    BY DEF TypeOK
  <2>3. filter'[s].service = request[s].filter.service
    BY <1>2
  <2> QED BY <2>1, <2>2, <2>3, Accepted
<1>3. CASE Outdated(s)
  <2>1. stale' = stale + 1
    BY <1>3 DEF CountStale
  <2>2. Polled' \subseteq Polled \cup {filter'[s].service}
    BY OneComes, PolledType
  <2> QED BY <2>1, <2>2, OneMore
<1> QED BY <1>1, <1>2, <1>3 DEF Outdated

(* However sign-ups, edits, confirmations, renewals, expiries and erasures *)
(* interleave, a city is polled for at most cap + cap // 2 services, and   *)
(* one more for each request accepted on an outdated filter.               *)
THEOREM PolledBoundHolds == Spec => []PolledBound
<1>1. Init => PolledBound
  <2> SUFFICES ASSUME Init PROVE PolledBound
    OBVIOUS
  <2>1. Polled = {}
    BY DEF Init, Polled, MailServices, AppServices, ServicesOf, LiveMail, LiveApp, Sub
  <2>2. Cardinality(Polled) = 0
    BY <2>1, FS_EmptySet
  <2> QED BY <2>2, ShareType, CapAssumption DEF Init, PolledBound
<1>2. TypeOK /\ TypeOK' /\ PolledBound /\ [Next]_vars => PolledBound'
  <2> SUFFICES ASSUME TypeOK, TypeOK', PolledBound, [Next]_vars PROVE PolledBound'
    OBVIOUS
  <2>0. stale >= stale
    BY DEF TypeOK
  <2>1. ASSUME NEW s \in MailSub, NEW f \in Filter, Subscribe(s, f)
        PROVE  PolledBound'
    <3>1. Polled' \subseteq Polled /\ stale' = stale
      <4>1. \A t \in Sub : row'[t] = "live" => row[t] = "live" /\ filter'[t] = filter[t]
        BY <2>1 DEF Subscribe, TypeOK, Sub
      <4> QED BY <4>1, <2>1, NobodyComes DEF Subscribe
    <3> QED BY <3>1, <2>0, NoGrowth
  <2>2. ASSUME NEW s \in MailSub, NEW f \in Filter, Manage(s, f)
        PROVE  PolledBound'
    <3>1. /\ s \in Sub /\ stale' = stale
          /\ filter'[s].service = f.service
          /\ ~RefusedMail(s, f)
          /\ \A t \in Sub \ {s} : row'[t] = row[t] /\ filter'[t] = filter[t]
      BY <2>2 DEF Manage, TypeOK, Sub
    <3> QED BY <3>1, Accepted
  <2>3. ASSUME NEW s \in AppSub, NEW f \in Filter,
               CreateSubscription(s, f) \/ UpdateSubscription(s, f)
        PROVE  PolledBound'
    <3>1. /\ s \in Sub /\ stale' = stale
          /\ filter'[s].service = f.service
          /\ \A t \in Sub \ {s} : row'[t] = row[t] /\ filter'[t] = filter[t]
      BY <2>3 DEF CreateSubscription, UpdateSubscription, TypeOK, Sub
    <3>2. ~RefusedApp(s, f)
      BY <2>3 DEF CreateSubscription, UpdateSubscription, ShareRefusal
    <3> QED BY <3>1, <3>2, Accepted
  <2>4. ASSUME NEW s \in MailSub, Confirm(s)
        PROVE  PolledBound'
    <3>1. /\ s \in Sub /\ request[s].kind # "none"
          /\ ~RefusedMail(s, request[s].filter)
          /\ filter' = filter /\ CountStale(s)
      BY <2>4 DEF Confirm, Sub
    <3>2. /\ \A t \in Sub \ {s} : row'[t] = row[t]
          /\ row'[s] = "live" => row[s] \in {"live", "pending"}
      BY <2>4 DEF Confirm, TypeOK, Sub
    <3> QED BY <3>1, <3>2, Revived
  <2>5. ASSUME NEW s \in Sub, RenewMail(s) \/ RenewApp(s)
        PROVE  PolledBound'
    <3>1. /\ request[s].kind # "none"
          /\ ~RefusedMail(s, request[s].filter) \/ ~RefusedApp(s, request[s].filter)
          /\ filter' = filter /\ CountStale(s) /\ row' = RenewedRow(s)
      BY <2>5 DEF RenewMail, RenewApp, ShareRefusal
    <3>2. /\ \A t \in Sub \ {s} : row'[t] = row[t]
          /\ row'[s] = "live" => row[s] \in {"live", "expired"}
      BY <3>1 DEF RenewedRow, TypeOK
    <3> QED BY <3>1, <3>2, Revived
  <2>6. ASSUME NEW d \in Device, DeleteDevice(d)
        PROVE  PolledBound'
    <3>1. Polled' \subseteq Polled /\ stale' = stale
      <4>1. \A t \in Sub : row'[t] = "live" => row[t] = "live" /\ filter'[t] = filter[t]
        BY <2>6 DEF DeleteDevice
      <4> QED BY <4>1, <2>6, NobodyComes DEF DeleteDevice
    <3> QED BY <3>1, <2>0, NoGrowth
  <2>7. ASSUME NEW s \in Sub, SoftDelete(s) \/ Expire(s)
        PROVE  PolledBound'
    <3>1. Polled' \subseteq Polled /\ stale' = stale
      <4>1. \A t \in Sub : row'[t] = "live" => row[t] = "live" /\ filter'[t] = filter[t]
        BY <2>7 DEF SoftDelete, Expire, TypeOK
      <4> QED BY <4>1, <2>7, NobodyComes DEF SoftDelete, Expire
    <3> QED BY <3>1, <2>0, NoGrowth
  <2>8. ASSUME UNCHANGED <<row, filter, stale>>
        PROVE  PolledBound'
    <3>1. Polled' \subseteq Polled
      BY <2>8, NobodyComes
    <3> QED BY <3>1, <2>8, <2>0, NoGrowth
  <2>9. ASSUME NEW s \in Sub, ReadForConfirm(s) \/ ReadForRenew(s) \/ Refuse(s)
        PROVE  UNCHANGED <<row, filter, stale>>
    BY <2>9 DEF ReadForConfirm, ReadForRenew, Send, Refuse
  <2>10. ASSUME NEW d \in Device, TokenChanges(d) \/ TokenVerified(d)
         PROVE  UNCHANGED <<row, filter, stale>>
    BY <2>10 DEF TokenChanges, TokenVerified
  <2>11. CASE UNCHANGED vars
    BY <2>8, <2>11 DEF vars
  <2> QED
    BY <2>1, <2>2, <2>3, <2>4, <2>5, <2>6, <2>7, <2>8, <2>9, <2>10, <2>11
       DEF Next, Website, App, Either, Sub
<1> QED BY <1>1, <1>2, TypeInvariant, PTL DEF Spec

-----------------------------------------------------------------------------
(* Plans are filters of the city, and those are finitely many.             *)
LEMMA FilterFinite == IsFiniteSet(Filter)
<1> DEFINE pair == [p \in Filter |-> <<p.service, p.locations>>]
<1>1. pair \in Injection(Filter, Service \X Offices)
  BY DEF Filter, Injection, IsInjective
<1>2. IsFiniteSet(Service \X Offices)
  BY FilterAssumption, FS_Product
<1> QED BY <1>1, <1>2, FS_Injection

(* build_plans asks for at most cap + cap // 2 polls (and one per outdated *)
(* acceptance): uncollapsed there are at most cap plans, collapsed there   *)
(* is one per service polled.                                              *)
THEOREM PlansBoundHolds == Spec => []PlansBound
<1>1. TypeOK /\ PolledBound => PlansBound
  <2> SUFFICES ASSUME TypeOK, PolledBound
               PROVE  PlansBound
    OBVIOUS
  <2>1. stale \in Nat /\ Cap + app_share \in Nat /\ Cap <= Cap + app_share + stale
    BY ShareType, CapAssumption DEF TypeOK
  <2>2. CASE Cardinality(Plans) <= Cap
    <3>1. Plans \in SUBSET Filter
      BY DEF Plans, Active, LiveMail, LiveApp, TypeOK, Filter, Sub
    <3>2. Cardinality(Plans) \in Nat
      BY <3>1, FilterFinite, FS_Subset, FS_CardinalityType
    <3>3. BuildPlans(Plans) = Plans
      BY <2>2 DEF BuildPlans
    <3> QED BY <2>1, <2>2, <3>2, <3>3, CapAssumption DEF PlansBound
  <2>3. CASE ~(Cardinality(Plans) <= Cap)
    <3> DEFINE watched == {filter[s].service : s \in Active}
               collapse == [v \in watched |-> [service |-> v, locations |-> All]]
               collapsed == BuildPlans(Plans)
    <3>1. watched \in SUBSET Polled
      BY DEF Polled, MailServices, AppServices, ServicesOf, Active
    <3>2. /\ IsFiniteSet(watched) /\ Cardinality(watched) \in Nat
          /\ Cardinality(Polled) \in Nat
          /\ Cardinality(watched) <= Cardinality(Polled)
      <4>1. Polled \in SUBSET Service
        BY PolledType
      <4> HIDE DEF watched
      <4> QED BY <3>1, <4>1, PolledCount, SubsetCount
    <3>3. collapsed = {[service |-> p.service, locations |-> All] : p \in Plans}
      BY <2>3 DEF BuildPlans
    <3>4. collapsed = {[service |-> v, locations |-> All] : v \in watched}
      <4>1. \A p \in Plans : \E v \in watched : p.service = v
        BY DEF Plans
      <4>2. ASSUME NEW v \in watched
            PROVE  \E p \in Plans : p.service = v
        <5>1. PICK s \in Active : v = filter[s].service
          OBVIOUS
        <5>2. [service |-> filter[s].service, locations |-> filter[s].locations]
                \in Plans
          BY <5>1 DEF Plans
        <5> QED BY <5>1, <5>2
      <4> HIDE DEF watched, collapsed
      <4> QED BY <3>3, <4>1, <4>2
    <3>5. collapse \in Surjection(watched, collapsed)
      <4> HIDE DEF watched, collapsed
      <4> QED BY <3>4 DEF Surjection
    <3>6. /\ Cardinality(collapsed) <= Cardinality(watched)
          /\ IsFiniteSet(collapsed) /\ Cardinality(collapsed) \in Nat
      <4> HIDE DEF watched, collapsed, collapse
      <4> QED BY <3>2, <3>5, FS_Surjection, FS_CardinalityType
    <3> HIDE DEF watched
    <3> QED
      BY <2>1, <3>2, <3>6, ShareType, CapAssumption DEF PolledBound, PlansBound
  <2> QED BY <2>2, <2>3
<1> QED BY <1>1, TypeInvariant, PolledBoundHolds, PTL

-----------------------------------------------------------------------------
(* Who holds a service: what an accepted app request leaves app-held.      *)
HeldByApps(mail, app) == Past(Cardinality(app \ mail), app_share)

LEMMA ExcessType ==
  ASSUME NEW mail \in SUBSET Service, NEW app \in SUBSET Service
  PROVE  /\ HeldByApps(mail, app) \in Nat
         /\ Cardinality(app \ mail) <= app_share => HeldByApps(mail, app) = 0
<1>1. app \ mail \in SUBSET Service
  OBVIOUS
<1> QED BY <1>1, PolledCount, ShareType DEF HeldByApps, Past

LEMMA ExcessIsMonotone ==
  ASSUME NEW mail \in SUBSET Service, NEW app \in SUBSET Service,
         NEW mail2 \in SUBSET Service, NEW app2 \in SUBSET Service,
         app2 \ mail2 \subseteq app \ mail
  PROVE  HeldByApps(mail2, app2) <= HeldByApps(mail, app)
<1> DEFINE before == app \ mail
           after == app2 \ mail2
<1>1. /\ before \in SUBSET Service /\ after \in SUBSET Service
      /\ after \in SUBSET before
  OBVIOUS
<1> HIDE DEF before, after
<1>2. /\ Cardinality(before) \in Nat /\ Cardinality(after) \in Nat
      /\ Cardinality(after) <= Cardinality(before)
  BY <1>1, PolledCount, SubsetCount
<1>3. Past(Cardinality(after), app_share) <= Past(Cardinality(before), app_share)
  BY <1>2, ShareType DEF Past
<1> QED BY <1>3 DEF HeldByApps, before, after

LEMMA ServicesType ==
  ASSUME TypeOK
  PROVE  MailServices \in SUBSET Service /\ AppServices \in SUBSET Service
<1>1. \A s \in Sub : row[s] = "live" => filter[s].service \in Service
  BY DEF TypeOK, Filter
<1> QED BY <1>1 DEF MailServices, AppServices, ServicesOf, LiveMail, LiveApp, Sub

(* An app request accepted on a service no mail subscriber watches leaves  *)
(* the app-held services within the share.                                 *)
LEMMA AcceptedIsWithinTheShare ==
  ASSUME TypeOK, NEW s \in AppSub, NEW f \in Filter, ~RefusedApp(s, f),
         f.service \notin MailServices,
         NEW app \in SUBSET (ServicesOf(LiveApp \ {s}) \cup {f.service})
  PROVE  Cardinality(app \ MailServices) <= app_share
<1> DEFINE others == ServicesOf(LiveApp \ {s})
           after == (others \ MailServices) \cup {f.service}
<1>1. f.service \in Service /\ s \in Sub
  BY DEF Filter, Sub
<1>2. LiveMail \ {s} = LiveMail
  BY RowAssumption DEF LiveMail
<1>3. Cardinality(after) <= app_share
  <2>1. ~(Cardinality(after) > app_share)
    BY <1>2 DEF RefusedApp, CapRefusesApp, MailServices
  <2>2. after \in SUBSET Service
    BY <1>1, PolledType
  <2> QED BY <2>1, <2>2, PolledCount, ShareType
<1>4. /\ after \in SUBSET Service
      /\ app \ MailServices \in SUBSET after
  BY <1>1, PolledType
<1> HIDE DEF after
<1> QED
  <2>1. /\ Cardinality(app \ MailServices) <= Cardinality(after)
        /\ Cardinality(after) \in Nat
    BY <1>4, SubsetCount, PolledCount
  <2>2. app \ MailServices \in SUBSET Service
    BY <1>4
  <2>3. Cardinality(app \ MailServices) \in Nat
    BY <2>2, PolledCount
  <2> QED BY <1>3, <2>1, <2>3, ShareType

(* While app-held services are past the share, no app row is renewed on an *)
(* app-held service: the renewal is judged with the service it asks for.   *)
THEOREM NoRenewalPastTheShareHolds == Spec => NoRenewalPastTheShare
<1>1. ASSUME TypeOK, NEW s \in AppSub, RenewApp(s), Excess > 0,
             row[s] # "none", request[s].filter = filter[s]
      PROVE  filter[s].service \in MailServices
  <2> SUFFICES ASSUME filter[s].service \notin MailServices PROVE FALSE
    OBVIOUS
  <2>1. /\ filter[s] \in Filter
        /\ ~RefusedApp(s, filter[s])
    BY <1>1 DEF RenewApp, ShareRefusal, TypeOK, Sub
  <2>2. AppServices \in SUBSET (ServicesOf(LiveApp \ {s}) \cup {filter[s].service})
    BY DEF AppServices, ServicesOf
  <2>3. Cardinality(AppServices \ MailServices) <= app_share
    BY <1>1, <2>1, <2>2, AcceptedIsWithinTheShare
  <2>4. HeldByApps(MailServices, AppServices) = 0
    BY <1>1, <2>3, ServicesType, ExcessType
  <2> QED BY <1>1, <2>4 DEF Excess, AppHeld, HeldByApps
<1>2. TypeOK /\ [Next]_vars =>
        [\A s \in AppSub :
           /\ RenewApp(s) /\ Excess > 0
           /\ row[s] # "none" /\ request[s].filter = filter[s]
           => filter[s].service \in MailServices]_vars
  BY <1>1
<1> QED BY <1>2, TypeInvariant, PTL DEF Spec, NoRenewalPastTheShare

(* A step that brings no app row to life, edits none, and takes no service *)
(* from the mail subscribers leaves no more app-held.                      *)
LEMMA NoAppComes ==
  ASSUME TypeOK, TypeOK', MailServices \subseteq MailServices',
         \A t \in AppSub : row'[t] = "live" => row[t] = "live" /\ filter'[t] = filter[t]
  PROVE  Excess' <= Excess
<1>1. AppServices' \ MailServices' \subseteq AppServices \ MailServices
  BY DEF AppServices, ServicesOf, LiveApp
<1>2. MailServices' \in SUBSET Service /\ AppServices' \in SUBSET Service
  <2>1. \A s \in Sub : row'[s] = "live" => filter'[s].service \in Service
    BY DEF TypeOK, Filter
  <2> QED BY <2>1 DEF MailServices, AppServices, ServicesOf, LiveMail, LiveApp, Sub
<1>3. HeldByApps(MailServices', AppServices') <= HeldByApps(MailServices, AppServices)
  BY <1>1, <1>2, ServicesType, ExcessIsMonotone
<1> QED BY <1>3 DEF Excess, AppHeld, HeldByApps

(* An accepted request of app row s for f, the mail rows as they were.     *)
LEMMA AppComes ==
  ASSUME TypeOK, TypeOK', NEW s \in AppSub, NEW f \in Filter, ~RefusedApp(s, f),
         filter'[s].service = f.service, MailServices' = MailServices,
         \A t \in AppSub \ {s} :
           row'[t] = "live" => row[t] = "live" /\ filter'[t] = filter[t]
  PROVE  Excess' <= Excess
<1>1. AppServices' \in SUBSET (ServicesOf(LiveApp \ {s}) \cup {f.service})
  BY DEF AppServices, ServicesOf, LiveApp
<1>2. /\ MailServices \in SUBSET Service /\ AppServices \in SUBSET Service
      /\ f.service \in Service
      /\ ServicesOf(LiveApp \ {s}) \in SUBSET Service
      /\ AppServices' \in SUBSET Service
  BY <1>1, ServicesType, PolledType DEF Filter
<1>3. CASE f.service \in MailServices
  <2>1. AppServices' \ MailServices \subseteq AppServices \ MailServices
    BY <1>1, <1>3 DEF AppServices, ServicesOf
  <2>2. HeldByApps(MailServices, AppServices') <= HeldByApps(MailServices, AppServices)
    BY <1>2, <2>1, ExcessIsMonotone
  <2> QED BY <2>2 DEF Excess, AppHeld, HeldByApps
<1>4. CASE f.service \notin MailServices
  <2>1. Cardinality(AppServices' \ MailServices) <= app_share
    BY <1>1, <1>4, AcceptedIsWithinTheShare
  <2>2. /\ HeldByApps(MailServices, AppServices') = 0
        /\ HeldByApps(MailServices, AppServices) \in Nat
    BY <1>2, <2>1, ExcessType
  <2> QED BY <2>2 DEF Excess, AppHeld, HeldByApps
<1> QED BY <1>3, <1>4

(* App-held services past the share grow only when a service loses its     *)
(* last mail subscriber, or by an acceptance on an outdated filter.        *)
THEOREM ExcessOnlyByConversionHolds == Spec => ExcessOnlyByConversion
<1>1. ASSUME TypeOK, TypeOK', [Next]_vars,
             MailServices \subseteq MailServices', ~(stale' > stale)
      PROVE  Excess' <= Excess
  <2>1. ASSUME NEW s \in MailSub, NEW f \in Filter, Subscribe(s, f) \/ Manage(s, f)
        PROVE  Excess' <= Excess
    <3>1. \A t \in AppSub : row'[t] = row[t] /\ filter'[t] = filter[t]
      BY <1>1, <2>1, RowAssumption DEF Subscribe, Manage, TypeOK, Sub
    <3> QED BY <1>1, <3>1, NoAppComes
  <2>2. ASSUME NEW s \in MailSub, Confirm(s) \/ RenewMail(s)
        PROVE  Excess' <= Excess
    <3>1. \A t \in AppSub : row'[t] = row[t] /\ filter'[t] = filter[t]
      BY <1>1, <2>2, RowAssumption DEF Confirm, RenewMail, RenewedRow, TypeOK, Sub
    <3> QED BY <1>1, <3>1, NoAppComes
  <2>3. ASSUME NEW s \in AppSub, NEW f \in Filter,
               CreateSubscription(s, f) \/ UpdateSubscription(s, f)
        PROVE  Excess' <= Excess
    <3>1. /\ filter'[s].service = f.service /\ ~RefusedApp(s, f)
          /\ \A t \in Sub \ {s} : row'[t] = row[t] /\ filter'[t] = filter[t]
      BY <2>3, <1>1 DEF CreateSubscription, UpdateSubscription, ShareRefusal, TypeOK, Sub
    <3>2. MailServices' = MailServices
      BY <3>1, RowAssumption DEF MailServices, ServicesOf, LiveMail, Sub
    <3>3. AppSub \ {s} \subseteq Sub \ {s}
      BY DEF Sub
    <3> QED BY <1>1, <3>1, <3>2, <3>3, AppComes
  <2>4. ASSUME NEW s \in AppSub, RenewApp(s)
        PROVE  Excess' <= Excess
    <3>1. /\ filter' = filter /\ row' = RenewedRow(s) /\ CountStale(s)
          /\ ~RefusedApp(s, request[s].filter) /\ request[s].kind # "none"
      BY <2>4 DEF RenewApp, ShareRefusal
    <3>2. \A t \in Sub \ {s} : row'[t] = row[t]
      BY <3>1, <1>1 DEF RenewedRow, TypeOK
    <3>3. CASE row[s] # "expired"
      <4>1. row'[s] = row[s]
        BY <3>1, <3>3, <1>1 DEF RenewedRow, TypeOK, Sub
      <4>2. \A t \in AppSub : row'[t] = row[t] /\ filter'[t] = filter[t]
        BY <3>1, <3>2, <4>1 DEF Sub
      <4> QED BY <1>1, <4>2, NoAppComes
    <3>4. CASE row[s] = "expired"
      <4>1. request[s].filter = filter[s]
        BY <1>1, <3>1, <3>4 DEF CountStale, Outdated, TypeOK
      <4>2. filter[s] \in Filter
        BY <1>1, <3>4 DEF TypeOK, Sub
      <4>3. MailServices' = MailServices
        BY <3>1, <3>2, RowAssumption DEF MailServices, ServicesOf, LiveMail, Sub
      <4>4. /\ filter'[s].service = filter[s].service
            /\ \A t \in AppSub \ {s} : row'[t] = row[t] /\ filter'[t] = filter[t]
        BY <3>1, <3>2 DEF Sub
      <4> QED BY <1>1, <3>1, <4>1, <4>2, <4>3, <4>4, AppComes
    <3> QED BY <3>3, <3>4
  <2>5. ASSUME NEW d \in Device, DeleteDevice(d)
        PROVE  Excess' <= Excess
    <3>1. \A t \in AppSub :
            row'[t] = "live" => row[t] = "live" /\ filter'[t] = filter[t]
      BY <2>5, <1>1 DEF DeleteDevice, TypeOK, Sub
    <3> QED BY <1>1, <3>1, NoAppComes
  <2>6. ASSUME NEW s \in Sub, SoftDelete(s) \/ Expire(s)
        PROVE  Excess' <= Excess
    <3>1. \A t \in AppSub :
            row'[t] = "live" => row[t] = "live" /\ filter'[t] = filter[t]
      BY <2>6, <1>1 DEF SoftDelete, Expire, TypeOK, Sub
    <3> QED BY <1>1, <3>1, NoAppComes
  <2>7. ASSUME UNCHANGED <<row, filter>>
        PROVE  Excess' <= Excess
    BY <2>7, <1>1, NoAppComes
  <2>8. ASSUME NEW s \in Sub, ReadForConfirm(s) \/ ReadForRenew(s) \/ Refuse(s)
        PROVE  UNCHANGED <<row, filter>>
    BY <2>8 DEF ReadForConfirm, ReadForRenew, Send, Refuse
  <2>9. ASSUME NEW d \in Device, TokenChanges(d) \/ TokenVerified(d)
        PROVE  UNCHANGED <<row, filter>>
    BY <2>9 DEF TokenChanges, TokenVerified
  <2>10. CASE UNCHANGED vars
    BY <2>7, <2>10 DEF vars
  <2>11. \A s \in Sub : RenewMail(s) => s \in MailSub
    BY DEF RenewMail
  <2> QED
    BY <1>1, <2>1, <2>2, <2>3, <2>4, <2>5, <2>6, <2>7, <2>8, <2>9, <2>10, <2>11
       DEF Next, Website, App, Either, Sub
<1>2. TypeOK /\ TypeOK' => Excess \in Int /\ Excess' \in Int
  <2>1. TypeOK => Excess \in Nat
    BY ServicesType, ExcessType DEF Excess, AppHeld, HeldByApps
  <2>2. TypeOK' => Excess' \in Nat
    <3> SUFFICES ASSUME TypeOK' PROVE Excess' \in Nat
      OBVIOUS
    <3>1. \A s \in Sub : row'[s] = "live" => filter'[s].service \in Service
      BY DEF TypeOK, Filter
    <3>2. MailServices' \in SUBSET Service /\ AppServices' \in SUBSET Service
      BY <3>1 DEF MailServices, AppServices, ServicesOf, LiveMail, LiveApp, Sub
    <3>3. HeldByApps(MailServices', AppServices') \in Nat
      BY <3>2, ExcessType
    <3> QED BY <3>3 DEF Excess, AppHeld, HeldByApps
  <2> QED BY <2>1, <2>2
<1>3. TypeOK /\ TypeOK' /\ [Next]_vars =>
        [Excess' > Excess => \/ MailServices \ MailServices' # {}
                             \/ stale' > stale]_vars
  BY <1>1, <1>2
<1> QED BY <1>3, TypeInvariant, PTL DEF Spec, ExcessOnlyByConversion

-----------------------------------------------------------------------------
(* What device d holds in the city, renewable rows included.               *)
HeldBy(d) == {t \in AppSub : Owner[t] = d /\ row[t] # "none"}

LEMMA HeldType ==
  ASSUME TypeOK
  PROVE  /\ IsFiniteSet(LiveApp) /\ Cardinality(LiveApp) \in Nat
         /\ \A S \in SUBSET AppSub : IsFiniteSet(S) /\ Cardinality(S) \in Nat
         /\ \A d : /\ HeldBy(d) \in SUBSET AppSub
                   /\ ServicesOf(HeldBy(d)) \in SUBSET Service
         /\ \A d, s : /\ Held(d, s) \in SUBSET AppSub
                      /\ ServicesOf(Held(d, s)) \in SUBSET Service
<1>1. \A S \in SUBSET AppSub : IsFiniteSet(S) /\ Cardinality(S) \in Nat
  BY RowAssumption, FS_Subset, FS_CardinalityType
<1>2. LiveApp \in SUBSET AppSub
  BY DEF LiveApp
<1>3. \A s \in AppSub : row[s] # "none" => filter[s].service \in Service
  BY DEF TypeOK, Filter, Sub
<1> QED BY <1>1, <1>2, <1>3 DEF HeldBy, Held, ServicesOf

(* The rows of a device and their services, and the live rows of the city: *)
(* none of them grows by a step that brings no app row and edits none.     *)
LEMMA CeilingsKept ==
  ASSUME TypeOK, TypeOK', AppCeilings,
         \A t \in AppSub : row'[t] # "none" => row[t] # "none" /\ filter'[t] = filter[t],
         \A t \in AppSub : row'[t] = "live" => row[t] = "live"
  PROVE  AppCeilings'
<1>1. ASSUME NEW d \in Device
      PROVE  /\ Cardinality(HeldBy(d)') <= DeviceSubs
             /\ Cardinality(ServicesOf(HeldBy(d))') <= DeviceServices
  <2>1. HeldBy(d)' \in SUBSET HeldBy(d)
    BY DEF HeldBy
  <2>2. ServicesOf(HeldBy(d))' \in SUBSET ServicesOf(HeldBy(d))
    BY DEF HeldBy, ServicesOf
  <2>3. /\ Cardinality(HeldBy(d)) <= DeviceSubs
        /\ Cardinality(ServicesOf(HeldBy(d))) <= DeviceServices
    BY DEF AppCeilings, HeldBy
  <2>4. /\ Cardinality(HeldBy(d)') <= Cardinality(HeldBy(d))
        /\ Cardinality(HeldBy(d)') \in Nat /\ Cardinality(HeldBy(d)) \in Nat
    BY <2>1, HeldType, FS_Subset
  <2>5. /\ Cardinality(ServicesOf(HeldBy(d))') <= Cardinality(ServicesOf(HeldBy(d)))
        /\ Cardinality(ServicesOf(HeldBy(d))') \in Nat
        /\ Cardinality(ServicesOf(HeldBy(d))) \in Nat
    <3>1. ServicesOf(HeldBy(d)) \in SUBSET Service
      BY HeldType
    <3>2. ServicesOf(HeldBy(d))' \in SUBSET Service
      BY <2>2, <3>1
    <3> QED BY <2>2, <3>1, <3>2, SubsetCount, PolledCount
  <2> QED BY <2>3, <2>4, <2>5, CapAssumption
<1>2. CitySubs > 0 => Cardinality(LiveApp') <= CitySubs
  <2>1. LiveApp' \in SUBSET LiveApp
    BY DEF LiveApp
  <2>2. /\ Cardinality(LiveApp') <= Cardinality(LiveApp)
        /\ Cardinality(LiveApp') \in Nat /\ Cardinality(LiveApp) \in Nat
    BY <2>1, HeldType, FS_Subset, FS_CardinalityType
  <2> QED BY <2>2, CapAssumption DEF AppCeilings
<1> QED BY <1>1, <1>2 DEF AppCeilings, HeldBy

(* A sign-up, an edit or a renewal of app row s, accepted for f: only s    *)
(* comes, and what its device then holds was judged.                       *)
LEMMA CeilingsJudged ==
  ASSUME TypeOK, TypeOK', AppCeilings, NEW s \in AppSub, NEW f \in Filter,
         NEW addsOne \in BOOLEAN, ~ShareRefusal(s, f, addsOne),
         \A t \in AppSub \ {s} : row'[t] = row[t] /\ filter'[t] = filter[t],
         filter'[s] = f \/ (filter' = filter /\ row[s] # "none"),
         row[s] = "none" => addsOne,
         row'[s] = "live" => addsOne \/ row[s] = "live"
  PROVE  AppCeilings'
<1>1. ASSUME NEW d \in Device
      PROVE  /\ Cardinality(HeldBy(d)') <= DeviceSubs
             /\ Cardinality(ServicesOf(HeldBy(d))') <= DeviceServices
  <2>0. /\ Cardinality(HeldBy(d)) <= DeviceSubs
        /\ Cardinality(ServicesOf(HeldBy(d))) <= DeviceServices
    BY DEF AppCeilings, HeldBy
  <2>1. /\ Cardinality(HeldBy(d)) \in Nat /\ Cardinality(HeldBy(d)') \in Nat
        /\ Cardinality(ServicesOf(HeldBy(d))) \in Nat
    <3>1. HeldBy(d)' \in SUBSET AppSub
      BY DEF HeldBy
    <3> QED BY <3>1, HeldType, PolledCount
  <2>2. ServicesOf(HeldBy(d))' \in SUBSET Service
    <3>1. \A t \in AppSub : row'[t] # "none" => filter'[t].service \in Service
      BY DEF TypeOK, Filter, Sub
    <3> QED BY <3>1 DEF HeldBy, ServicesOf
  <2>3. Cardinality(ServicesOf(HeldBy(d))') \in Nat
    BY <2>2, PolledCount
  <2>4. Cardinality(HeldBy(d)') <= DeviceSubs
    <3>1. CASE row[s] # "none" \/ d # Owner[s]
      <4>1. HeldBy(d)' \in SUBSET HeldBy(d)
        BY <3>1 DEF HeldBy
      <4>2. Cardinality(HeldBy(d)') <= Cardinality(HeldBy(d))
        BY <4>1, HeldType, FS_Subset
      <4> QED BY <2>0, <2>1, <4>2, CapAssumption
    <3>2. CASE row[s] = "none" /\ d = Owner[s]
      <4>1. HeldBy(d)' \in SUBSET (Held(d, s) \cup {s})
        BY DEF HeldBy, Held
      <4>2. ~(Cardinality(Held(d, s)) >= DeviceSubs)
        BY <3>2 DEF ShareRefusal
      <4>3. /\ IsFiniteSet(Held(d, s)) /\ Cardinality(Held(d, s)) \in Nat
            /\ s \notin Held(d, s)
        BY HeldType DEF Held
      <4>4. /\ IsFiniteSet(Held(d, s) \cup {s})
            /\ Cardinality(Held(d, s) \cup {s}) = Cardinality(Held(d, s)) + 1
        BY <4>3, FS_AddElement
      <4>5. Cardinality(HeldBy(d)') <= Cardinality(Held(d, s) \cup {s})
        BY <4>1, <4>4, FS_Subset
      <4> QED BY <2>1, <4>2, <4>3, <4>4, <4>5, CapAssumption
    <3> QED BY <3>1, <3>2
  <2>5. Cardinality(ServicesOf(HeldBy(d))') <= DeviceServices
    <3>1. CASE (filter' = filter /\ row[s] # "none") \/ d # Owner[s]
      <4>1. ServicesOf(HeldBy(d))' \in SUBSET ServicesOf(HeldBy(d))
        BY <3>1 DEF HeldBy, ServicesOf
      <4>2. ServicesOf(HeldBy(d)) \in SUBSET Service
        BY HeldType
      <4>3. Cardinality(ServicesOf(HeldBy(d))') <= Cardinality(ServicesOf(HeldBy(d)))
        BY <4>1, <4>2, SubsetCount
      <4> QED BY <2>0, <2>1, <2>3, <4>3, CapAssumption
    <3>2. CASE filter'[s] = f /\ d = Owner[s]
      <4> DEFINE judged == ServicesOf(Held(d, s)) \cup {f.service}
      <4>1. ServicesOf(HeldBy(d))' \in SUBSET judged
        BY <3>2 DEF HeldBy, Held, ServicesOf
      <4>2. judged \in SUBSET Service
        BY HeldType DEF Filter
      <4>3. ~(Cardinality(judged) > DeviceServices)
        BY <3>2 DEF ShareRefusal
      <4> HIDE DEF judged
      <4>4. Cardinality(ServicesOf(HeldBy(d))') <= Cardinality(judged)
        BY <4>1, <4>2, SubsetCount
      <4>5. Cardinality(judged) \in Nat
        BY <4>2, PolledCount
      <4> QED BY <2>3, <4>3, <4>4, <4>5, CapAssumption
    <3> QED BY <3>1, <3>2
  <2> QED BY <2>4, <2>5
<1>2. ASSUME CitySubs > 0
      PROVE  Cardinality(LiveApp') <= CitySubs
  <2>1. Cardinality(LiveApp') \in Nat
    <3>1. LiveApp' \in SUBSET AppSub
      BY DEF LiveApp
    <3> QED BY <3>1, HeldType
  <2>2. CASE ~addsOne
    <3>1. LiveApp' \in SUBSET LiveApp
      BY <2>2 DEF LiveApp
    <3>2. Cardinality(LiveApp') <= Cardinality(LiveApp)
      BY <3>1, HeldType, FS_Subset
    <3> QED BY <1>2, <2>1, <3>2, HeldType, CapAssumption DEF AppCeilings
  <2>3. CASE addsOne
    <3> DEFINE others == LiveApp \ {s}
    <3>1. LiveApp' \in SUBSET (others \cup {s})
      BY DEF LiveApp
    <3>2. ~(Cardinality(others) >= CitySubs)
      BY <1>2, <2>3 DEF ShareRefusal
    <3>3. IsFiniteSet(others) /\ Cardinality(others) \in Nat /\ s \notin others
      BY HeldType DEF LiveApp
    <3> HIDE DEF others
    <3>4. /\ IsFiniteSet(others \cup {s})
          /\ Cardinality(others \cup {s}) = Cardinality(others) + 1
      BY <3>3, FS_AddElement
    <3>5. Cardinality(LiveApp') <= Cardinality(others \cup {s})
      BY <3>1, <3>4, FS_Subset
    <3> QED BY <2>1, <3>2, <3>3, <3>4, <3>5, CapAssumption
  <2> QED BY <2>2, <2>3
<1> QED BY <1>1, <1>2 DEF AppCeilings, HeldBy

(* No device holds more rows or services than its footprint, and the live  *)
(* app rows stay within the city's ceiling: every request that brings or   *)
(* moves a row is judged with the renewable rows counted.                  *)
THEOREM AppCeilingsHolds == Spec => []AppCeilings
<1>1. Init => AppCeilings
  <2> SUFFICES ASSUME Init PROVE AppCeilings
    OBVIOUS
  <2>1. /\ LiveApp = {}
        /\ \A d : HeldBy(d) = {} /\ ServicesOf(HeldBy(d)) = {}
    BY DEF Init, LiveApp, HeldBy, ServicesOf, Sub
  <2>2. Cardinality({}) = 0
    BY FS_EmptySet
  <2> QED BY <2>1, <2>2, CapAssumption DEF AppCeilings, HeldBy
<1>2. TypeOK /\ TypeOK' /\ AppCeilings /\ [Next]_vars => AppCeilings'
  <2> SUFFICES ASSUME TypeOK, TypeOK', AppCeilings, [Next]_vars PROVE AppCeilings'
    OBVIOUS
  <2>1. ASSUME NEW s \in MailSub, NEW f \in Filter, Subscribe(s, f) \/ Manage(s, f)
        PROVE  AppCeilings'
    <3>1. \A t \in AppSub : row'[t] = row[t] /\ filter'[t] = filter[t]
      BY <2>1, RowAssumption DEF Subscribe, Manage, TypeOK, Sub
    <3> QED BY <3>1, CeilingsKept
  <2>2. ASSUME NEW s \in MailSub, Confirm(s) \/ RenewMail(s)
        PROVE  AppCeilings'
    <3>1. \A t \in AppSub : row'[t] = row[t] /\ filter'[t] = filter[t]
      BY <2>2, RowAssumption DEF Confirm, RenewMail, RenewedRow, TypeOK, Sub
    <3> QED BY <3>1, CeilingsKept
  <2>3. ASSUME NEW s \in AppSub, NEW f \in Filter, CreateSubscription(s, f)
        PROVE  AppCeilings'
    <3>1. /\ ~ShareRefusal(s, f, TRUE) /\ filter'[s] = f
          /\ \A t \in AppSub \ {s} : row'[t] = row[t] /\ filter'[t] = filter[t]
      BY <2>3 DEF CreateSubscription, TypeOK, Sub
    <3> QED BY <3>1, CeilingsJudged
  <2>4. ASSUME NEW s \in AppSub, NEW f \in Filter, UpdateSubscription(s, f)
        PROVE  AppCeilings'
    <3>1. /\ ~ShareRefusal(s, f, FALSE) /\ filter'[s] = f
          /\ row' = row /\ row[s] # "none"
          /\ \A t \in AppSub \ {s} : row'[t] = row[t] /\ filter'[t] = filter[t]
      BY <2>4 DEF UpdateSubscription, TypeOK, Sub
    <3> QED BY <3>1, CeilingsJudged
  <2>5. ASSUME NEW s \in AppSub, RenewApp(s)
        PROVE  AppCeilings'
    <3>1. /\ filter' = filter /\ row' = RenewedRow(s) /\ request[s].kind # "none"
          /\ ~ShareRefusal(s, request[s].filter, TRUE)
      BY <2>5 DEF RenewApp
    <3>2. \A t \in AppSub \ {s} : row'[t] = row[t] /\ filter'[t] = filter[t]
      BY <3>1 DEF RenewedRow, TypeOK, Sub
    <3>3. request[s].filter \in Filter
      BY <3>1 DEF TypeOK, Sub
    <3>4. CASE row[s] = "none"
      <4>1. row'[s] = "none"
        BY <3>1, <3>4 DEF RenewedRow, TypeOK, Sub
      <4> QED BY <3>1, <3>2, <3>4, <4>1, CeilingsKept
    <3>5. CASE row[s] # "none"
      BY <3>1, <3>2, <3>3, <3>5, CeilingsJudged
    <3> QED BY <3>4, <3>5
  <2>6. ASSUME NEW d \in Device, DeleteDevice(d)
        PROVE  AppCeilings'
    <3>1. \A t \in AppSub :
            row'[t] # "none" => row'[t] = row[t] /\ filter'[t] = filter[t]
      <4>1. \A t \in AppSub : IF Owner[t] = d THEN row'[t] = "none"
                              ELSE row'[t] = row[t] /\ filter'[t] = filter[t]
        BY <2>6 DEF DeleteDevice, Sub
      <4> QED BY <4>1
    <3> QED BY <3>1, CeilingsKept
  <2>7. ASSUME NEW s \in Sub, SoftDelete(s) \/ Expire(s)
        PROVE  AppCeilings'
    <3>1. \A t \in AppSub :
            /\ row'[t] # "none" => row[t] # "none" /\ filter'[t] = filter[t]
            /\ row'[t] = "live" => row[t] = "live"
      BY <2>7 DEF SoftDelete, Expire, TypeOK, Sub
    <3> QED BY <3>1, CeilingsKept
  <2>8. ASSUME UNCHANGED <<row, filter>>
        PROVE  AppCeilings'
    BY <2>8, CeilingsKept
  <2>9. ASSUME NEW s \in Sub, ReadForConfirm(s) \/ ReadForRenew(s) \/ Refuse(s)
        PROVE  UNCHANGED <<row, filter>>
    BY <2>9 DEF ReadForConfirm, ReadForRenew, Send, Refuse
  <2>10. ASSUME NEW d \in Device, TokenChanges(d) \/ TokenVerified(d)
         PROVE  UNCHANGED <<row, filter>>
    BY <2>10 DEF TokenChanges, TokenVerified
  <2>11. CASE UNCHANGED vars
    BY <2>8, <2>11 DEF vars
  <2> QED
    BY <2>1, <2>2, <2>3, <2>4, <2>5, <2>6, <2>7, <2>8, <2>9, <2>10, <2>11
       DEF Next, Website, App, Either, Sub
<1> QED BY <1>1, <1>2, TypeInvariant, PTL DEF Spec
=============================================================================
