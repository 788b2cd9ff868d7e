------------------------------ MODULE PlanCap -------------------------------
(***************************************************************************)
(* A city's plan cap: what the two front doors accept (app/web.py for the  *)
(* website, app/api.py for the app), judged by app/planning.py on database *)
(* rows, and what the poller then polls (build_plans).                     *)
(*                                                                         *)
(* Every accepting handler judges and writes inside one immediate          *)
(* transaction, so it is one action here.  Confirming and renewing read    *)
(* the row, its filter included, before that transaction begins: they are  *)
(* two actions, and anything may happen between them.                      *)
(*                                                                         *)
(* One city: the caps of different cities do not interact.  A subscription *)
(* names exactly one service (signup.build_filter) and a set of offices.   *)
(***************************************************************************)
EXTENDS Naturals, FiniteSets

CONSTANTS MailSub,      \* rows a website sign-up may take
          AppSub,       \* rows an app sign-up may take
          Device,       \* push devices
          Owner,        \* the device an app row belongs to
          Service,      \* the city's services
          Offices,      \* values of a filter's locations, "all" among them
          All,          \* the value "all"
          Cap,          \* cap_for_city
          DeviceSubs,   \* MAX_SUBSCRIPTIONS_PER_DEVICE_PER_CITY
          DeviceServices, \* MAX_SERVICES_PER_DEVICE_PER_CITY
          CitySubs,     \* MAX_APP_SUBSCRIPTIONS_PER_CITY
          MaxRequests,  \* bound: confirm and renew requests in flight
          MaxStale      \* bound: acceptances on an outdated filter

Sub == MailSub \cup AppSub
Filter == [service: Service, locations: Offices]
NoFilter == [service |-> All, locations |-> All]

ASSUME RowAssumption == /\ MailSub \cap AppSub = {}
                        /\ Owner \in [AppSub -> Device]
                        /\ IsFiniteSet(AppSub)
ASSUME FilterAssumption == /\ IsFiniteSet(Service) /\ IsFiniteSet(Offices)
                           /\ All \in Offices /\ All \notin Service
ASSUME CapAssumption == /\ Cap \in Nat /\ DeviceSubs \in Nat
                        /\ DeviceServices \in Nat /\ CitySubs \in Nat
                        /\ MaxRequests \in Nat /\ MaxStale \in Nat

VARIABLES
  row,      \* "none", "pending" (unconfirmed), "lapsed" (unconfirmed and its
            \* term over), "live", "expired" (renewable); deleted is "none"
  filter,   \* the row's filters_json
  request,  \* an accepting request in flight: what it read of its row
  unproven, \* devices whose token is not verified
  stale     \* history: requests accepted on a filter the row had no more

vars == <<row, filter, request, unproven, stale>>

Rows == {"none", "pending", "lapsed", "live", "expired"}
NoRequest == [kind |-> "none", filter |-> NoFilter]

-----------------------------------------------------------------------------
(* repo.city_services and its neighbours.                                  *)

LiveMail == {s \in MailSub : row[s] = "live"}
LiveApp  == {s \in AppSub : row[s] = "live"}
ServicesOf(S) == {filter[s].service : s \in S}

MailServices == ServicesOf(LiveMail)
AppServices  == ServicesOf(LiveApp)
Polled       == MailServices \cup AppServices
AppHeld      == AppServices \ MailServices

Own(s) == IF row[s] = "live" THEN {filter[s].service} ELSE {}

app_share == Cap \div 2
Past(n, limit) == IF n > limit THEN n - limit ELSE 0
Excess == Past(Cardinality(AppHeld), app_share)

(* Mutant: the app-held services past the share are not counted.           *)
CapRefusesMailNoExcess(mail, app, v, own) ==
  v \notin mail \cup app \cup own /\ Cardinality(mail) + 1 > Cap

(* planning.cap_refuses: `mail` and `app` are the services live mail and   *)
(* app subscriptions watch, v the wanted one, own what the subscription    *)
(* being edited or renewed has polled.                                     *)
CapRefusesMail(mail, app, v, own) ==
  /\ v \notin mail \cup app \cup own
  /\ Cardinality(mail) + Past(Cardinality(app \ mail), app_share) + 1 > Cap

(* Mutant: joining an app-held service is not judged, only adding one.     *)
CapRefusesAppNewOnly(mail, app, v, own) ==
  /\ v \notin mail \cup app \cup own
  /\ \/ Cardinality((app \ mail) \cup {v}) > app_share
     \/ Cardinality(mail \cup app) + 1 > Cap

(* Mutant: the share is compared before the wanted service is counted.     *)
CapRefusesAppOneLate(mail, app, v, own) ==
  \/ v \notin mail /\ Cardinality(app \ mail) > app_share
  \/ v \notin mail \cup app \cup own /\ Cardinality(mail \cup app) + 1 > Cap

CapRefusesApp(mail, app, v, own) ==
  \/ v \notin mail /\ Cardinality((app \ mail) \cup {v}) > app_share
  \/ v \notin mail \cup app \cup own /\ Cardinality(mail \cup app) + 1 > Cap

(* planning.refused_by_plan_cap for subscription s, itself left out.       *)
RefusedMail(s, f) == CapRefusesMail(ServicesOf(LiveMail \ {s}),
                                    ServicesOf(LiveApp \ {s}), f.service, Own(s))
RefusedApp(s, f) == CapRefusesApp(ServicesOf(LiveMail \ {s}),
                                  ServicesOf(LiveApp \ {s}), f.service, Own(s))

(* What device d holds here, s left out; expired rows count.               *)
Held(d, s) == {t \in AppSub \ {s} : Owner[t] = d /\ row[t] # "none"}

(* Mutant: the device's footprint counts live rows, not the renewable ones.*)
ShareRefusalLiveOnly(s, f, addsOne) ==
  LET held == Held(Owner[s], s) \cap LiveApp
  IN \/ addsOne /\ Cardinality(held) >= DeviceSubs
     \/ Cardinality(ServicesOf(held) \cup {f.service}) > DeviceServices
     \/ addsOne /\ CitySubs > 0 /\ Cardinality(LiveApp \ {s}) >= CitySubs
     \/ RefusedApp(s, f)

(* api._share_refusal: the device's footprint, the city's ceiling, the cap.*)
ShareRefusal(s, f, addsOne) ==
  LET held == Held(Owner[s], s)
  IN \/ addsOne /\ Cardinality(held) >= DeviceSubs
     \/ Cardinality(ServicesOf(held) \cup {f.service}) > DeviceServices
     \/ addsOne /\ CitySubs > 0 /\ Cardinality(LiveApp \ {s}) >= CitySubs
     \/ RefusedApp(s, f)

Verified(s) == Owner[s] \notin unproven
Idle(s) == request[s] = NoRequest

-----------------------------------------------------------------------------
(* The website.                                                            *)

(* POST /subscribe: judged like a subscription, stored unconfirmed.        *)
Subscribe(s, f) ==
  /\ s \in MailSub /\ row[s] = "none" /\ Idle(s)
  /\ ~RefusedMail(s, f)
  /\ row' = [row EXCEPT ![s] = "pending"]
  /\ filter' = [filter EXCEPT ![s] = f]
  /\ UNCHANGED <<request, unproven, stale>>

Send(s, kind) ==
  /\ Idle(s)
  /\ Cardinality({t \in Sub : ~Idle(t)}) < MaxRequests
  /\ request' = [request EXCEPT ![s] = [kind |-> kind, filter |-> filter[s]]]
  /\ UNCHANGED <<row, filter, unproven, stale>>

(* GET /confirm, up to its transaction: the row was read, and is pending.  *)
ReadForConfirm(s) ==
  /\ s \in MailSub /\ row[s] = "pending"
  /\ Send(s, "confirm")

(* GET /renew, POST /subscriptions/<id>/renew: expired rows renew too.     *)
ReadForRenew(s) ==
  /\ row[s] \in {"live", "expired"}
  /\ s \in AppSub => Verified(s)
  /\ Send(s, "renew")

Done(s) == request' = [request EXCEPT ![s] = NoRequest]

(* The request brings the row to life on a filter the row no longer has.   *)
Outdated(s) == row[s] \in {"pending", "expired"} /\ request[s].filter # filter[s]

CountStale(s) ==
  /\ Outdated(s) => stale < MaxStale
  /\ stale' = IF Outdated(s) THEN stale + 1 ELSE stale

(* The transaction of /confirm.                                            *)
Confirm(s) ==
  /\ request[s].kind = "confirm"
  /\ ~RefusedMail(s, request[s].filter)
  /\ row' = [row EXCEPT ![s] = IF @ = "pending" THEN "live"
                                ELSE IF @ = "lapsed" THEN "expired" ELSE @]
  /\ Done(s) /\ CountStale(s)
  /\ UNCHANGED <<filter, unproven>>

RenewedRow(s) == [row EXCEPT ![s] = IF @ = "expired" THEN "live" ELSE @]

(* The transaction of /renew: a new term, unless the row is deleted.       *)
RenewMail(s) ==
  /\ s \in MailSub /\ request[s].kind = "renew"
  /\ ~RefusedMail(s, request[s].filter)
  /\ row' = RenewedRow(s)
  /\ Done(s) /\ CountStale(s)
  /\ UNCHANGED <<filter, unproven>>

(* Refused: the page says the waiting list is full.                        *)
Refuse(s) ==
  /\ \/ s \in MailSub /\ request[s].kind # "none" /\ RefusedMail(s, request[s].filter)
     \/ /\ s \in AppSub /\ request[s].kind = "renew"
        /\ ShareRefusal(s, request[s].filter, TRUE)
  /\ Done(s)
  /\ UNCHANGED <<row, filter, unproven, stale>>

(* POST /manage: a new filter, on an expired row too.                      *)
Manage(s, f) ==
  /\ s \in MailSub /\ row[s] \in {"live", "expired"}
  /\ ~RefusedMail(s, f)
  /\ filter' = [filter EXCEPT ![s] = f]
  /\ UNCHANGED <<row, request, unproven, stale>>

-----------------------------------------------------------------------------
(* The app.                                                                *)

(* POST /subscriptions: live at once.                                      *)
CreateSubscription(s, f) ==
  /\ s \in AppSub /\ row[s] = "none" /\ Idle(s) /\ Verified(s)
  /\ ~ShareRefusal(s, f, TRUE)
  /\ row' = [row EXCEPT ![s] = "live"]
  /\ filter' = [filter EXCEPT ![s] = f]
  /\ UNCHANGED <<request, unproven, stale>>

(* PUT /subscriptions/<id>.                                                *)
UpdateSubscription(s, f) ==
  /\ s \in AppSub /\ row[s] \in {"live", "expired"} /\ Verified(s)
  /\ ~ShareRefusal(s, f, FALSE)
  /\ filter' = [filter EXCEPT ![s] = f]
  /\ UNCHANGED <<row, request, unproven, stale>>

RenewApp(s) ==
  /\ s \in AppSub /\ request[s].kind = "renew"
  /\ ~ShareRefusal(s, request[s].filter, TRUE)
  /\ row' = RenewedRow(s)
  /\ Done(s) /\ CountStale(s)
  /\ UNCHANGED <<filter, unproven>>

(* PUT /device with a new token, and the code posted to /device/verify.    *)
TokenChanges(d) ==
  /\ unproven' = unproven \cup {d}
  /\ UNCHANGED <<row, filter, request, stale>>

TokenVerified(d) ==
  /\ unproven' = unproven \ {d}
  /\ UNCHANGED <<row, filter, request, stale>>

(* DELETE /device: every row of the device goes with it.                   *)
DeleteDevice(d) ==
  LET gone == {s \in AppSub : Owner[s] = d}
  IN /\ row' = [s \in Sub |-> IF s \in gone THEN "none" ELSE row[s]]
     /\ filter' = [s \in Sub |-> IF s \in gone THEN NoFilter ELSE filter[s]]
     /\ UNCHANGED <<request, unproven, stale>>

-----------------------------------------------------------------------------
(* Both: unsubscribing, deletion after the grace time, and the term's end. *)

SoftDelete(s) ==
  /\ row[s] # "none"
  /\ row' = [row EXCEPT ![s] = "none"]
  /\ filter' = [filter EXCEPT ![s] = NoFilter]
  /\ UNCHANGED <<request, unproven, stale>>

Expire(s) ==
  /\ row[s] \in {"pending", "live"}
  /\ row' = [row EXCEPT ![s] = IF @ = "live" THEN "expired" ELSE "lapsed"]
  /\ UNCHANGED <<filter, request, unproven, stale>>

-----------------------------------------------------------------------------
(* The poller: active_subscriptions and build_plans.                       *)

Active == LiveMail \cup {s \in LiveApp : Verified(s)}
Plans == {[service |-> filter[s].service, locations |-> filter[s].locations]
            : s \in Active}

(* Mutant: past the cap nothing collapses.                                 *)
BuildPlansAsIs(plans) == plans

(* Past the cap a service's plans collapse into one "all" plan.            *)
BuildPlans(plans) ==
  IF Cardinality(plans) <= Cap THEN plans
  ELSE {[service |-> p.service, locations |-> All] : p \in plans}

-----------------------------------------------------------------------------
Init ==
  /\ row = [s \in Sub |-> "none"]
  /\ filter = [s \in Sub |-> NoFilter]
  /\ request = [s \in Sub |-> NoRequest]
  /\ unproven = {}
  /\ stale = 0

Website == \E s \in MailSub :
  \/ \E f \in Filter : Subscribe(s, f) \/ Manage(s, f)
  \/ ReadForConfirm(s) \/ Confirm(s) \/ RenewMail(s)

App == \/ \E s \in AppSub :
            \/ \E f \in Filter : CreateSubscription(s, f) \/ UpdateSubscription(s, f)
            \/ RenewApp(s)
       \/ \E d \in Device : TokenChanges(d) \/ TokenVerified(d) \/ DeleteDevice(d)

Either == \E s \in Sub : ReadForRenew(s) \/ Refuse(s) \/ SoftDelete(s) \/ Expire(s)

Next == Website \/ App \/ Either

Spec == Init /\ [][Next]_vars

-----------------------------------------------------------------------------
TypeOK ==
  /\ row \in [Sub -> Rows]
  /\ filter \in [Sub -> Filter \cup {NoFilter}]
  /\ \A s \in Sub : row[s] # "none" => filter[s] \in Filter
  /\ request \in [Sub -> [kind: {"none", "confirm", "renew"},
                          filter: Filter \cup {NoFilter}]]
  /\ \A s \in Sub : request[s].kind # "none" => request[s].filter \in Filter
  /\ unproven \subseteq Device
  /\ stale \in Nat

(* What cap_refuses says of itself: a city is never polled for more than   *)
(* cap + cap // 2 services.                                                *)
NeverPastCapAndShare == Cardinality(Polled) <= Cap + app_share

(* The same, but for one service per request that was accepted on a filter *)
(* read before its transaction and edited since.                           *)
PolledBound == Cardinality(Polled) <= Cap + app_share + stale

(* The poller makes no more polls a cycle than that bound, whatever sets   *)
(* of offices the subscriptions name.                                      *)
PlansBound == Cardinality(BuildPlans(Plans)) <= Cap + app_share + stale

(* App-held services past the share come from conversion alone: they grow  *)
(* only when a service loses its last mail subscriber, or by an outdated   *)
(* filter.                                                                 *)
ExcessOnlyByConversion ==
  [][Excess' > Excess => \/ MailServices \ MailServices' # {}
                         \/ stale' > stale]_vars

(* The excess drains: while app-held services are past the share, no app   *)
(* row gets a new term on an app-held service it still watches.            *)
NoRenewalPastTheShare ==
  [][\A s \in AppSub :
       /\ RenewApp(s) /\ Excess > 0
       /\ row[s] # "none" /\ request[s].filter = filter[s]
       => filter[s].service \in MailServices]_vars

(* No device holds more rows or services in the city than its footprint,   *)
(* and the live app rows stay within the city's ceiling.                   *)
AppCeilings ==
  /\ \A d \in Device :
       LET held == {t \in AppSub : Owner[t] = d /\ row[t] # "none"}
       IN /\ Cardinality(held) <= DeviceSubs
          /\ Cardinality(ServicesOf(held)) <= DeviceServices
  /\ CitySubs > 0 => Cardinality(LiveApp) <= CitySubs
=============================================================================
