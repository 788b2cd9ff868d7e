----------------------------- MODULE RateLimit ------------------------------
(***************************************************************************)
(* The limits that hold across the web workers (app/ratelimit.py): the     *)
(* gate in front of every request for a token or a verification push       *)
(* (api._token_gate, db_rate_hit_all), the count of a network's tokens     *)
(* that never verified (unverified_devices, record_new_device), the prune  *)
(* of the events, the failed integrity checks of a network (rate_wait,     *)
(* rate_record, api._integrity_refusal), and the sign-ups of one mail      *)
(* address in a day (email_rate_limit_ok and web.subscribe).               *)
(*                                                                         *)
(* Time passes in ticks, and an event is known by its age: it counts while *)
(* its age is below its window.  Ages past the window are one age.         *)
(***************************************************************************)
EXTENDS RateState, FiniteSetsExt

vars == <<req, newdev, fails, rows, worker, served, told>>

(* A new token's event: the network it came from, whether its device has   *)
(* verified, waits (retired included) or is deleted, and (history) whether *)
(* its push went out at once and the device has not verified since.        *)
NewToken == [net: Network, age: 0..Hour, device: {"waits", "verified", "gone"}, now: BOOLEAN]
Asked(n, d) == [at |-> "gated", net |-> n, defer |-> d]
Holds(w) == worker[w].at \in {"gated", "checking"}
Idle == [at |-> "idle"]
SigningUp == [at |-> "signing"]
Request == {Idle, SigningUp} \cup [at: {"gated", "checking"}, net: Network, defer: BOOLEAN]
Watch == [net: Network, left: 0..Window]

Init ==
  /\ req = [b \in Bucket |-> [a \in 0..Window |-> 0]]
  /\ newdev = [t \in Token |-> Nothing]
  /\ fails = [b \in Bucket |-> [a \in 0..(Window - 1) |-> 0]]
  /\ rows = [a \in 0..(Day - 1) |-> 0]
  /\ worker = [w \in Worker |-> Idle]
  /\ served = [b \in Bucket |-> [a \in 0..(Window - 1) |-> 0]]
  /\ told = Nothing

-----------------------------------------------------------------------------
(* What the handlers make of the counts.                                   *)

\* The age of a bucket's oldest request that counts.
Oldest(b) == Max({a \in 0..(Window - 1) : req[b][a] > 0})

\* The bucket that is free first.
WaitShortest(n) == Min({Window - Oldest(b) : b \in {c \in BucketsOf(n) : Full(c)}})

\* retry_after: the longest wait among the full buckets.
Wait(n) == Max({Window - Oldest(b) : b \in {c \in BucketsOf(n) : Full(c)}})

\* An inner join, which forgets a deleted device.
UnverifiedHere(b) == {t \in Recent(b) : newdev[t].device = "waits"}

\* unverified_devices: the ones not verified, a deleted device's included.
Unverified(b) == {t \in Recent(b) : newdev[t].device # "verified"}

\* _token_gate: the push of a network over its count is left to the sweep.
Deferred(n) == \E b \in BucketsOf(n) : Cardinality(Unverified(b)) >= TokenLimit[b]

\* rate_wait on each bucket: nothing is recorded.
MayCheck(n) == \A b \in BucketsOf(n) : Count(fails[b], Window) < FailLimit[b]

\* The limit taken as the number of the last refused one.
EmailOkInclusive == Count(rows, Day) <= DayLimit

\* email_rate_limit_ok.
EmailOk == Count(rows, Day) < DayLimit

-----------------------------------------------------------------------------
(* The gate: db_rate_hit_all, in one transaction under the write lock.     *)

\* The events of a bucket past the window go.
Swept(bag) == [bag EXCEPT ![Window] = 0]

\* db_rate_hit on each bucket in turn: one that has room keeps the event.
PlacesOneByOne(n) == {b \in BucketsOf(n) : ~Full(b)}

\* The buckets a request is recorded in: all of them, or none when one is full.
PlacesOf(n) == IF \E b \in BucketsOf(n) : Full(b) THEN {} ELSE BucketsOf(n)

HitAll(n) ==
  req' = [b \in Bucket |->
            IF b \notin BucketsOf(n) THEN req[b]
            ELSE [Swept(req[b]) EXCEPT ![0] = @ + IF b \in PlacesOf(n) THEN 1 ELSE 0]]

\* The request is let in. The count of unverified tokens is read in the next
\* statement; nothing the gate wrote bears on it.
Admit(w, n) ==
  /\ worker[w] = Idle
  /\ ~\E b \in BucketsOf(n) : Full(b)
  /\ HitAll(n)
  /\ worker' = [worker EXCEPT ![w] = Asked(n, Deferred(n))]
  /\ served' = [b \in Bucket |-> IF b \in BucketsOf(n)
                                 THEN [served[b] EXCEPT ![0] = @ + 1] ELSE served[b]]
  /\ told' = IF told # Nothing /\ BucketsOf(told.net) \cap BucketsOf(n) # {} THEN Nothing ELSE told
  /\ UNCHANGED <<newdev, fails, rows>>

\* 429 with a retry_after.
Refuse(w, n) ==
  /\ worker[w] = Idle
  /\ \E b \in BucketsOf(n) : Full(b)
  /\ HitAll(n)
  /\ told' = [net |-> n, left |-> Wait(n)]
  /\ UNCHANGED <<newdev, fails, rows, worker, served>>

\* The rest of a request that records no token: a known one, a resend, a body,
\* an integrity verdict or a token in use that refuses it; or a sign-up that
\* the form or the plan cap refuses.
Leave(w) ==
  /\ worker[w] # Idle
  /\ worker' = [worker EXCEPT ![w] = Idle]
  /\ UNCHANGED <<req, newdev, fails, rows, served, told>>

\* _integrity_refusal: the network has room for a failure, and Google is asked.
CheckIntegrity(w) ==
  /\ worker[w].at = "gated" /\ MayCheck(worker[w].net)
  /\ worker' = [worker EXCEPT ![w].at = "checking"]
  /\ UNCHANGED <<req, newdev, fails, rows, served, told>>

\* The verdict is no: it counts in every bucket, and the request ends.
FailIntegrity(w) ==
  /\ worker[w].at = "checking"
  /\ fails' = [b \in Bucket |-> IF b \in BucketsOf(worker[w].net)
                                 THEN [fails[b] EXCEPT ![0] = @ + 1] ELSE fails[b]]
  /\ worker' = [worker EXCEPT ![w] = Idle]
  /\ UNCHANGED <<req, newdev, rows, served, told>>

\* register, device_update: the new token is recorded for each bucket with its
\* device, and the buckets' events past the hour go; then _push_code.
RecordNewDevice(w, t) ==
  LET n == worker[w].net
      kept == [u \in Token |->
                 IF newdev[u] # Nothing /\ newdev[u].age >= Hour
                    /\ BucketsOf(newdev[u].net) \subseteq BucketsOf(n)
                 THEN Nothing ELSE newdev[u]]
  IN /\ Holds(w)
     /\ kept[t] = Nothing
     /\ newdev' = [kept EXCEPT ![t] =
          [net |-> n, age |-> 0, device |-> "waits", now |-> ~worker[w].defer]]
     /\ worker' = [worker EXCEPT ![w] = Idle]
     /\ UNCHANGED <<req, fails, rows, served, told>>

-----------------------------------------------------------------------------
(* The devices, the poller, and the clock.                                 *)

Young(t) == newdev[t] # Nothing /\ newdev[t].age < Hour

\* The code comes back: verified_at is set.
Verify(t) ==
  /\ Young(t) /\ newdev[t].device = "waits"
  /\ newdev' = [newdev EXCEPT ![t].device = "verified", ![t].now = FALSE]
  /\ UNCHANGED <<req, fails, rows, worker, served, told>>

\* Retired (verified_at is emptied) or deleted by its owner.
Lose(t, fate) ==
  /\ Young(t) /\ newdev[t].device \in {"waits", "verified"} /\ newdev[t].device # fate
  /\ newdev' = [newdev EXCEPT ![t].device = fate]
  /\ UNCHANGED <<req, fails, rows, worker, served, told>>

\* A window of the gate raised without its lifetime.
LifetimeBehind == [req |-> Window - 1, newdev |-> Hour]

\* RATE_EVENT_LIFETIMES: how long an event can matter.
Lifetime == [req |-> Window, newdev |-> Hour]

\* prune_rate_events, every cycle of the poller.
Prune ==
  /\ req' = [b \in Bucket |->
               [a \in 0..Window |-> IF a >= Lifetime.req THEN 0 ELSE req[b][a]]]
  /\ newdev' = [t \in Token |-> IF newdev[t] # Nothing /\ newdev[t].age >= Lifetime.newdev
                                THEN Nothing ELSE newdev[t]]
  /\ UNCHANGED <<fails, rows, worker, served, told>>

\* A sign-up asks whether its address has room.
AskEmail(w) ==
  /\ worker[w] = Idle /\ EmailOk
  /\ worker' = [worker EXCEPT ![w] = SigningUp]
  /\ UNCHANGED <<req, newdev, fails, rows, served, told>>

\* insert_pending, in a transaction of its own after the form is read.
Insert(w) ==
  /\ worker[w] = SigningUp
  /\ rows' = [rows EXCEPT ![0] = @ + 1]
  /\ worker' = [worker EXCEPT ![w] = Idle]
  /\ UNCHANGED <<req, newdev, fails, served, told>>

\* A tick: every event is older. A token past the hour keeps nothing to tell.
Older(bag, last) ==
  [a \in 0..last |-> IF a = 0 THEN 0 ELSE bag[a - 1]]
Tick ==
  /\ req' = [b \in Bucket |->
               [Older(req[b], Window) EXCEPT ![Window] = @ + req[b][Window]]]
  /\ newdev' = [t \in Token |->
       IF newdev[t] = Nothing THEN Nothing
       ELSE IF newdev[t].age + 1 >= Hour
            THEN [net |-> newdev[t].net, age |-> Hour, device |-> "gone", now |-> FALSE]
            ELSE [newdev[t] EXCEPT !.age = @ + 1]]
  /\ fails' = [b \in Bucket |-> Older(fails[b], Window - 1)]
  /\ rows' = Older(rows, Day - 1)
  /\ served' = [b \in Bucket |-> Older(served[b], Window - 1)]
  /\ told' = IF told = Nothing \/ told.left = 0 THEN told
             ELSE [told EXCEPT !.left = @ - 1]
  /\ UNCHANGED worker

Next ==
  \/ \E w \in Worker :
       \/ \E n \in Network : Admit(w, n) \/ Refuse(w, n)
       \/ \E t \in Token : RecordNewDevice(w, t)
       \/ CheckIntegrity(w) \/ FailIntegrity(w)
       \/ Leave(w) \/ AskEmail(w) \/ Insert(w)
  \/ \E t \in Token : Verify(t) \/ (\E fate \in {"waits", "gone"} : Lose(t, fate))
  \/ Prune \/ Tick

Spec == Init /\ [][Next]_vars

-----------------------------------------------------------------------------
TypeOK ==
  /\ req \in [Bucket -> [0..Window -> Nat]]
  /\ newdev \in [Token -> NewToken \cup {Nothing}]
  /\ fails \in [Bucket -> [0..(Window - 1) -> Nat]]
  /\ rows \in [0..(Day - 1) -> Nat]
  /\ worker \in [Worker -> Request]
  /\ served \in [Bucket -> [0..(Window - 1) -> Nat]]
  /\ told \in Watch \cup {Nothing}
=============================================================================
