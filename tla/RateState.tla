----------------------------- MODULE RateState ------------------------------
(***************************************************************************)
(* The state of RateLimit and what must hold of it: the events the limits  *)
(* of app/ratelimit.py count, and the workers of the web server between    *)
(* the step that reads a count and the step that adds to it.               *)
(***************************************************************************)
EXTENDS Naturals, FiniteSets

CONSTANTS Worker,     \* processes of the web server, one request each
          Network,    \* client networks: an IPv4 address, an IPv6 /64
          Area,       \* IPv6 /48s
          AreaOf,     \* the /48 of a network, Nothing for IPv4
          Nothing,
          Limit,      \* token requests in a window: of a network, of a /48
          TokenLimit, \* unverified tokens in an hour: of a network, of a /48
          FailLimit,  \* failed integrity checks in a window: of a network, of a /48
          DayLimit,   \* sign-ups of the address in a day
          Window,     \* ticks of _TOKEN_REQUEST_WINDOW and _INTEGRITY_FAIL_WINDOW
          Hour,       \* ticks of _UNVERIFIED_WINDOW
          Day,        \* ticks of the day the sign-ups are counted over
          Token       \* bound: recorded new tokens at a time

Bucket == Network \cup Area

ASSUME NetworkAssumption ==
  /\ IsFiniteSet(Worker) /\ Worker # {} /\ IsFiniteSet(Token)
  /\ IsFiniteSet(Network) /\ IsFiniteSet(Area) /\ Network \cap Area = {}
  /\ Nothing \notin Bucket /\ AreaOf \in [Network -> Area \cup {Nothing}]
ASSUME LimitAssumption ==
  /\ Limit \in [Bucket -> Nat \ {0}] /\ TokenLimit \in [Bucket -> Nat \ {0}]
  /\ FailLimit \in [Bucket -> Nat \ {0}] /\ DayLimit \in Nat \ {0}
  /\ Window \in Nat \ {0} /\ Hour \in Nat \ {0} /\ Day \in Nat \ {0}

VARIABLES
  req,     \* the req and req48 events of a bucket, by age
  newdev,  \* the newdev events, one for each recorded token
  fails,   \* the intfail and intfail48 events of a bucket that count, by age
  rows,    \* the address's subscription rows of the day, by age
  worker,  \* the request a worker is at
  served,  \* history: the requests let in for a bucket, by age
  told     \* history: a refused network, with what is left of its retry_after

-----------------------------------------------------------------------------
(* What the limits count.                                                  *)

\* The events of a bag of ages that are younger than a limit's window, one by one.
Younger(bag, window) == UNION {{a} \X (1..bag[a]) : a \in 0..(window - 1)}

Count(bag, window) == Cardinality(Younger(bag, window))

\* The buckets a client's network is counted in (_token_gate: the /64 or IPv4, and the /48).
BucketsOf(n) == {n} \cup ({AreaOf[n]} \ {Nothing})

\* A bucket with no room for one more request.
Full(b) == Count(req[b], Window) >= Limit[b]

\* The tokens recorded in a bucket within the hour.
Recent(b) == {t \in Token : /\ newdev[t] # Nothing
                            /\ newdev[t].age < Hour
                            /\ b \in BucketsOf(newdev[t].net)}

-----------------------------------------------------------------------------
(* Every bucket holds exactly the requests of its window that were let in, *)
(* and no more than its limit: two workers never both take the last place, *)
(* a request that one bucket refuses uses up no place of another, and      *)
(* neither the prune nor the gate's own sweep gives a place away early.    *)
(* db_rate_hit_all, prune_rate_events and RATE_EVENT_LIFETIMES.            *)
PlacesAreServed ==
  \A b \in Bucket :
    /\ \A a \in 0..(Window - 1) : req[b][a] = served[b][a]
    /\ Count(served[b], Window) <= Limit[b]

(* A client that waited out its retry_after while nobody who shares a      *)
(* bucket with it was let in finds room in every one of them.  _token_gate *)
(* and db_rate_hit_all.                                                    *)
RetryAfterSuffices ==
  (told # Nothing /\ told.left = 0) => \A b \in BucketsOf(told.net) : ~Full(b)

(* The tokens of an hour whose push went out at once and which nobody has  *)
(* verified are held to the limit of their network and of its /48, but for *)
(* what the other workers had already let pass; deleting devices buys no   *)
(* more of them.  _token_gate, unverified_devices and record_new_device.   *)
ImmediateBound ==
  \A b \in Bucket :
    Cardinality({t \in Recent(b) : newdev[t].now})
      <= TokenLimit[b] + Cardinality(Worker) - 1

(* A limit that is read in one step and filled in another is passed by at  *)
(* most one for each further worker, however the requests interleave: the  *)
(* sign-ups of one address in a day (email_rate_limit_ok, web.subscribe),  *)
(* and the failed integrity checks of a network and of its /48 in a window *)
(* (rate_wait, rate_record), each of which spends a decode of the quota.   *)
CheckedThenFilled ==
  /\ Count(rows, Day) <= DayLimit + Cardinality(Worker) - 1
  /\ \A b \in Bucket :
       Count(fails[b], Window) <= FailLimit[b] + Cardinality(Worker) - 1
=============================================================================
