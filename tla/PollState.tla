------------------------------ MODULE PollState ------------------------------
(***************************************************************************)
(* The state of PollCycle and what must hold of it: the slots a cycle      *)
(* polled (app/cycle.py), the marks of the parser canary (housekeeping),   *)
(* the snapshot (app/snapshots.py) and the record of what was told under   *)
(* a day key (app/repo.py, seen_slots).                                    *)
(***************************************************************************)
EXTENDS Integers, FiniteSets

CONSTANTS Times,      \* HH:MM of the day's slots
          Horizon,    \* MAX_SLOTS_PER_CYCLE
          Threshold,  \* PARSER_CANARY_THRESHOLD_HOURS, in ticks
          Unknown,    \* a seen row without a best_time
          Never

ASSUME TimesAssumption == Times \subseteq Nat /\ IsFiniteSet(Times)
ASSUME BoundAssumption == Horizon \in Nat \ {0} /\ Threshold \in Nat \ {0}
ASSUME NeverAssumption == {Never, Unknown} \cap Nat = {} /\ Never # Unknown

VARIABLES
  site,      \* the slots the city shows
  watched,   \* the subscription is active, and the city polled
  cycle,     \* where the cycle is, and what it fetched
  zero,      \* ticks since zero_match_since, or Never
  failing,   \* ticks since failing_since, or Never
  alerted,   \* an alert for the city, for its vendor, went out of late
  snapshot,  \* slot_snapshots: the times, or Never
  best,      \* seen_slots under the day key: best_time, Unknown, or Never
  heard,     \* history: times told, delivered and recorded under the day key
  good,      \* history: ticks since every poll of a cycle that was counted
             \* got through, or nobody watched
  shown      \* history: ticks since one found slots, or nobody watched

pollVars == <<site, watched, cycle, zero, failing, alerted, snapshot, best, heard,
              good, shown>>

(* The soonest slots are looked at at all.                                 *)
Reach == {t \in cycle.slots : Cardinality({u \in cycle.slots : u < t}) < Horizon}

-----------------------------------------------------------------------------
(* Under day keys a digest names news only: no time that is on record, or  *)
(* later than one that is; and in the reach of the cycle it names all of   *)
(* it, so an earlier slot that a cancellation opened is never withheld.    *)
DigestIsTheNews ==
  cycle.at = "staged" /\ ~cycle.held /\ best # Unknown =>
    cycle.digest = {t \in Reach : \A u \in heard : t < u}

(* The record of a day never forgets the best time that was told.           *)
RecordIsTheBest ==
  best \in Times => best \in heard /\ \A u \in heard : best <= u

(* What the overview shows is all that the site had when it was polled:    *)
(* a cycle in which a poll failed leaves the snapshot alone.               *)
SnapshotIsWhole ==
  [][snapshot' \in {snapshot, Never, cycle.truth}]_pollVars

(* The canary is right: when it says a city fails, a poll of it has failed *)
(* in every cycle that was counted for the threshold, and when it says a   *)
(* vendor is empty, none of them has found a slot; and somebody watched    *)
(* the city at every run of the canary in that time.                       *)
AlarmsAreEarned ==
  [][/\ "city" \in alerted' \ alerted => watched /\ good = Threshold
     /\ "vendor" \in alerted' \ alerted => watched /\ shown = Threshold]_pollVars
=============================================================================
