------------------------------ MODULE PollCycle ------------------------------
(***************************************************************************)
(* What a cycle makes of the slots it polled (app/cycle.py): the state of  *)
(* the city that the parser canary reads (housekeeping), the snapshot the  *)
(* app's overview shows (app/snapshots.py), and, on a tenant with day      *)
(* keys, what is news to a subscriber (app/repo.py, seen_slots).  A poll   *)
(* that failed must not be read as an empty one by any of the three.       *)
(*                                                                         *)
(* One city with one watched service, several plans that cover it, one     *)
(* office and day, one subscription.  The slots of that day are their      *)
(* times.  Cadence, caps and the delivery itself are DigestDelivery's: a   *)
(* digest may be held back, and its record may be lost.                    *)
(***************************************************************************)
EXTENDS PollState

cityVars == <<zero, failing, alerted, good, shown>>
seenVars == <<best, heard>>

Age == 0..Threshold
Passed(age) == IF age \in 0..(Threshold - 1) THEN age + 1 ELSE age

(* at: the next part of the cycle; slots: what the polls brought; failed:  *)
(* one of them raised; truth (history): what the site had; digest: the     *)
(* times staged under the day key; held: nothing of the day was, whatever  *)
(* is new.                                                                 *)
Cycle == [at: {"idle", "polled", "counted", "shot", "staged", "over"},
          slots: SUBSET Times, failed: BOOLEAN, truth: SUBSET Times,
          digest: SUBSET Times, held: BOOLEAN]
Resting == [at |-> "idle", slots |-> {}, failed |-> FALSE, truth |-> {},
            digest |-> {}, held |-> FALSE]

-----------------------------------------------------------------------------
(* The world: slots are booked and freed, the subscription ends and is     *)
(* taken again, with its records or anew.                                  *)

SlotsChange(S) ==
  /\ S # site
  /\ site' = S
  /\ UNCHANGED <<watched, cycle, snapshot>>
  /\ UNCHANGED cityVars /\ UNCHANGED seenVars

Unwatch ==
  /\ watched
  /\ watched' = FALSE
  /\ UNCHANGED <<site, cycle, snapshot>>
  /\ UNCHANGED cityVars /\ UNCHANGED seenVars

Watch(anew) ==
  /\ ~watched /\ cycle.at = "idle"
  /\ watched' = TRUE
  /\ IF anew THEN best' = Never /\ heard' = {}
             ELSE UNCHANGED seenVars
  /\ UNCHANGED <<site, cycle, snapshot>> /\ UNCHANGED cityVars

(* An hour, or a part of one: the clock of the canary.                     *)
Tick ==
  /\ cycle.at = "idle"
  /\ zero' = Passed(zero) /\ failing' = Passed(failing)
  /\ good' = Passed(good) /\ shown' = Passed(shown)
  /\ \E still \in SUBSET alerted : alerted' = still
  /\ UNCHANGED <<site, watched, cycle, snapshot>> /\ UNCHANGED seenVars

-----------------------------------------------------------------------------
(* The cycle.                                                              *)

(* Every plan of the city is polled; a poll that raises counts as no slots *)
(* (UnsupportedCity too), and the others go on.                            *)
Poll ==
  /\ cycle.at = "idle" /\ watched
  /\ \E failed \in BOOLEAN, S \in SUBSET site :
       /\ ~failed => S = site
       /\ cycle' = [Resting EXCEPT !.at = "polled", !.slots = S, !.failed = failed,
                                   !.truth = site]
  /\ UNCHANGED <<site, watched, snapshot>>
  /\ UNCHANGED cityVars /\ UNCHANGED seenVars

(* Since when it has been so.                                              *)
Since(before, now) == IF ~now THEN Never ELSE IF before = Never THEN 0 ELSE before

(* The transaction on city_state.                                          *)
Count ==
  /\ cycle.at = "polled"
  /\ zero' = Since(zero, cycle.slots = {})
  /\ failing' = Since(failing, cycle.failed)
  /\ good' = IF cycle.failed THEN good ELSE 0
  /\ shown' = IF cycle.slots = {} THEN shown ELSE 0
  /\ cycle' = [cycle EXCEPT !.at = "counted"]
  /\ UNCHANGED <<site, watched, alerted, snapshot>>
  /\ UNCHANGED seenVars

(* Mutant: what the plans that did not fail brought will do.               *)
WholePartly == TRUE

(* record_snapshots: the service's row is replaced when every plan of it   *)
(* succeeded.                                                              *)
Whole == ~cycle.failed

(* It never breaks a cycle: the write may fail.                            *)
Shoot ==
  /\ cycle.at = "counted"
  /\ \/ Whole /\ snapshot' = cycle.slots
     \/ UNCHANGED snapshot
  /\ cycle' = [cycle EXCEPT !.at = "shot", !.failed = FALSE, !.truth = {}]
  /\ UNCHANGED <<site, watched>>
  /\ UNCHANGED cityVars /\ UNCHANGED seenVars

(* Mutant: a day that was told of is told of.                              *)
SeenTheDay(t) == best # Never

(* has_seen_slot: a slot strictly earlier than the recorded best time is   *)
(* news, and none is when the time is not known.                           *)
Seen(t) == best # Never /\ (best = Unknown \/ t >= best)

(* The candidates of the day.  None are staged while the digest rests or   *)
(* the caps are full, and none under the day key while the catalog cannot  *)
(* be read.                                                                *)
Stage ==
  /\ cycle.at = "shot"
  /\ \E held \in BOOLEAN :
       cycle' = [cycle EXCEPT !.at = "staged", !.held = held,
                     !.digest = IF held THEN {} ELSE {t \in Reach : ~Seen(t)}]
  /\ UNCHANGED <<site, watched, snapshot>>
  /\ UNCHANGED cityVars /\ UNCHANGED seenVars

Least(S) == CHOOSE t \in S : \A u \in S : t <= u

(* Mutant: the last slot recorded names the time.                          *)
RecordedLast(b, D) ==
  IF b = Unknown THEN b ELSE CHOOSE t \in D : \A u \in D : t >= u

(* record_seen_slot, once per slot of the digest, soonest first: the best  *)
(* time only ever moves earlier, and a row without one stays so.           *)
Recorded(b, D) ==
  IF b = Unknown THEN b ELSE Least(IF b = Never THEN D ELSE D \cup {b})

(* The flush: delivered and recorded; or not delivered, or delivered and   *)
(* the record lost.                                                        *)
Flush ==
  /\ cycle.at = "staged"
  /\ \/ /\ cycle.digest # {}
        /\ best' = Recorded(best, cycle.digest)
        /\ heard' = heard \cup cycle.digest
     \/ UNCHANGED seenVars
  /\ cycle' = [Resting EXCEPT !.at = "over"]
  /\ UNCHANGED <<site, watched, snapshot>> /\ UNCHANGED cityVars

(* The cycle raises, or the city's polls are not due, and the canary is    *)
(* next.                                                                   *)
Skip ==
  /\ cycle.at # "over"
  /\ cycle' = [Resting EXCEPT !.at = "over"]
  /\ UNCHANGED <<site, watched, snapshot>>
  /\ UNCHANGED cityVars /\ UNCHANGED seenVars

(* The poller is killed and started again.                                 *)
Restart ==
  /\ cycle.at # "idle"
  /\ cycle' = Resting
  /\ UNCHANGED <<site, watched, snapshot>>
  /\ UNCHANGED cityVars /\ UNCHANGED seenVars

(* Mutant: only a poll clears the marks.                                   *)
KeptUnwatched(age) == age

(* A city nobody polls any more loses its marks.                           *)
Kept(age) == IF watched THEN age ELSE Never

(* _check_parser_canary, in its hours or outside; peers: the vendor has    *)
(* other polled cities, and all that do not fail have been at zero for     *)
(* long.  Alerts go out once a day, or are tried again in an hour when the *)
(* mail fails.                                                             *)
Canary(inHours, peers) ==
  LET z == Kept(zero)
      f == Kept(failing)
      due == (IF f = Threshold THEN {"city"} ELSE {})
               \cup (IF f = Never /\ z = Threshold /\ peers THEN {"vendor"} ELSE {})
  IN /\ cycle.at = "over"
     /\ zero' = z /\ failing' = f
     /\ alerted' = IF inHours THEN alerted \cup due ELSE alerted
     /\ good' = IF watched THEN good ELSE 0
     /\ shown' = IF watched THEN shown ELSE 0
     /\ cycle' = Resting
     /\ UNCHANGED <<site, watched, snapshot>> /\ UNCHANGED seenVars

-----------------------------------------------------------------------------
(* Housekeeping.                                                           *)

(* seen_slots older than seven days.                                       *)
PruneSeen ==
  /\ cycle.at = "idle"
  /\ best # Never /\ best' = Never /\ heard' = {}
  /\ UNCHANGED <<site, watched, cycle, snapshot>> /\ UNCHANGED cityVars

(* A snapshot without a whole poll for a day.                              *)
PruneSnapshot ==
  /\ cycle.at = "idle" /\ snapshot # Never
  /\ snapshot' = Never
  /\ UNCHANGED <<site, watched, cycle>>
  /\ UNCHANGED cityVars /\ UNCHANGED seenVars

-----------------------------------------------------------------------------
Init ==
  /\ site \in SUBSET Times /\ watched = TRUE
  /\ cycle = Resting
  /\ zero = Never /\ failing = Never /\ alerted = {}
  /\ snapshot = Never
  /\ best \in {Never, Unknown} /\ heard = {}
  /\ good = 0 /\ shown = 0

World == \/ \E S \in SUBSET Times : SlotsChange(S)
         \/ Unwatch
         \/ \E anew \in BOOLEAN : Watch(anew)

Run == Poll \/ Count \/ Shoot \/ Stage \/ Flush

Next == \/ World \/ Tick \/ Run \/ Skip \/ Restart
        \/ \E inHours, peers \in BOOLEAN : Canary(inHours, peers)
        \/ PruneSeen \/ PruneSnapshot

Spec == Init /\ [][Next]_pollVars

-----------------------------------------------------------------------------
TypeOK ==
  /\ site \subseteq Times /\ watched \in BOOLEAN
  /\ cycle \in Cycle
  /\ zero \in Age \cup {Never} /\ failing \in Age \cup {Never}
  /\ alerted \subseteq {"city", "vendor"}
  /\ snapshot \in (SUBSET Times) \cup {Never}
  /\ best \in Times \cup {Unknown, Never}
  /\ heard \subseteq Times
  /\ good \in Age /\ shown \in Age
=============================================================================
