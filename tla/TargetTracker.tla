---------------------------- MODULE TargetTracker ---------------------------
(***************************************************************************)
(* How targets are followed from one measurement to the next:              *)
(* Processor::get_targets and detect_targets of src/Processor.cpp.  One    *)
(* call handles the targets found in one pair of sweeps (SweepRadar); it   *)
(* runs in the main thread alone, so it is one action.                     *)
(*                                                                         *)
(* A target is its distance and how often it was lost; velocity, time, ID  *)
(* and the flags derived from them decide nothing.  Distances are whole    *)
(* numbers and Gate stands for the 2.5 m of line 89.  The fields misses,   *)
(* ahead and track are history: the measurements in a row without the      *)
(* target, the targets that stood before it when it was new, and a name    *)
(* that stays.                                                             *)
(***************************************************************************)
EXTENDS Integers, Sequences, FiniteSetsExt

CONSTANTS
  Distances,     \* where a target can be
  Gate,          \* how far it may move between two measurements
  MaxCountLost,  \* MAX_COUNT_TRG_LOST, 5 in the code
  MaxNew,        \* bound: targets found in a measurement
  MaxTargets     \* bound: targets followed at a time

ASSUME TrackerAssumption ==
  /\ Distances \subseteq Nat /\ Gate \in Nat /\ MaxCountLost \in Nat \ {0}
  /\ MaxNew \in Nat /\ MaxTargets \in Nat

VARIABLES
  targets,   \* Processor::targets
  measured   \* the distances found in the last measurement, in order

vars == <<targets, measured>>

Tracks == 0 .. MaxTargets + MaxNew

Target == [s : Distances, count_lost : Nat, is_detected : BOOLEAN,
           misses : Nat, ahead : Nat, track : Tracks]

Init == targets = <<>> /\ measured = <<>>

-----------------------------------------------------------------------------
(* detect_targets *)

Distance(a, b) == IF a < b THEN b - a ELSE a - b

\* Mutant: a target may be claimed twice.
NearAll(curr, d) == {i \in DOMAIN curr : Distance(curr[i].s, d) <= Gate}

\* The places of the targets a new one may be: not claimed by another, and near.
Near(curr, d) ==
  {i \in DOMAIN curr : ~curr[i].is_detected /\ Distance(curr[i].s, d) <= Gate}

\* Mutant: a target found again keeps its count.
ClaimedCounting(t, d) == [t EXCEPT !.s = d, !.is_detected = TRUE, !.misses = 0]

Claimed(t, d) == [t EXCEPT !.s = d, !.count_lost = 0, !.is_detected = TRUE, !.misses = 0]

Appended(curr, d) ==
  Append(curr, [s |-> d, count_lost |-> 0, is_detected |-> TRUE, misses |-> 0,
                ahead |-> Len(curr),
                track |-> Min(Tracks \ {curr[i].track : i \in DOMAIN curr})])

\* The first target that is near takes the new one over; with none it is a
\* target of its own.
DetectOne(curr, d) ==
  IF Near(curr, d) = {} THEN Appended(curr, d)
  ELSE LET first == Min(Near(curr, d))
       IN  [i \in DOMAIN curr |-> IF i = first THEN Claimed(curr[i], d) ELSE curr[i]]

\* is_detected is reset in every target first.
Unclaimed(curr) == [i \in DOMAIN curr |-> [curr[i] EXCEPT !.is_detected = FALSE]]

\* What is followed after the first k of the new targets.
DetectTargets(curr, new) ==
  LET after[k \in 0 .. Len(new)] ==
        IF k = 0 THEN Unclaimed(curr) ELSE DetectOne(after[k - 1], new[k])
  IN  after[Len(new)]

-----------------------------------------------------------------------------
(* get_targets: the loop that counts the lost ones.  After an erase the    *)
(* iterator stands on the next target and is advanced past it.             *)

Missed(t) == [t EXCEPT !.misses = @ + 1]

Lost(t) == [Missed(t) EXCEPT !.count_lost = @ + 1]

\* Mutant: a target is erased one measurement too late.
AgeLater(acc, t) ==
  IF t.is_detected THEN [kept |-> Append(acc.kept, t), skip |-> FALSE]
  ELSE IF acc.skip THEN [kept |-> Append(acc.kept, Missed(t)), skip |-> FALSE]
  ELSE IF Lost(t).count_lost > MaxCountLost THEN [kept |-> acc.kept, skip |-> TRUE]
  ELSE [kept |-> Append(acc.kept, Lost(t)), skip |-> FALSE]

Age(acc, t) ==
  IF t.is_detected THEN [kept |-> Append(acc.kept, t), skip |-> FALSE]
  ELSE IF acc.skip THEN [kept |-> Append(acc.kept, Missed(t)), skip |-> FALSE]
  ELSE IF Lost(t).count_lost = MaxCountLost THEN [kept |-> acc.kept, skip |-> TRUE]
  ELSE [kept |-> Append(acc.kept, Lost(t)), skip |-> FALSE]

\* What is kept of the first k targets, and whether the next is stepped over.
AgeTargets(curr) ==
  LET after[k \in 0 .. Len(curr)] ==
        IF k = 0 THEN [kept |-> <<>>, skip |-> FALSE] ELSE Age(after[k - 1], curr[k])
  IN  after[Len(curr)].kept

\* One call, with the targets the sweeps showed in the order they were found.
GetTargets(new) ==
  /\ targets' = AgeTargets(DetectTargets(targets, new))
  /\ measured' = new

Next ==
  \E n \in 0 .. MaxNew : \E new \in [1 .. n -> Distances] :
    /\ Len(DetectTargets(targets, new)) <= MaxTargets
    /\ GetTargets(new)

Spec == Init /\ [][Next]_vars

-----------------------------------------------------------------------------
(* Properties *)

\* The targets found in the last measurement and those followed as detected
\* are the same, one for one: two that are close are not taken for one, none
\* is taken twice, and none is erased by the call that found it
\* (Processor.cpp:84-121, 36-47).
OneForOne ==
  \E m \in [DOMAIN measured -> DOMAIN targets] :
    /\ \A k, l \in DOMAIN measured : m[k] = m[l] => k = l
    /\ \A k \in DOMAIN measured : targets[m[k]].s = measured[k]
    /\ \A i \in DOMAIN targets : targets[i].is_detected <=> \E k \in DOMAIN measured : m[k] = i

\* A target that is gone goes: it is not reported after MaxCountLost
\* measurements without it, and one more for each target that stood before
\* it, because the loop steps over the target after an erased one
\* (Processor.cpp:37-47).
GhostsLeave ==
  \A i \in DOMAIN targets :
    /\ targets[i].count_lost < MaxCountLost
    /\ targets[i].misses + i <= targets[i].count_lost + targets[i].ahead + 1

\* A target is not given up early: it stays until it was missed MaxCountLost
\* times in a row (Processor.cpp:40-45).
NotDroppedEarly ==
  [][\A i \in DOMAIN targets : targets[i].misses + 1 < MaxCountLost =>
       \E j \in DOMAIN targets' : targets'[j].track = targets[i].track]_vars
=============================================================================
