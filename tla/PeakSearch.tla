----------------------------- MODULE PeakSearch -----------------------------
(***************************************************************************)
(* How targets are found in a pair of sweeps: SweepRadar::get_targets with *)
(* calculate and the recursive search_maximums of src/SweepRadar.cpp.      *)
(*                                                                         *)
(* One step is one call of search_maximums; the calls that are still to    *)
(* come are a stack.  A call searches the harmonics first .. end - 1 and   *)
(* takes the first of them for harmonic ofst.  place and rights are        *)
(* history: where a maximum really is, and how often the search went into  *)
(* a right part to find it.                                                *)
(***************************************************************************)
EXTENDS Integers, Sequences, FiniteSets

CONSTANTS
  Size,    \* harmonics of a sweep
  Aria,    \* maximum_aria, 5 in the code
  Near,    \* the 10 of line 21
  Rises,   \* bound: the rising sweeps looked at
  Falls    \* bound: the falling sweeps looked at

Harms == 0 .. Size - 1
Sweeps == {1, 2}

ASSUME PeakAssumption ==
  /\ Size \in Nat /\ Aria \in Nat \ {0, 1} /\ Near \in Nat
  /\ Rises \cup Falls \subseteq [Harms -> Nat]

VARIABLES
  captureData, \* the two sweeps
  sweep,       \* the one that is searched, 3 when both are
  calls,       \* stack of the calls of search_maximums
  maximumes,   \* what was found in each sweep, in the order it was found
  targets      \* the pairs of indices of maximumes that became targets

vars == <<captureData, sweep, calls, maximumes, targets>>

Call(first, end, ofst, rights) == [first |-> first, end |-> end, ofst |-> ofst, rights |-> rights]
Whole == Call(0, Size, 0, 0)

\* calculate, up to the first call
Init ==
  /\ \E rise \in Rises, fall \in Falls : captureData = <<rise, fall>>
  /\ sweep = 1 /\ calls = <<Whole>>
  /\ maximumes = <<<<>>, <<>>>> /\ targets = {}

Spectrum == captureData[sweep]
Top == Head(calls)
Places(c) == c.first .. c.end - 1

\* max_element: the first of the greatest.
MaxElement(s, places) ==
  CHOOSE p \in places : \A q \in places : s[q] < s[p] \/ (s[q] = s[p] /\ p <= q)

Ushort(n) == n % 65536

-----------------------------------------------------------------------------
(* search_maximums *)

\* Mutant: the ends of the part are no obstacle.
AwayFromStart(c, max) == max - c.first >= Aria /\ c.end - max >= 1

AwayFromEnds(c, max) == max - c.first >= Aria /\ c.end - max >= Aria

\* Line 91 leaves the left neighbour out, line 92 takes the right one in.
Around(max) == (max - Aria .. max - 2) \cup (max + 1 .. max + Aria - 1)

\* The levels around are at most 0.3 of the maximum.
Isolated(max) == \A p \in Around(max) \cap Harms : 10 * Spectrum[p] <= 3 * Spectrum[max]

\* Mutant: the left part reaches up to the maximum.
LeftClose(c, max) == Call(c.first, max, c.ofst, c.rights)

\* Mutant: the left part ends one aria too early.
LeftShort(c, max) == Call(c.first, IF max - 2 * Aria > c.first THEN max - 2 * Aria ELSE c.first, c.ofst, c.rights)

Left(c, max) == Call(c.first, max - Aria, c.ofst, c.rights)

\* Mutant: the right part keeps the offset of the whole.
RightSame(c, max, harm) == Call(max + Aria, c.end, c.ofst, c.rights + 1)

\* harm contains ofst already, and it is added once more.
Right(c, max, harm) == Call(max + Aria, c.end, c.ofst + harm + Aria, c.rights + 1)

Return == calls' = Tail(calls) /\ UNCHANGED maximumes

SearchMaximums ==
  /\ calls # <<>>
  /\ IF Places(Top) = {} THEN Return
     ELSE LET max  == MaxElement(Spectrum, Places(Top))
              harm == Ushort(Top.ofst + max - Top.first)
          IN  IF AwayFromEnds(Top, max) /\ Isolated(max)
              THEN /\ maximumes' = [maximumes EXCEPT ![sweep] =
                        Append(@, [harm |-> harm, place |-> max, rights |-> Top.rights])]
                   /\ calls' = <<Left(Top, max), Right(Top, max, harm)>> \o Tail(calls)
              ELSE Return
  /\ UNCHANGED <<captureData, sweep, targets>>

-----------------------------------------------------------------------------
(* calculate and get_targets *)

NextSweep ==
  /\ calls = <<>> /\ sweep = 1
  /\ sweep' = 2 /\ calls' = <<Whole>>
  /\ UNCHANGED <<captureData, maximumes, targets>>

Distance(a, b) == IF a < b THEN b - a ELSE a - b

\* Mutant: the limit itself is near.
AreNearOrAt(a, b) == Distance(a.harm, b.harm) <= Near

AreNear(a, b) == Distance(a.harm, b.harm) < Near

\* Every near pair is a target: the limits of speed and distance are far
\* beyond what two near harmonics of a sweep yield.
GetTargets ==
  /\ calls = <<>> /\ sweep = 2
  /\ targets' = {t \in (DOMAIN maximumes[1]) \X (DOMAIN maximumes[2]) :
                   AreNear(maximumes[1][t[1]], maximumes[2][t[2]])}
  /\ sweep' = 3
  /\ UNCHANGED <<captureData, calls, maximumes>>

Next == SearchMaximums \/ NextSweep \/ GetTargets

Spec == Init /\ [][Next]_vars

-----------------------------------------------------------------------------
(* Properties *)

\* The types; the parts still to be searched lie in the sweep, in order and
\* apart from each other.
TypeOK ==
  /\ \A s \in Sweeps : captureData[s] \in [Harms -> Nat]
  /\ sweep \in 1 .. 3
  /\ \A i \in DOMAIN calls :
       /\ 0 <= calls[i].first /\ calls[i].first <= calls[i].end /\ calls[i].end <= Size
       /\ i < Len(calls) => calls[i].end + 2 * Aria <= calls[i + 1].first
  /\ \A s \in Sweeps : \A i \in DOMAIN maximumes[s] : maximumes[s][i].place \in Harms

\* Each part of maximum_aria on both sides of a maximum holds no other one
\* (SweepRadar.cpp:77): whatever the recursion does, two maxima of a sweep are
\* twice that far apart.
MaximaApart ==
  \A s \in Sweeps : \A i, j \in DOMAIN maximumes[s] :
    i # j => Distance(maximumes[s][i].place, maximumes[s][j].place) >= 2 * Aria

\* Nothing stronger is passed over for a maximum: what is stronger than it is
\* next to another maximum, or behind one (72-119).
StrongerIsFound ==
  \A s \in Sweeps : \A i \in DOMAIN maximumes[s] : \A p \in Harms :
    LET m == maximumes[s][i]
        between(q) == (m.place < q /\ q <= p + Aria) \/ (p - Aria < q /\ q < m.place)
    IN  captureData[s][p] > captureData[s][m.place] =>
          \E j \in DOMAIN maximumes[s] :
            between(maximumes[s][j].place) /\ captureData[s][maximumes[s][j].place] >= captureData[s][p]

\* A maximum is reported at its place, with both neighbours inside of the
\* sweep for estimate_harm, as long as the search went right once at most;
\* behind the second descent to the right it is reported too far out
\* (119, 125-127), behind later ones the sum may also wrap (80).
PlaceIsTold ==
  \A s \in Sweeps : \A i \in DOMAIN maximumes[s] :
    LET m == maximumes[s][i]
    IN  /\ m.rights < 2 => m.harm = m.place /\ m.place \in Aria .. Size - Aria
        /\ m.rights = 2 => m.harm > m.place

\* The targets of a maximum with maxima that are reported at their places.
ToldTargets(s, i) == {t \in targets : t[s] = i /\ maximumes[3 - s][t[3 - s]].rights < 2}

\* A maximum of one sweep, wherever it is reported, becomes two targets at most
\* with those maxima of the other that are reported at their places: the 10 of
\* line 21 suits the 5 of line 77.  Maxima behind the second descent may be
\* reported where another one is, and add to that.
TwoTargetsAtMost ==
  \A s \in Sweeps : \A i \in DOMAIN maximumes[s] : Cardinality(ToldTargets(s, i)) <= 2
=============================================================================
