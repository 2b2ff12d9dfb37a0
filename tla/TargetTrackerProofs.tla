------------------------ MODULE TargetTrackerProofs ------------------------
(***************************************************************************)
(* Proofs about the following of targets, for every set of distances,      *)
(* gate, number of losses and number of targets.                           *)
(*                                                                         *)
(* detect_targets and the loop of get_targets go through a list and pass   *)
(* what they have to the next element.  DetectIsStepwise and AgeIsStepwise *)
(* say that these functions exist; what holds after each element then      *)
(* follows from AllNumbers, induction over a set.  After k new targets,    *)
(* Found: each of the k is one of those followed, and no two are the same. *)
(* After k of the followed, Aged: each that is kept comes from another one *)
(* (Origin), and one that is not kept was not detected and its losses were *)
(* used up.  The two together give the step of TrackInv.                   *)
(*                                                                         *)
(* OneForOne and GhostsLeave are not inductive by themselves: Fits says    *)
(* where a target stands and how many of its losses were not counted, and  *)
(* NamesDiffer that a name tells a target.                                 *)
(***************************************************************************)
EXTENDS TargetTracker, FiniteSetTheorems, SequenceTheorems, WellFoundedInduction, TLAPS

-----------------------------------------------------------------------------
(***************************************************************************)
(* Induction over the numbers.                                             *)
(***************************************************************************)
\* A set of numbers has a least one.
LEMMA LeastNumber ==
  ASSUME NEW T \in SUBSET Nat, T # {}
  PROVE  \E x \in T : \A y \in T : x <= y
<1>1. \E x \in T : \A y \in T : ~ (<<y, x>> \in OpToRel(<, Nat))
  BY NatLessThanWellFounded, WFMin
<1>2. \A x, y \in Nat : y < x => <<y, x>> \in OpToRel(<, Nat)
  BY DEF OpToRel
<1>3. \A x, y \in Nat : x <= y \/ y < x
  OBVIOUS
<1> QED BY <1>1, <1>2, <1>3

\* A set that has 0, and with a number the next one, has them all.
LEMMA AllNumbers ==
  ASSUME NEW T \in SUBSET Nat, 0 \in T, \A n \in Nat \ {0} : n - 1 \in T => n \in T
  PROVE  \A n \in Nat : n \in T
<1> SUFFICES ASSUME Nat \ T # {} PROVE FALSE
  OBVIOUS
<1>1. PICK n \in Nat \ T : \A k \in Nat \ T : n <= k
  BY LeastNumber
<1>2. n \in Nat \ {0} /\ n - 1 \in Nat /\ ~(n <= n - 1)
  BY <1>1
<1> QED BY <1>1, <1>2

\* A set of numbers has a minimum.
LEMMA MinIsLeast ==
  ASSUME NEW T \in SUBSET Nat, T # {}
  PROVE  Min(T) \in T /\ \A y \in T : Min(T) <= y
BY LeastNumber DEF Min

-----------------------------------------------------------------------------
(***************************************************************************)
(* Targets.                                                                *)
(***************************************************************************)
\* The fields of a target.
LEMMA TargetFields ==
  ASSUME NEW t \in Target
  PROVE  /\ t.s \in Distances /\ t.count_lost \in Nat /\ t.is_detected \in BOOLEAN
         /\ t.misses \in Nat /\ t.ahead \in Nat /\ t.track \in Tracks
BY DEF Target

\* What a target is after it was found again.
LEMMA ClaimedTarget ==
  ASSUME NEW t \in Target, NEW d \in Distances
  PROVE  /\ Claimed(t, d) \in Target /\ Claimed(t, d).s = d /\ Claimed(t, d).is_detected = TRUE
         /\ Claimed(t, d).count_lost = 0 /\ Claimed(t, d).misses = 0
         /\ Claimed(t, d).ahead = t.ahead /\ Claimed(t, d).track = t.track
BY DEF Target, Claimed

\* What it is after a measurement without it.
LEMMA MissedTarget ==
  ASSUME NEW t \in Target
  PROVE  /\ Missed(t) \in Target /\ Missed(t).s = t.s /\ Missed(t).is_detected = t.is_detected
         /\ Missed(t).count_lost = t.count_lost /\ Missed(t).misses = t.misses + 1
         /\ Missed(t).ahead = t.ahead /\ Missed(t).track = t.track
BY DEF Target, Missed

\* What it is when the loss is counted too.
LEMMA LostTarget ==
  ASSUME NEW t \in Target
  PROVE  /\ Lost(t) \in Target /\ Lost(t).s = t.s /\ Lost(t).is_detected = t.is_detected
         /\ Lost(t).count_lost = t.count_lost + 1 /\ Lost(t).misses = t.misses + 1
         /\ Lost(t).ahead = t.ahead /\ Lost(t).track = t.track
<1> DEFINE m == Missed(t)
<1>1. m \in Target /\ m.count_lost = t.count_lost
  BY MissedTarget
<1>2. Lost(t) = [m EXCEPT !.count_lost = m.count_lost + 1]
  BY DEF Lost
<1> HIDE DEF m
<1>3. /\ Lost(t) \in Target /\ Lost(t).s = m.s /\ Lost(t).is_detected = m.is_detected
      /\ Lost(t).count_lost = m.count_lost + 1 /\ Lost(t).misses = m.misses
      /\ Lost(t).ahead = m.ahead /\ Lost(t).track = m.track
  BY <1>1, <1>2 DEF Target
<1> QED BY <1>1, <1>3, MissedTarget DEF m

\* A function on 1 .. n is a sequence.
LEMMA FunctionIsSequence ==
  ASSUME NEW S, NEW n \in Nat, NEW f \in [1 .. n -> S]
  PROVE  f \in Seq(S) /\ Len(f) = n
OBVIOUS

\* The names that are taken are fewer than those there are.
LEMMA NameIsFree ==
  ASSUME NEW curr \in Seq(Target), Len(curr) < MaxTargets + MaxNew + 1
  PROVE  /\ Min(Tracks \ {curr[i].track : i \in DOMAIN curr}) \in Tracks
         /\ \A i \in DOMAIN curr : curr[i].track # Min(Tracks \ {curr[j].track : j \in DOMAIN curr})
<1> DEFINE taken == {curr[i].track : i \in DOMAIN curr}
           M == MaxTargets + MaxNew
<1>m. M \in Nat /\ Tracks = 0 .. M /\ Len(curr) \in Nat /\ Len(curr) < M + 1 /\ DOMAIN curr = 1 .. Len(curr)
  BY TrackerAssumption DEF Tracks
<1>1. Tracks \ taken # {}
  <2> SUFFICES ASSUME Tracks \subseteq taken PROVE FALSE
    OBVIOUS
  <2> DEFINE f == [x \in Tracks |-> CHOOSE i \in 1 .. Len(curr) : curr[i].track = x]
  <2>1. \A x \in Tracks : \E i \in 1 .. Len(curr) : curr[i].track = x
    BY <1>m DEF taken
  <2>2. \A x \in Tracks : f[x] \in 1 .. Len(curr) /\ curr[f[x]].track = x
    BY <2>1
  <2>3. f \in [Tracks -> 1 .. Len(curr)]
    BY <2>2
  <2> HIDE DEF f
  <2>i. \A a, n \in Nat : a <= n + 1 =>
          IsFiniteSet(a .. n) /\ Cardinality(a .. n) = IF a > n THEN 0 ELSE n - a + 1
    BY FS_Interval
  <2>4. IsFiniteSet(Tracks) /\ Cardinality(Tracks) = M + 1
    BY <1>m, <2>i
  <2>l. Len(curr) \in Nat /\ 1 <= Len(curr) + 1
    BY <1>m
  <2>5. IsFiniteSet(1 .. Len(curr)) /\ Cardinality(1 .. Len(curr)) = Len(curr)
    BY <2>i, <2>l
  <2>6. PICK x, y \in Tracks : x # y /\ f[x] = f[y]
    BY <1>m, <2>3, <2>4, <2>5, FS_PigeonHole
  <2> QED BY <2>2, <2>6
<1>2. Tracks \ taken \in SUBSET Nat
  BY <1>m
<1>3. Min(Tracks \ taken) \in Tracks \ taken
  BY <1>1, <1>2, MinIsLeast
<1>4. \A i \in DOMAIN curr : curr[i].track \in taken
  OBVIOUS
<1> QED BY <1>3, <1>4

-----------------------------------------------------------------------------
(***************************************************************************)
(* The invariant.                                                          *)
(***************************************************************************)
\* A target at place i: it was lost at least as often as was counted, it stands
\* no further back than where it started, and each loss that was not counted
\* brought it one place forward.
Fits(t, i) ==
  /\ t.count_lost < MaxCountLost /\ t.count_lost <= t.misses
  /\ i <= t.ahead + 1 /\ t.misses + i <= t.count_lost + t.ahead + 1
AllFit(curr) == \A i \in DOMAIN curr : Fits(curr[i], i)

NamesDiffer(curr) == \A i, j \in DOMAIN curr : curr[i].track = curr[j].track => i = j

\* m tells which of the targets each of the first n found is.
Matches(m, new, n, curr) ==
  /\ m \in [1 .. n -> DOMAIN curr]
  /\ \A k, l \in 1 .. n : m[k] = m[l] => k = l
  /\ \A k \in 1 .. n : curr[m[k]].s = new[k]
  /\ \A i \in DOMAIN curr : curr[i].is_detected <=> \E k \in 1 .. n : m[k] = i

TrackInv ==
  /\ targets \in Seq(Target) /\ Len(targets) <= MaxTargets
  /\ AllFit(targets) /\ NamesDiffer(targets)
  /\ OneForOne

-----------------------------------------------------------------------------
(***************************************************************************)
(* detect_targets.                                                         *)
(***************************************************************************)
\* After the first k of the targets in new, old having been followed before.
Found(curr, old, new, k) ==
  /\ curr \in Seq(Target) /\ Len(old) <= Len(curr) /\ Len(curr) <= Len(old) + k
  /\ AllFit(curr) /\ NamesDiffer(curr)
  /\ \A i \in DOMAIN curr : curr[i].is_detected => curr[i].count_lost = 0 /\ curr[i].misses = 0
  /\ \A i \in DOMAIN old : curr[i].track = old[i].track /\ curr[i].count_lost <= old[i].count_lost
  /\ \E m : Matches(m, new, k, curr)

\* A target that is near takes the new one over.
LEMMA ClaimKeeps ==
  ASSUME NEW old \in Seq(Target), NEW n \in Nat, NEW new \in [1 .. n -> Distances], NEW k \in 1 .. n,
         NEW curr, Found(curr, old, new, k - 1), Near(curr, new[k]) # {}
  PROVE  Found(DetectOne(curr, new[k]), old, new, k)
<1> DEFINE d == new[k]
           a == Min(Near(curr, d))
           next == [i \in DOMAIN curr |-> IF i = a THEN Claimed(curr[i], d) ELSE curr[i]]
           L == Len(curr)
<1>d. d \in Distances
  OBVIOUS
<1>1. DetectOne(curr, d) = next
  BY DEF DetectOne
<1>2. curr \in Seq(Target) /\ L \in Nat /\ DOMAIN curr = 1 .. L /\ \A i \in 1 .. L : curr[i] \in Target
  BY DEF Found
<1>o. Len(old) \in Nat /\ DOMAIN old = 1 .. Len(old) /\ Len(old) <= L /\ L <= Len(old) + k
  BY DEF Found
<1>3. Near(curr, d) \in SUBSET Nat
  BY <1>2 DEF Near
<1>4. a \in Near(curr, d)
  BY <1>3, MinIsLeast
<1>5. a \in 1 .. L /\ ~curr[a].is_detected
  BY <1>2, <1>4 DEF Near
<1> HIDE DEF a, L, d
<1>6. \A i \in 1 .. L : next[i] = IF i = a THEN Claimed(curr[i], d) ELSE curr[i]
  BY <1>2
<1>7. DOMAIN next = 1 .. L
  BY <1>2
<1>n. next = [i \in 1 .. L |-> next[i]]
  BY <1>2
<1> HIDE DEF next
<1>8. /\ \A i \in 1 .. L : i # a => next[i] = curr[i]
      /\ next[a] \in Target /\ next[a].s = d /\ next[a].is_detected = TRUE
      /\ next[a].count_lost = 0 /\ next[a].misses = 0
      /\ next[a].ahead = curr[a].ahead /\ next[a].track = curr[a].track
  <2>1. next[a] = Claimed(curr[a], d)
    BY <1>5, <1>6
  <2>2. curr[a] \in Target
    BY <1>2, <1>5
  <2>3. \A i \in 1 .. L : i # a => next[i] = curr[i]
    BY <1>6
  <2>4. \A t \in Target :
          /\ Claimed(t, d) \in Target /\ Claimed(t, d).s = d /\ Claimed(t, d).is_detected = TRUE
          /\ Claimed(t, d).count_lost = 0 /\ Claimed(t, d).misses = 0
          /\ Claimed(t, d).ahead = t.ahead /\ Claimed(t, d).track = t.track
    BY <1>d, ClaimedTarget
  <2> QED BY <2>1, <2>2, <2>3, <2>4
<1>9. \A i \in 1 .. L : next[i] \in Target
  BY <1>2, <1>8
<1>10. next \in [1 .. L -> Target]
  BY <1>9, <1>n
<1>11. next \in Seq(Target) /\ Len(next) = L
  BY <1>2, <1>10, FunctionIsSequence
<1>12. AllFit(next)
  <2>1. \A i \in 1 .. L : Fits(curr[i], i)
    BY <1>2 DEF Found, AllFit
  <2>2. Fits(next[a], a)
    <3>1. MaxCountLost \in Nat \ {0} /\ a \in Nat
      BY <1>5, TrackerAssumption
    <3>2. curr[a].ahead \in Nat /\ a <= curr[a].ahead + 1
      BY <1>2, <1>5, <2>1, TargetFields DEF Fits
    <3> QED BY <1>8, <3>1, <3>2 DEF Fits
  <2>3. \A i \in 1 .. L : Fits(next[i], i)
    BY <1>8, <2>1, <2>2
  <2> QED BY <1>7, <2>3 DEF AllFit
<1>13. NamesDiffer(next)
  <2>1. \A i \in 1 .. L : next[i].track = curr[i].track
    BY <1>8
  <2> QED BY <1>2, <1>7, <2>1 DEF Found, NamesDiffer
<1>14. \A i \in 1 .. L : next[i].is_detected => next[i].count_lost = 0 /\ next[i].misses = 0
  BY <1>2, <1>8 DEF Found
<1>15. \A i \in DOMAIN old : next[i].track = old[i].track /\ next[i].count_lost <= old[i].count_lost
  <2>1. \A i \in 1 .. Len(old) : i \in 1 .. L
    BY <1>2, <1>o
  <2>2. \A i \in 1 .. Len(old) : curr[i].track = old[i].track /\ curr[i].count_lost <= old[i].count_lost
    BY <1>o DEF Found
  <2>3. \A i \in 1 .. Len(old) : old[i].count_lost \in Nat
    BY TargetFields
  <2>4. \A i \in 1 .. Len(old) : next[i].track = old[i].track /\ next[i].count_lost <= old[i].count_lost
    BY <1>8, <2>1, <2>2, <2>3
  <2> QED BY <1>o, <2>4
<1>16. \E m : Matches(m, new, k, next)
  <2>1. PICK m : Matches(m, new, k - 1, curr)
    BY DEF Found
  <2>2. /\ m \in [1 .. k - 1 -> 1 .. L]
        /\ \A i, j \in 1 .. k - 1 : m[i] = m[j] => i = j
        /\ \A i \in 1 .. k - 1 : curr[m[i]].s = new[i]
        /\ \A i \in 1 .. L : curr[i].is_detected <=> \E j \in 1 .. k - 1 : m[j] = i
    BY <1>2, <2>1 DEF Matches
  <2> DEFINE p == [j \in 1 .. k |-> IF j = k THEN a ELSE m[j]]
  <2>3. \A j \in 1 .. k : j = k \/ j \in 1 .. k - 1
    OBVIOUS
  <2>4. \A j \in 1 .. k - 1 : m[j] \in 1 .. L /\ m[j] # a
    BY <1>5, <2>2
  <2>5. p \in [1 .. k -> 1 .. L]
    BY <1>5, <2>3, <2>4
  <2>6. p[k] = a /\ \A j \in 1 .. k - 1 : j \in 1 .. k /\ p[j] = m[j]
    OBVIOUS
  <2> HIDE DEF p
  <2>7. \A i, j \in 1 .. k : p[i] = p[j] => i = j
    BY <2>2, <2>3, <2>4, <2>6
  <2>8. \A j \in 1 .. k : next[p[j]].s = new[j]
    BY <1>8, <2>2, <2>3, <2>4, <2>6, SMTT(30) DEF d
  <2>9. ASSUME NEW i \in 1 .. L PROVE next[i].is_detected <=> \E j \in 1 .. k : p[j] = i
    <3>1. CASE i = a
      BY <1>8, <2>6, <3>1
    <3>2. CASE i # a
      <4>1. next[i] = curr[i]
        BY <1>8, <3>2
      <4>2. (\E j \in 1 .. k : p[j] = i) <=> (\E j \in 1 .. k - 1 : m[j] = i)
        BY <2>3, <2>6, <3>2
      <4> QED BY <2>2, <4>1, <4>2
    <3> QED BY <3>1, <3>2
  <2>10. Matches(p, new, k, next)
    BY <1>7, <2>5, <2>7, <2>8, <2>9 DEF Matches
  <2> QED BY <2>10
<1>17. Found(next, old, new, k)
  BY <1>7, <1>11, <1>12, <1>13, <1>14, <1>15, <1>16, <1>o DEF Found
<1> QED BY <1>1, <1>17 DEF d

\* What a target is that was not followed before.
NewTarget(d, a, x) ==
  [s |-> d, count_lost |-> 0, is_detected |-> TRUE, misses |-> 0, ahead |-> a, track |-> x]

\* Its fields.
LEMMA NewTargetFields ==
  ASSUME NEW d \in Distances, NEW a \in Nat, NEW x \in Tracks
  PROVE  /\ NewTarget(d, a, x) \in Target
         /\ NewTarget(d, a, x).s = d /\ NewTarget(d, a, x).is_detected = TRUE
         /\ NewTarget(d, a, x).count_lost = 0 /\ NewTarget(d, a, x).misses = 0
         /\ NewTarget(d, a, x).ahead = a /\ NewTarget(d, a, x).track = x
BY DEF Target, NewTarget

\* With none near it becomes the last of them.
LEMMA AppendKeeps ==
  ASSUME NEW old \in Seq(Target), NEW n \in Nat, NEW new \in [1 .. n -> Distances], NEW k \in 1 .. n,
         Len(old) <= MaxTargets, n <= MaxNew,
         NEW curr, Found(curr, old, new, k - 1), Near(curr, new[k]) = {}
  PROVE  Found(DetectOne(curr, new[k]), old, new, k)
<1> DEFINE d == new[k]
           x == Min(Tracks \ {curr[i].track : i \in DOMAIN curr})
           L == Len(curr)
           t == NewTarget(d, L, x)
           next == Append(curr, t)
<1>d. d \in Distances
  OBVIOUS
<1>1. DetectOne(curr, d) = next
  BY DEF DetectOne, Appended, NewTarget
<1>2. curr \in Seq(Target) /\ L \in Nat /\ DOMAIN curr = 1 .. L /\ \A i \in 1 .. L : curr[i] \in Target
  BY DEF Found
<1>o. Len(old) \in Nat /\ DOMAIN old = 1 .. Len(old) /\ Len(old) <= L /\ L <= Len(old) + k - 1
  BY DEF Found
<1>3. Len(curr) < MaxTargets + MaxNew + 1
  BY <1>2, <1>o, TrackerAssumption
<1>4. x \in Tracks /\ \A i \in 1 .. L : curr[i].track # x
  BY <1>2, <1>3, NameIsFree
<1> HIDE DEF x, d
<1>5. /\ t \in Target /\ t.s = d /\ t.is_detected = TRUE
      /\ t.count_lost = 0 /\ t.misses = 0 /\ t.ahead = L /\ t.track = x
  <2>1. L \in Nat /\ x \in Tracks
    BY <1>2, <1>4
  <2>2. \A a \in Nat, y \in Tracks :
          /\ NewTarget(d, a, y) \in Target
          /\ NewTarget(d, a, y).s = d /\ NewTarget(d, a, y).is_detected = TRUE
          /\ NewTarget(d, a, y).count_lost = 0 /\ NewTarget(d, a, y).misses = 0
          /\ NewTarget(d, a, y).ahead = a /\ NewTarget(d, a, y).track = y
    BY <1>d, NewTargetFields
  <2> HIDE DEF L
  <2> QED BY <2>1, <2>2
<1> HIDE DEF t
<1>6. /\ next \in Seq(Target) /\ Len(next) = L + 1 /\ DOMAIN next = 1 .. L + 1
      /\ next[L + 1] = t /\ \A i \in 1 .. L : next[i] = curr[i]
  BY <1>2, <1>5
<1> HIDE DEF next, L
<1>7. /\ \A i \in 1 .. L + 1 : i = L + 1 \/ i \in 1 .. L
      /\ \A i \in 1 .. L : i \in 1 .. L + 1 /\ i # L + 1
      /\ L + 1 \in 1 .. L + 1
  BY <1>2
<1>8. AllFit(next)
  <2>1. \A i \in 1 .. L : Fits(curr[i], i)
    BY <1>2 DEF Found, AllFit
  <2>2. Fits(t, L + 1)
    BY <1>2, <1>5, TrackerAssumption DEF Fits
  <2> QED BY <1>6, <1>7, <2>1, <2>2 DEF AllFit
<1>9. NamesDiffer(next)
  <2>1. \A i, j \in 1 .. L : curr[i].track = curr[j].track => i = j
    BY <1>2 DEF Found, NamesDiffer
  <2>2. ASSUME NEW i \in 1 .. L + 1, NEW j \in 1 .. L + 1, next[i].track = next[j].track PROVE i = j
    BY <1>4, <1>5, <1>6, <1>7, <2>1, <2>2
  <2> QED BY <1>6, <2>2 DEF NamesDiffer
<1>10. \A i \in 1 .. L + 1 : next[i].is_detected => next[i].count_lost = 0 /\ next[i].misses = 0
  BY <1>2, <1>5, <1>6, <1>7 DEF Found
<1>11. \A i \in DOMAIN old : next[i].track = old[i].track /\ next[i].count_lost <= old[i].count_lost
  <2>1. \A i \in 1 .. Len(old) : i \in 1 .. L
    BY <1>2, <1>o
  <2>2. \A i \in 1 .. Len(old) : curr[i].track = old[i].track /\ curr[i].count_lost <= old[i].count_lost
    BY <1>o DEF Found
  <2> QED BY <1>6, <1>o, <2>1, <2>2
<1>12. \E m : Matches(m, new, k, next)
  <2>1. PICK m : Matches(m, new, k - 1, curr)
    BY DEF Found
  <2>2. /\ m \in [1 .. k - 1 -> 1 .. L]
        /\ \A i, j \in 1 .. k - 1 : m[i] = m[j] => i = j
        /\ \A i \in 1 .. k - 1 : curr[m[i]].s = new[i]
        /\ \A i \in 1 .. L : curr[i].is_detected <=> \E j \in 1 .. k - 1 : m[j] = i
    BY <1>2, <2>1 DEF Matches
  <2> DEFINE p == [j \in 1 .. k |-> IF j = k THEN L + 1 ELSE m[j]]
  <2>3. \A j \in 1 .. k : j = k \/ j \in 1 .. k - 1
    OBVIOUS
  <2>4. \A j \in 1 .. k - 1 : m[j] \in 1 .. L
    BY <2>2
  <2>5. p \in [1 .. k -> 1 .. L + 1]
    BY <1>7, <2>3, <2>4
  <2>6. p[k] = L + 1 /\ \A j \in 1 .. k - 1 : j \in 1 .. k /\ p[j] = m[j]
    OBVIOUS
  <2> HIDE DEF p
  <2>7. \A i, j \in 1 .. k : p[i] = p[j] => i = j
    BY <1>7, <2>2, <2>3, <2>4, <2>6
  <2>8. \A j \in 1 .. k : next[p[j]].s = new[j]
    <3>1. next[p[k]].s = new[k]
      BY <1>5, <1>6, <2>6 DEF d
    <3>2. \A j \in 1 .. k - 1 : next[p[j]] = curr[m[j]]
      BY <1>6, <2>4, <2>6
    <3>3. \A j \in 1 .. k - 1 : next[p[j]].s = new[j]
      BY <2>2, <3>2
    <3> QED BY <2>3, <3>1, <3>3
  <2>9. ASSUME NEW i \in 1 .. L + 1 PROVE next[i].is_detected <=> \E j \in 1 .. k : p[j] = i
    <3>1. CASE i = L + 1
      BY <1>5, <1>6, <2>6, <3>1
    <3>2. CASE i \in 1 .. L
      <4>1. next[i] = curr[i] /\ i # L + 1
        BY <1>6, <1>7, <3>2
      <4>2. (\E j \in 1 .. k : p[j] = i) <=> (\E j \in 1 .. k - 1 : m[j] = i)
        BY <2>3, <2>6, <4>1
      <4> QED BY <2>2, <3>2, <4>1, <4>2
    <3> QED BY <1>7, <3>1, <3>2
  <2>10. Matches(p, new, k, next)
    BY <1>6, <2>5, <2>7, <2>8, <2>9 DEF Matches
  <2> QED BY <2>10
<1>13. Len(old) <= L + 1 /\ L + 1 <= Len(old) + k
  BY <1>2, <1>o
<1>14. Found(next, old, new, k)
  BY <1>6, <1>8, <1>9, <1>10, <1>11, <1>12, <1>13 DEF Found
<1> QED BY <1>1, <1>14 DEF d

\* What a target is before a measurement.
LEMMA UnclaimedTarget ==
  ASSUME NEW t \in Target, NEW u, u = [t EXCEPT !.is_detected = FALSE]
  PROVE  /\ u \in Target /\ u.s = t.s /\ u.is_detected = FALSE /\ u.count_lost = t.count_lost
         /\ u.misses = t.misses /\ u.ahead = t.ahead /\ u.track = t.track
BY DEF Target

\* Before the first of them nothing is detected.
LEMMA UnclaimedFound ==
  ASSUME NEW old \in Seq(Target), AllFit(old), NamesDiffer(old), NEW new
  PROVE  Found(Unclaimed(old), old, new, 0)
<1> DEFINE L == Len(old)
           next == [i \in DOMAIN old |-> [old[i] EXCEPT !.is_detected = FALSE]]
<1>1. L \in Nat /\ DOMAIN old = 1 .. L /\ \A i \in 1 .. L : old[i] \in Target
  OBVIOUS
<1>2. Unclaimed(old) = next
  BY DEF Unclaimed
<1> HIDE DEF L
<1>3. \A i \in 1 .. L : next[i] = [old[i] EXCEPT !.is_detected = FALSE]
  BY <1>1
<1>n. next = [i \in 1 .. L |-> next[i]]
  BY <1>1
<1> HIDE DEF next
<1>4. \A i \in 1 .. L :
        /\ next[i] \in Target /\ next[i].s = old[i].s /\ next[i].is_detected = FALSE
        /\ next[i].count_lost = old[i].count_lost /\ next[i].misses = old[i].misses
        /\ next[i].ahead = old[i].ahead /\ next[i].track = old[i].track
  BY <1>1, <1>3, UnclaimedTarget, ZenonT(60)
<1>5. next \in Seq(Target) /\ Len(next) = L /\ DOMAIN next = 1 .. L
  <2>1. next \in [1 .. L -> Target]
    BY <1>4, <1>n
  <2> QED BY <1>1, <2>1, FunctionIsSequence
<1>6. AllFit(next)
  BY <1>1, <1>4, <1>5 DEF AllFit, Fits
<1>7. NamesDiffer(next)
  BY <1>1, <1>4, <1>5 DEF NamesDiffer
<1>8. \A i \in 1 .. L : next[i].track = old[i].track /\ next[i].count_lost <= old[i].count_lost
  BY <1>1, <1>4, TargetFields
<1>9. \E m : Matches(m, new, 0, next)
  <2>1. \A k : k \notin 1 .. 0
    OBVIOUS
  <2>2. [k \in 1 .. 0 |-> 0] \in [1 .. 0 -> 1 .. L]
    BY <2>1
  <2>3. Matches([k \in 1 .. 0 |-> 0], new, 0, next)
    BY <1>4, <1>5, <2>1, <2>2 DEF Matches
  <2> QED BY <2>3
<1>10. Found(next, old, new, 0)
  BY <1>1, <1>4, <1>5, <1>6, <1>7, <1>8, <1>9 DEF Found, L
<1> QED BY <1>2, <1>10

\* f tells what is followed after each of the new targets.
Detects(f, old, new, n) ==
  /\ f[0] = Unclaimed(old)
  /\ \A k \in 1 .. n : f[k] = DetectOne(f[k - 1], new[k])
  /\ DetectTargets(old, new) = f[n]

\* detect_targets goes through the new targets one by one.
LEMMA DetectIsStepwise ==
  ASSUME NEW old, NEW n \in Nat, NEW new, Len(new) = n
  PROVE  \E f : Detects(f, old, new, n)
<1> DEFINE Step(g, k) == IF k = 0 THEN Unclaimed(old) ELSE DetectOne(g[k - 1], new[k])
           Upto(g, m) == g = [k \in 0 .. m |-> Step(g, k)]
           T == {m \in Nat : \E g : Upto(g, m)}
<1>1. 0 \in T
  <2> DEFINE g == [k \in 0 .. 0 |-> Unclaimed(old)]
  <2>1. g = [k \in 0 .. 0 |-> Step(g, k)]
    <3>1. \A k \in 0 .. 0 : k = 0
      OBVIOUS
    <3> QED BY <3>1
  <2> QED BY <2>1
<1>2. ASSUME NEW m \in Nat \ {0}, m - 1 \in T PROVE m \in T
  <2>1. PICK g : g = [k \in 0 .. m - 1 |-> Step(g, k)]
    BY <1>2
  <2> DEFINE h == [k \in 0 .. m |-> IF k = m THEN DetectOne(g[m - 1], new[m]) ELSE g[k]]
  <2>2. \A k \in 0 .. m : k = m \/ k \in 0 .. m - 1
    OBVIOUS
  <2>3. \A k \in 0 .. m - 1 : h[k] = g[k] /\ g[k] = Step(g, k)
    BY <2>1
  <2>4. \A k \in 0 .. m - 1 : k # 0 => k - 1 \in 0 .. m - 1 /\ h[k - 1] = g[k - 1]
    OBVIOUS
  <2>5. \A k \in 0 .. m - 1 : Step(h, k) = Step(g, k)
    BY <2>4
  <2>6. m - 1 \in 0 .. m - 1 /\ m # 0 /\ m \in 0 .. m
    OBVIOUS
  <2>7. h[m] = Step(h, m)
    BY <2>3, <2>6
  <2>8. \A k \in 0 .. m : h[k] = Step(h, k)
    BY <2>2, <2>3, <2>5, <2>7
  <2>n. h = [k \in 0 .. m |-> h[k]]
    OBVIOUS
  <2> HIDE DEF h, Step
  <2>9. h = [k \in 0 .. m |-> Step(h, k)]
    BY <2>8, <2>n
  <2> QED BY <2>9
<1>3. T \in SUBSET Nat
  OBVIOUS
<1>t. \A m \in T : \E g : Upto(g, m)
  OBVIOUS
<1> HIDE DEF T
<1>4. n \in T
  BY <1>1, <1>2, <1>3, AllNumbers
<1> DEFINE f == CHOOSE f : f = [k \in 0 .. n |-> Step(f, k)]
<1>5. f = [k \in 0 .. n |-> Step(f, k)]
  BY <1>4, <1>t
<1>6. DetectTargets(old, new) = f[n]
  BY DEF DetectTargets
<1> HIDE DEF f
<1>7. \A k \in 0 .. n : f[k] = Step(f, k)
  BY <1>5
<1>8. f[0] = Unclaimed(old)
  BY <1>7
<1>9. \A k \in 1 .. n : k \in 0 .. n /\ k # 0
  OBVIOUS
<1>10. \A k \in 1 .. n : f[k] = DetectOne(f[k - 1], new[k])
  BY <1>7, <1>9
<1> QED BY <1>6, <1>8, <1>10 DEF Detects

\* What detect_targets leaves, for as many new targets as there is room for.
LEMMA DetectKeeps ==
  ASSUME NEW old \in Seq(Target), AllFit(old), NamesDiffer(old), Len(old) <= MaxTargets,
         NEW n \in Nat, n <= MaxNew, NEW new \in [1 .. n -> Distances]
  PROVE  Found(DetectTargets(old, new), old, new, n)
<1>1. Len(new) = n
  BY FunctionIsSequence
<1>f. PICK f : Detects(f, old, new, n)
  BY <1>1, DetectIsStepwise
<1>2. /\ f[0] = Unclaimed(old)
      /\ \A k \in 1 .. n : f[k] = DetectOne(f[k - 1], new[k])
      /\ DetectTargets(old, new) = f[n]
  BY <1>f DEF Detects
<1> DEFINE T == {k \in Nat : k <= n => Found(f[k], old, new, k)}
<1>3. 0 \in T
  BY <1>2, UnclaimedFound
<1>4. ASSUME NEW k \in Nat \ {0}, k - 1 \in T PROVE k \in T
  <2> SUFFICES ASSUME k <= n PROVE Found(f[k], old, new, k)
    OBVIOUS
  <2>1. k \in 1 .. n /\ k - 1 <= n
    OBVIOUS
  <2>2. Found(f[k - 1], old, new, k - 1)
    BY <1>4, <2>1
  <2>3. f[k] = DetectOne(f[k - 1], new[k])
    BY <1>2, <2>1
  <2>4. CASE Near(f[k - 1], new[k]) # {}
    BY <2>1, <2>2, <2>3, <2>4, ClaimKeeps
  <2>5. CASE Near(f[k - 1], new[k]) = {}
    BY <2>1, <2>2, <2>3, <2>5, AppendKeeps
  <2> QED BY <2>4, <2>5
<1>5. T \in SUBSET Nat
  OBVIOUS
<1>6. \A k \in T : k <= n => Found(f[k], old, new, k)
  OBVIOUS
<1> HIDE DEF T
<1>7. n \in T
  BY <1>3, <1>4, <1>5, AllNumbers
<1> QED BY <1>2, <1>6, <1>7

-----------------------------------------------------------------------------
(***************************************************************************)
(* The loop that counts the lost ones.                                     *)
(***************************************************************************)
\* t is what is left of target u.
Left(t, u) == t.s = u.s /\ t.is_detected = u.is_detected /\ t.track = u.track

\* e tells which of the first k targets of curr each of those kept was.  One
\* that is not among them was not detected and its losses were used up.
Origin(e, kept, curr, k) ==
  /\ e \in [DOMAIN kept -> 1 .. k]
  /\ \A i, j \in DOMAIN kept : e[i] = e[j] => i = j
  /\ \A i \in DOMAIN kept : Left(kept[i], curr[e[i]])
  /\ \A j \in 1 .. k :
       \/ \E i \in DOMAIN kept : e[i] = j
       \/ ~curr[j].is_detected /\ curr[j].count_lost + 1 = MaxCountLost

\* After the first k of the targets in curr.
Aged(acc, curr, k) ==
  /\ acc.kept \in Seq(Target) /\ acc.skip \in BOOLEAN
  /\ Len(acc.kept) <= k /\ (acc.skip => Len(acc.kept) < k)
  /\ AllFit(acc.kept)
  /\ \E e : Origin(e, acc.kept, curr, k)

\* One more is kept.
LEMMA KeepOne ==
  ASSUME NEW curr \in Seq(Target), NEW k \in 1 .. Len(curr),
         NEW kept \in Seq(Target), Len(kept) <= k - 1, AllFit(kept),
         \E e : Origin(e, kept, curr, k - 1),
         NEW t \in Target, Left(t, curr[k]), Fits(t, Len(kept) + 1)
  PROVE  /\ Append(kept, t) \in Seq(Target) /\ Len(Append(kept, t)) <= k
         /\ AllFit(Append(kept, t)) /\ \E e : Origin(e, Append(kept, t), curr, k)
<1> DEFINE L == Len(kept)
           next == Append(kept, t)
<1>1. L \in Nat /\ DOMAIN kept = 1 .. L /\ k \in Nat
  OBVIOUS
<1>2. /\ next \in Seq(Target) /\ Len(next) = L + 1 /\ DOMAIN next = 1 .. L + 1
      /\ next[L + 1] = t /\ \A i \in 1 .. L : next[i] = kept[i]
  OBVIOUS
<1> HIDE DEF next
<1>3. L <= k - 1 /\ Fits(t, L + 1)
  OBVIOUS
<1> HIDE DEF L
<1>4. /\ \A i \in 1 .. L + 1 : i = L + 1 \/ i \in 1 .. L
      /\ \A i \in 1 .. L : i \in 1 .. L + 1 /\ i # L + 1
      /\ L + 1 \in 1 .. L + 1
  BY <1>1
<1>5. AllFit(next)
  BY <1>1, <1>2, <1>3, <1>4 DEF AllFit
<1>6. \E e : Origin(e, next, curr, k)
  <2>1. PICK e : Origin(e, kept, curr, k - 1)
    OBVIOUS
  <2>2. /\ e \in [1 .. L -> 1 .. k - 1]
        /\ \A i, j \in 1 .. L : e[i] = e[j] => i = j
        /\ \A i \in 1 .. L : Left(kept[i], curr[e[i]])
        /\ \A j \in 1 .. k - 1 :
             \/ \E i \in 1 .. L : e[i] = j
             \/ ~curr[j].is_detected /\ curr[j].count_lost + 1 = MaxCountLost
    BY <1>1, <2>1 DEF Origin
  <2> DEFINE p == [i \in 1 .. L + 1 |-> IF i = L + 1 THEN k ELSE e[i]]
  <2>3. p[L + 1] = k /\ \A i \in 1 .. L : p[i] = e[i]
    BY <1>4
  <2>4. \A i \in 1 .. L : e[i] \in 1 .. k /\ e[i] # k
    <3>1. \A x \in 1 .. k - 1 : x \in 1 .. k /\ x # k
      BY <1>1
    <3> QED BY <2>2, <3>1
  <2>5. k \in 1 .. k
    BY <1>1
  <2>6. p \in [1 .. L + 1 -> 1 .. k]
    BY <1>4, <2>4, <2>5
  <2> HIDE DEF p
  <2>7. \A i, j \in 1 .. L + 1 : p[i] = p[j] => i = j
    BY <1>4, <2>2, <2>3, <2>4
  <2>8. \A i \in 1 .. L + 1 : Left(next[i], curr[p[i]])
    <3>1. Left(next[L + 1], curr[p[L + 1]])
      BY <1>2, <2>3
    <3>2. \A i \in 1 .. L : Left(next[i], curr[p[i]])
      BY <1>2, <2>2, <2>3
    <3> QED BY <1>4, <3>1, <3>2
  <2>9. ASSUME NEW j \in 1 .. k
        PROVE  \/ \E i \in 1 .. L + 1 : p[i] = j
               \/ ~curr[j].is_detected /\ curr[j].count_lost + 1 = MaxCountLost
    <3>1. CASE j = k
      BY <1>4, <2>3, <3>1
    <3>2. CASE j \in 1 .. k - 1
      <4>1. (\E i \in 1 .. L : e[i] = j) => \E i \in 1 .. L + 1 : p[i] = j
        BY <1>4, <2>3
      <4> QED BY <2>2, <3>2, <4>1
    <3> QED BY <3>1, <3>2
  <2>10. Origin(p, next, curr, k)
    BY <1>2, <2>6, <2>7, <2>8, <2>9 DEF Origin
  <2> QED BY <2>10
<1>7. Len(next) <= k
  BY <1>1, <1>2, <1>3
<1> QED BY <1>2, <1>5, <1>6, <1>7 DEF next

\* One is erased.
LEMMA EraseOne ==
  ASSUME NEW curr, NEW k \in Nat \ {0}, NEW kept \in Seq(Target),
         \E e : Origin(e, kept, curr, k - 1),
         ~curr[k].is_detected, curr[k].count_lost + 1 = MaxCountLost
  PROVE  \E e : Origin(e, kept, curr, k)
<1>1. PICK e : Origin(e, kept, curr, k - 1)
  OBVIOUS
<1>2. \A x \in 1 .. k - 1 : x \in 1 .. k
  OBVIOUS
<1>3. \A x \in 1 .. k : x = k \/ x \in 1 .. k - 1
  OBVIOUS
<1>4. e \in [DOMAIN kept -> 1 .. k]
  BY <1>1, <1>2 DEF Origin
<1>5. \A j \in 1 .. k :
       \/ \E i \in DOMAIN kept : e[i] = j
       \/ ~curr[j].is_detected /\ curr[j].count_lost + 1 = MaxCountLost
  BY <1>1, <1>3 DEF Origin
<1>6. Origin(e, kept, curr, k)
  BY <1>1, <1>4, <1>5 DEF Origin
<1> QED BY <1>6

\* A target that fits at a place fits at each one before it.
LEMMA FitsBefore ==
  ASSUME NEW t \in Target, NEW i \in Nat, NEW j \in Nat, j <= i, Fits(t, i)
  PROVE  Fits(t, j)
BY TargetFields DEF Fits

\* A target that fits at a place fits one place before it after it was stepped
\* over.
LEMMA MissedFits ==
  ASSUME NEW t \in Target, NEW k \in Nat, Fits(t, k), NEW i \in Nat, i + 1 <= k
  PROVE  Fits(Missed(t), i)
<1> DEFINE c == t.count_lost
           m == t.misses
           a == t.ahead
<1>1. c \in Nat /\ m \in Nat /\ a \in Nat /\ MaxCountLost \in Nat
  BY TargetFields, TrackerAssumption
<1>2. c < MaxCountLost /\ c <= m /\ k <= a + 1 /\ m + k <= c + a + 1
  BY DEF Fits
<1>3. Missed(t).count_lost = c /\ Missed(t).misses = m + 1 /\ Missed(t).ahead = a
  BY MissedTarget
<1> HIDE DEF c, m, a
<1>4. c < MaxCountLost /\ c <= m + 1 /\ i <= a + 1 /\ m + 1 + i <= c + a + 1
  BY <1>1, <1>2
<1> QED BY <1>3, <1>4 DEF Fits

\* The same for one whose loss is counted and that is not erased.
LEMMA LostFits ==
  ASSUME NEW t \in Target, NEW k \in Nat, Fits(t, k), NEW i \in Nat, i <= k,
         Lost(t).count_lost # MaxCountLost
  PROVE  Fits(Lost(t), i)
<1> DEFINE c == t.count_lost
           m == t.misses
           a == t.ahead
<1>1. c \in Nat /\ m \in Nat /\ a \in Nat /\ MaxCountLost \in Nat
  BY TargetFields, TrackerAssumption
<1>2. c < MaxCountLost /\ c <= m /\ k <= a + 1 /\ m + k <= c + a + 1
  BY DEF Fits
<1>3. Lost(t).count_lost = c + 1 /\ Lost(t).misses = m + 1 /\ Lost(t).ahead = a
  BY LostTarget
<1> HIDE DEF c, m, a
<1>5. c + 1 # MaxCountLost
  BY <1>3
<1>4. c + 1 < MaxCountLost /\ c + 1 <= m + 1 /\ i <= a + 1 /\ m + 1 + i <= c + 1 + a + 1
  BY <1>1, <1>2, <1>5
<1> QED BY <1>3, <1>4 DEF Fits

\* The body of the loop.
LEMMA AgeKeeps ==
  ASSUME NEW curr \in Seq(Target), AllFit(curr), NEW k \in 1 .. Len(curr),
         NEW acc, Aged(acc, curr, k - 1)
  PROVE  Aged(Age(acc, curr[k]), curr, k)
<1> DEFINE t == curr[k]
           L == Len(acc.kept)
<1>1. k \in Nat \ {0} /\ t \in Target /\ Fits(t, k)
  BY DEF AllFit
<1>2. /\ acc.kept \in Seq(Target) /\ acc.skip \in BOOLEAN /\ L \in Nat
      /\ L <= k - 1 /\ (acc.skip => L < k - 1)
      /\ AllFit(acc.kept) /\ \E e : Origin(e, acc.kept, curr, k - 1)
  BY DEF Aged
<1>3. /\ t.count_lost \in Nat /\ t.misses \in Nat /\ t.ahead \in Nat /\ t.is_detected \in BOOLEAN
  BY <1>1, TargetFields
<1>4. /\ t.count_lost < MaxCountLost /\ t.count_lost <= t.misses
      /\ k <= t.ahead + 1 /\ t.misses + k <= t.count_lost + t.ahead + 1
  BY <1>1 DEF Fits
<1>m. MaxCountLost \in Nat
  BY TrackerAssumption
<1>n. k \in Nat /\ L \in Nat /\ L <= k - 1 /\ (acc.skip => L < k - 1)
  BY <1>1, <1>2
<1> HIDE DEF L, t
<1>5. ASSUME NEW u \in Target, Left(u, t), Fits(u, L + 1)
      PROVE  Aged([kept |-> Append(acc.kept, u), skip |-> FALSE], curr, k)
  <2>1. /\ Append(acc.kept, u) \in Seq(Target) /\ Len(Append(acc.kept, u)) <= k
        /\ AllFit(Append(acc.kept, u)) /\ \E e : Origin(e, Append(acc.kept, u), curr, k)
    BY <1>2, <1>5, KeepOne DEF L, t
  <2> QED BY <2>1 DEF Aged
<1>6. CASE t.is_detected
  <2>1. Left(t, t)
    BY DEF Left
  <2>2. Fits(t, L + 1)
    BY <1>1, <1>2, FitsBefore
  <2>3. Age(acc, t) = [kept |-> Append(acc.kept, t), skip |-> FALSE]
    BY <1>6 DEF Age
  <2> QED BY <1>1, <1>5, <2>1, <2>2, <2>3 DEF t
<1>7. CASE ~t.is_detected /\ acc.skip
  <2>1. /\ Missed(t) \in Target /\ Missed(t).s = t.s /\ Missed(t).is_detected = t.is_detected
        /\ Missed(t).count_lost = t.count_lost /\ Missed(t).misses = t.misses + 1
        /\ Missed(t).ahead = t.ahead /\ Missed(t).track = t.track
    BY <1>1, MissedTarget
  <2>2. Left(Missed(t), t)
    BY <2>1 DEF Left
  <2>3. Fits(Missed(t), L + 1)
    <3>1. L + 1 \in Nat /\ L + 1 + 1 <= k
      BY <1>n, <1>7
    <3> QED BY <1>1, <3>1, MissedFits
  <2>4. Age(acc, t) = [kept |-> Append(acc.kept, Missed(t)), skip |-> FALSE]
    BY <1>7 DEF Age
  <2> QED BY <1>5, <2>1, <2>2, <2>3, <2>4 DEF t
<1>8. CASE ~t.is_detected /\ ~acc.skip
  <2>1. /\ Lost(t) \in Target /\ Lost(t).s = t.s /\ Lost(t).is_detected = t.is_detected
        /\ Lost(t).count_lost = t.count_lost + 1 /\ Lost(t).misses = t.misses + 1
        /\ Lost(t).ahead = t.ahead /\ Lost(t).track = t.track
    BY <1>1, LostTarget
  <2>2. CASE Lost(t).count_lost = MaxCountLost
    <3>1. Age(acc, t) = [kept |-> acc.kept, skip |-> TRUE]
      BY <1>8, <2>2 DEF Age
    <3>2. \E e : Origin(e, acc.kept, curr, k)
      BY <1>1, <1>2, <1>8, <2>1, <2>2, EraseOne DEF t
    <3>3. L <= k /\ L < k
      BY <1>1, <1>2
    <3>4. Aged([kept |-> acc.kept, skip |-> TRUE], curr, k)
      BY <1>2, <3>2, <3>3 DEF Aged, L
    <3> QED BY <3>1, <3>4 DEF t
  <2>3. CASE Lost(t).count_lost # MaxCountLost
    <3>1. Age(acc, t) = [kept |-> Append(acc.kept, Lost(t)), skip |-> FALSE]
      BY <1>8, <2>3 DEF Age
    <3>2. Left(Lost(t), t)
      BY <2>1 DEF Left
    <3>3. Fits(Lost(t), L + 1)
      <4>1. L + 1 \in Nat /\ L + 1 <= k
        BY <1>n
      <4> QED BY <1>1, <2>3, <4>1, LostFits
    <3> QED BY <1>5, <2>1, <3>1, <3>2, <3>3 DEF t
  <2> QED BY <2>2, <2>3
<1> QED BY <1>2, <1>3, <1>6, <1>7, <1>8
\* f tells what is kept after each of the targets, and whether the next is
\* stepped over.
Ages(f, curr, n) ==
  /\ f[0] = [kept |-> <<>>, skip |-> FALSE]
  /\ \A k \in 1 .. n : f[k] = Age(f[k - 1], curr[k])
  /\ AgeTargets(curr) = f[n].kept

\* The loop goes through the targets one by one.
LEMMA AgeIsStepwise ==
  ASSUME NEW curr, NEW n \in Nat, Len(curr) = n
  PROVE  \E f : Ages(f, curr, n)
<1> DEFINE None == [kept |-> <<>>, skip |-> FALSE]
           Step(g, k) == IF k = 0 THEN None ELSE Age(g[k - 1], curr[k])
           Upto(g, m) == g = [k \in 0 .. m |-> Step(g, k)]
           T == {m \in Nat : \E g : Upto(g, m)}
<1>n. None = [kept |-> <<>>, skip |-> FALSE]
  OBVIOUS
<1> HIDE DEF None
<1>1. 0 \in T
  <2> DEFINE g == [k \in 0 .. 0 |-> None]
  <2>1. g = [k \in 0 .. 0 |-> Step(g, k)]
    <3>1. \A k \in 0 .. 0 : k = 0
      OBVIOUS
    <3> QED BY <3>1
  <2> QED BY <2>1
<1>2. ASSUME NEW m \in Nat \ {0}, m - 1 \in T PROVE m \in T
  <2>1. PICK g : g = [k \in 0 .. m - 1 |-> Step(g, k)]
    BY <1>2
  <2> DEFINE h == [k \in 0 .. m |-> IF k = m THEN Age(g[m - 1], curr[m]) ELSE g[k]]
  <2>2. \A k \in 0 .. m : k = m \/ k \in 0 .. m - 1
    OBVIOUS
  <2>3. \A k \in 0 .. m - 1 : h[k] = g[k] /\ g[k] = Step(g, k)
    BY <2>1
  <2>4. \A k \in 0 .. m - 1 : k # 0 => k - 1 \in 0 .. m - 1 /\ h[k - 1] = g[k - 1]
    OBVIOUS
  <2>5. \A k \in 0 .. m - 1 : Step(h, k) = Step(g, k)
    BY <2>4
  <2>6. m - 1 \in 0 .. m - 1 /\ m # 0 /\ m \in 0 .. m
    OBVIOUS
  <2>7. h[m] = Step(h, m)
    BY <2>3, <2>6
  <2>8. \A k \in 0 .. m : h[k] = Step(h, k)
    BY <2>2, <2>3, <2>5, <2>7
  <2>n. h = [k \in 0 .. m |-> h[k]]
    OBVIOUS
  <2> HIDE DEF h, Step
  <2>9. h = [k \in 0 .. m |-> Step(h, k)]
    BY <2>8, <2>n
  <2> QED BY <2>9
<1>3. T \in SUBSET Nat
  OBVIOUS
<1>t. \A m \in T : \E g : Upto(g, m)
  OBVIOUS
<1> HIDE DEF T
<1>4. n \in T
  BY <1>1, <1>2, <1>3, AllNumbers
<1> DEFINE f == CHOOSE f : f = [k \in 0 .. n |-> Step(f, k)]
<1>5. f = [k \in 0 .. n |-> Step(f, k)]
  BY <1>4, <1>t
<1>6. AgeTargets(curr) = f[n].kept
  BY <1>n DEF AgeTargets
<1> HIDE DEF f
<1>7. \A k \in 0 .. n : f[k] = Step(f, k)
  BY <1>5
<1>8. f[0] = None
  BY <1>7
<1>9. \A k \in 1 .. n : k \in 0 .. n /\ k # 0
  OBVIOUS
<1>10. \A k \in 1 .. n : f[k] = Age(f[k - 1], curr[k])
  BY <1>7, <1>9
<1> QED BY <1>n, <1>6, <1>8, <1>10 DEF Ages

\* What the loop keeps.
LEMMA AgesKeep ==
  ASSUME NEW curr \in Seq(Target), AllFit(curr)
  PROVE  /\ AgeTargets(curr) \in Seq(Target) /\ Len(AgeTargets(curr)) <= Len(curr)
         /\ AllFit(AgeTargets(curr))
         /\ \E e : Origin(e, AgeTargets(curr), curr, Len(curr))
<1> DEFINE n == Len(curr)
<1>1. n \in Nat
  OBVIOUS
<1>f. PICK f : Ages(f, curr, n)
  BY <1>1, AgeIsStepwise
<1>2. /\ f[0] = [kept |-> <<>>, skip |-> FALSE]
      /\ \A k \in 1 .. n : f[k] = Age(f[k - 1], curr[k])
      /\ AgeTargets(curr) = f[n].kept
  BY <1>f DEF Ages
<1> DEFINE T == {k \in Nat : k <= n => Aged(f[k], curr, k)}
<1>3. 0 \in T
  <2>1. \A i : i \notin 1 .. 0
    OBVIOUS
  <2>2. DOMAIN <<>> = 1 .. 0 /\ <<>> \in Seq(Target) /\ Len(<<>>) = 0
    OBVIOUS
  <2>3. [i \in 1 .. 0 |-> 0] \in [1 .. 0 -> 1 .. 0]
    OBVIOUS
  <2>4. Origin([i \in 1 .. 0 |-> 0], <<>>, curr, 0)
    BY <2>1, <2>2, <2>3 DEF Origin
  <2>5. AllFit(<<>>)
    BY <2>1, <2>2 DEF AllFit
  <2>6. Aged([kept |-> <<>>, skip |-> FALSE], curr, 0)
    BY <2>2, <2>4, <2>5 DEF Aged
  <2> QED BY <1>2, <2>6
<1>4. ASSUME NEW k \in Nat \ {0}, k - 1 \in T PROVE k \in T
  <2> SUFFICES ASSUME k <= n PROVE Aged(f[k], curr, k)
    OBVIOUS
  <2>1. k \in 1 .. n /\ k - 1 <= n
    BY <1>1
  <2>2. Aged(f[k - 1], curr, k - 1)
    BY <1>4, <2>1
  <2>3. f[k] = Age(f[k - 1], curr[k])
    BY <1>2, <2>1
  <2> QED BY <2>1, <2>2, <2>3, AgeKeeps
<1>5. T \in SUBSET Nat
  OBVIOUS
<1>6. \A k \in T : k <= n => Aged(f[k], curr, k)
  OBVIOUS
<1> HIDE DEF T
<1>7. n \in T
  BY <1>1, <1>3, <1>4, <1>5, AllNumbers
<1>8. Aged(f[n], curr, n)
  BY <1>1, <1>6, <1>7
<1> QED BY <1>2, <1>8 DEF Aged

-----------------------------------------------------------------------------
(***************************************************************************)
(* The step.                                                               *)
(***************************************************************************)
\* What was found is kept, so it is still matched when the loop is through.
LEMMA MatchedStay ==
  ASSUME NEW n \in Nat, NEW new, NEW curr \in Seq(Target), NEW kept \in Seq(Target),
         \E m : Matches(m, new, n, curr), \E e : Origin(e, kept, curr, Len(curr))
  PROVE  \E q : Matches(q, new, n, kept)
<1> DEFINE L == Len(curr)
           K == Len(kept)
<1>1. L \in Nat /\ K \in Nat /\ DOMAIN curr = 1 .. L /\ DOMAIN kept = 1 .. K
  OBVIOUS
<1>m. PICK m : Matches(m, new, n, curr)
  OBVIOUS
<1>e. PICK e : Origin(e, kept, curr, L)
  OBVIOUS
<1> HIDE DEF L, K
<1>2. /\ m \in [1 .. n -> 1 .. L]
      /\ \A k, l \in 1 .. n : m[k] = m[l] => k = l
      /\ \A k \in 1 .. n : curr[m[k]].s = new[k]
      /\ \A i \in 1 .. L : curr[i].is_detected <=> \E k \in 1 .. n : m[k] = i
  BY <1>1, <1>m DEF Matches
<1>3. /\ e \in [1 .. K -> 1 .. L]
      /\ \A i, j \in 1 .. K : e[i] = e[j] => i = j
      /\ \A i \in 1 .. K : Left(kept[i], curr[e[i]])
      /\ \A j \in 1 .. L : (\E i \in 1 .. K : e[i] = j) \/ ~curr[j].is_detected
  BY <1>1, <1>e DEF Origin
<1> DEFINE q == [k \in 1 .. n |-> CHOOSE i \in 1 .. K : e[i] = m[k]]
<1>4. \A k \in 1 .. n : m[k] \in 1 .. L /\ \E i \in 1 .. K : e[i] = m[k]
  BY <1>2, <1>3
<1>5. \A k \in 1 .. n : q[k] \in 1 .. K /\ e[q[k]] = m[k]
  BY <1>4
<1>6. q \in [1 .. n -> 1 .. K]
  BY <1>5
<1> HIDE DEF q
<1>7. \A k, l \in 1 .. n : q[k] = q[l] => k = l
  BY <1>2, <1>5
<1>8. \A k \in 1 .. n : kept[q[k]].s = new[k]
  <2>1. \A i \in 1 .. K : kept[i].s = curr[e[i]].s
    BY <1>3 DEF Left
  <2>2. \A k \in 1 .. n : kept[q[k]].s = curr[m[k]].s
    BY <1>5, <2>1
  <2> QED BY <1>2, <2>2
<1>9. ASSUME NEW i \in 1 .. K PROVE kept[i].is_detected <=> \E k \in 1 .. n : q[k] = i
  <2>1. e[i] \in 1 .. L /\ kept[i].is_detected = curr[e[i]].is_detected
    BY <1>3 DEF Left
  <2>2. (\E k \in 1 .. n : q[k] = i) <=> (\E k \in 1 .. n : m[k] = e[i])
    BY <1>3, <1>5
  <2> QED BY <1>2, <2>1, <2>2
<1>10. Matches(q, new, n, kept)
  BY <1>1, <1>6, <1>7, <1>8, <1>9 DEF Matches
<1> QED BY <1>10

\* Names stay different.
LEMMA NamesStay ==
  ASSUME NEW curr \in Seq(Target), NamesDiffer(curr), NEW kept \in Seq(Target),
         \E e : Origin(e, kept, curr, Len(curr))
  PROVE  NamesDiffer(kept)
<1>1. PICK e : Origin(e, kept, curr, Len(curr))
  OBVIOUS
<1>2. DOMAIN curr = 1 .. Len(curr)
  OBVIOUS
<1>3. /\ \A i \in DOMAIN kept : e[i] \in DOMAIN curr /\ kept[i].track = curr[e[i]].track
      /\ \A i, j \in DOMAIN kept : e[i] = e[j] => i = j
  BY <1>1, <1>2 DEF Origin, Left
<1> QED BY <1>3 DEF NamesDiffer

\* One call: what it finds and what it keeps.
Call(new, n, curr) ==
  /\ n \in Nat /\ n <= MaxNew /\ new \in [1 .. n -> Distances]
  /\ curr \in Seq(Target) /\ Len(curr) <= MaxTargets /\ Found(curr, targets, new, n)
  /\ targets' \in Seq(Target) /\ Len(targets') <= Len(curr) /\ AllFit(targets')
  /\ \E e : Origin(e, targets', curr, Len(curr))
  /\ measured' = new

\* Every step is one.
LEMMA NextIsCall ==
  ASSUME TrackInv, Next
  PROVE  \E new, n, curr : Call(new, n, curr)
<1>1. PICK n \in 0 .. MaxNew : \E new \in [1 .. n -> Distances] :
        Len(DetectTargets(targets, new)) <= MaxTargets /\ GetTargets(new)
  BY DEF Next
<1>2. PICK new \in [1 .. n -> Distances] :
        Len(DetectTargets(targets, new)) <= MaxTargets /\ GetTargets(new)
  BY <1>1
<1>3. n \in Nat /\ n <= MaxNew
  BY TrackerAssumption
<1> DEFINE curr == DetectTargets(targets, new)
<1>4. Found(curr, targets, new, n)
  BY <1>3, DetectKeeps DEF TrackInv
<1>5. targets' = AgeTargets(curr) /\ measured' = new /\ Len(curr) <= MaxTargets
  BY <1>2 DEF GetTargets
<1> HIDE DEF curr
<1>6. curr \in Seq(Target) /\ AllFit(curr)
  BY <1>4 DEF Found
<1>7. Call(new, n, curr)
  BY <1>3, <1>4, <1>5, <1>6, AgesKeep DEF Call
<1> QED BY <1>7

\* At the start nothing is followed.
LEMMA InitTrack ==
  ASSUME Init
  PROVE  TrackInv
<1>1. DOMAIN targets = {} /\ DOMAIN measured = {} /\ targets \in Seq(Target) /\ Len(targets) = 0
  BY DEF Init
<1>2. 0 <= MaxTargets
  BY TrackerAssumption
<1>3. OneForOne
  <2>1. [k \in {} |-> 0] \in [{} -> {}]
    OBVIOUS
  <2> QED BY <1>1, <2>1 DEF OneForOne
<1> QED BY <1>1, <1>2, <1>3 DEF TrackInv, AllFit, NamesDiffer

\* A call keeps the invariant.
LEMMA StepTrack ==
  ASSUME TrackInv, Next
  PROVE  TrackInv'
<1>1. PICK new, n, curr : Call(new, n, curr)
  BY NextIsCall
<1>2. /\ n \in Nat /\ new \in [1 .. n -> Distances] /\ curr \in Seq(Target)
      /\ Len(curr) <= MaxTargets /\ Found(curr, targets, new, n)
      /\ targets' \in Seq(Target) /\ Len(targets') <= Len(curr) /\ AllFit(targets')
      /\ \E e : Origin(e, targets', curr, Len(curr))
      /\ measured' = new
  BY <1>1 DEF Call
<1>3. NamesDiffer(curr) /\ \E m : Matches(m, new, n, curr)
  BY <1>2 DEF Found
<1>4. Len(targets') <= MaxTargets
  BY <1>2, TrackerAssumption
<1>5. NamesDiffer(targets')
  BY <1>2, <1>3, NamesStay
<1>6. PICK q : Matches(q, new, n, targets')
  BY <1>2, <1>3, MatchedStay
<1>7. OneForOne'
  <2>1. DOMAIN measured' = 1 .. n
    BY <1>2
  <2> QED BY <1>2, <1>6, <2>1 DEF OneForOne, Matches
<1>8. AllFit(targets)' /\ NamesDiffer(targets)'
  BY <1>2, <1>5 DEF AllFit, NamesDiffer
<1> QED BY <1>2, <1>4, <1>7, <1>8 DEF TrackInv

\* A target is given up only when it was missed often enough.
LEMMA StepKeeps ==
  ASSUME TrackInv, Next
  PROVE  \A i \in DOMAIN targets : targets[i].misses + 1 < MaxCountLost =>
           \E j \in DOMAIN targets' : targets'[j].track = targets[i].track
<1> SUFFICES ASSUME NEW i \in DOMAIN targets, targets[i].misses + 1 < MaxCountLost
             PROVE  \E j \in DOMAIN targets' : targets'[j].track = targets[i].track
  OBVIOUS
<1>1. PICK new, n, curr : Call(new, n, curr)
  BY NextIsCall
<1>2. /\ curr \in Seq(Target) /\ Found(curr, targets, new, n)
      /\ \E e : Origin(e, targets', curr, Len(curr))
  BY <1>1 DEF Call
<1>3. targets \in Seq(Target) /\ Fits(targets[i], i)
  BY DEF TrackInv, AllFit
<1>4. /\ Len(targets) <= Len(curr) /\ curr[i].track = targets[i].track
      /\ curr[i].count_lost <= targets[i].count_lost
  BY <1>2 DEF Found
<1>5. i \in 1 .. Len(curr) /\ DOMAIN curr = 1 .. Len(curr)
  BY <1>2, <1>3, <1>4
<1>6. curr[i].count_lost + 1 # MaxCountLost
  <2>1. curr[i] \in Target /\ targets[i] \in Target
    BY <1>2, <1>3, <1>5
  <2>2. curr[i].count_lost \in Nat /\ targets[i].count_lost \in Nat /\ targets[i].misses \in Nat
    BY <2>1, TargetFields
  <2>3. targets[i].count_lost <= targets[i].misses
    BY <1>3 DEF Fits
  <2> DEFINE a == curr[i].count_lost
             b == targets[i].count_lost
             c == targets[i].misses
  <2>4. a \in Nat /\ b \in Nat /\ c \in Nat /\ MaxCountLost \in Nat /\ a <= b /\ b <= c /\ c + 1 < MaxCountLost
    BY <1>4, <2>2, <2>3, TrackerAssumption
  <2> HIDE DEF a, b, c
  <2>5. a + 1 # MaxCountLost
    BY <2>4
  <2> QED BY <2>5 DEF a
<1>7. PICK e : Origin(e, targets', curr, Len(curr))
  BY <1>2
<1>8. PICK j \in DOMAIN targets' : e[j] = i
  BY <1>5, <1>6, <1>7 DEF Origin
<1>9. targets'[j].track = curr[i].track
  BY <1>7, <1>8 DEF Origin, Left
<1> QED BY <1>4, <1>8, <1>9

-----------------------------------------------------------------------------
(***************************************************************************)
(* The theorems.                                                           *)
(***************************************************************************)
\* TrackInv holds always, for all distances, gates and numbers of losses.
THEOREM TrackerInvariant == Spec => []TrackInv
<1>1. Init => TrackInv
  BY InitTrack
<1>2. TrackInv /\ [Next]_vars => TrackInv'
  <2> SUFFICES ASSUME TrackInv, [Next]_vars PROVE TrackInv'
    OBVIOUS
  <2>1. CASE Next
    BY <2>1, StepTrack
  <2>2. CASE UNCHANGED vars
    BY <2>2 DEF vars, TrackInv, AllFit, NamesDiffer, OneForOne
  <2> QED BY <2>1, <2>2
<1> QED BY <1>1, <1>2, PTL DEF Spec

\* What was found and what is followed as detected are the same, one for one
\* (Processor.cpp:84-121, 36-47).
THEOREM OneForOneAlways == Spec => []OneForOne
<1>1. TrackInv => OneForOne
  BY DEF TrackInv
<1> QED BY <1>1, TrackerInvariant, PTL

\* A target that is gone is not reported for longer than MaxCountLost
\* measurements and one for each target before it (Processor.cpp:37-47).
THEOREM GhostsAlwaysLeave == Spec => []GhostsLeave
<1>1. TrackInv => GhostsLeave
  BY DEF TrackInv, AllFit, Fits, GhostsLeave
<1> QED BY <1>1, TrackerInvariant, PTL

\* A target stays until it was missed MaxCountLost times in a row
\* (Processor.cpp:40-45).
THEOREM NeverDroppedEarly == Spec => NotDroppedEarly
<1>1. TrackInv /\ [Next]_vars =>
        [\A i \in DOMAIN targets : targets[i].misses + 1 < MaxCountLost =>
           \E j \in DOMAIN targets' : targets'[j].track = targets[i].track]_vars
  BY StepKeeps
<1> QED BY <1>1, TrackerInvariant, PTL DEF Spec, NotDroppedEarly
=============================================================================
