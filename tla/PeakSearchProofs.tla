-------------------------- MODULE PeakSearchProofs --------------------------
(***************************************************************************)
(* What holds of the search for every sweep of every size, every aria and  *)
(* every limit of nearness: the search stays in the sweep, two maxima are  *)
(* twice the aria apart, and nothing stronger than a maximum is passed     *)
(* over.  For sweeps of up to 2^15 harmonics a maximum is told at its      *)
(* place as long as the search went right once at most, and for a limit of *)
(* up to two arias it becomes two targets at most with such maxima.        *)
(*                                                                         *)
(* The argument is about one part still to be searched: the maxima found   *)
(* are an aria away from it, and each place outside of it is covered by    *)
(* one of them at least as strong.  Splitting it at its own maximum keeps  *)
(* that for both parts.                                                    *)
(***************************************************************************)
EXTENDS PeakSearch, FiniteSetTheorems, WellFoundedInduction, TLAPS

Maximum == [harm : Nat, place : Harms, rights : Nat]
Part    == [first : Nat, end : Nat, ofst : Nat, rights : Nat]

\* A maximum of a sweep s, one of those found in it, ms, that stands between
\* the place p and whatever lies from place q to the right of it, or to the
\* left, and is as strong as p.
CoversLeft(m, s, p, q)  == p - Aria < m.place /\ m.place + Aria <= q /\ s[m.place] >= s[p]
CoversRight(m, s, p, q) == m.place <= p + Aria /\ q + Aria <= m.place /\ s[m.place] >= s[p]

\* A part still to be searched: the maxima found are an aria away from it, and
\* each place outside is covered by one of them.
PartFits(c, ms, s) ==
  /\ c.first <= c.end /\ c.end <= Size
  /\ \A i \in DOMAIN ms : ms[i].place + Aria <= c.first \/ c.end + Aria <= ms[i].place
  /\ \A p \in Harms : p < c.first => \E i \in DOMAIN ms : CoversLeft(ms[i], s, p, c.first)
  /\ \A p \in Harms : p >= c.end => \E i \in DOMAIN ms : CoversRight(ms[i], s, p, c.end)

\* The maxima found in a sweep: apart from each other, and what is stronger
\* than one is covered by another.
Between(p, q, r) == (p < q /\ q <= r + Aria) \/ (r - Aria < q /\ q < p)
MaximaFit(ms, s) ==
  /\ \A i, j \in DOMAIN ms : i # j => Distance(ms[i].place, ms[j].place) >= 2 * Aria
  /\ \A i \in DOMAIN ms, p \in Harms : s[p] > s[ms[i].place] =>
       \E j \in DOMAIN ms : Between(ms[i].place, ms[j].place, p) /\ s[ms[j].place] >= s[p]

PartsInOrder == \A i, j \in DOMAIN calls : i < j => calls[i].end + 2 * Aria <= calls[j].first

SearchTypes ==
  /\ \A s \in Sweeps : captureData[s] \in [Harms -> Nat]
  /\ sweep \in 1 .. 3 /\ (calls # <<>> => sweep \in Sweeps)
  /\ calls \in Seq(Part)
  /\ maximumes \in [Sweeps -> Seq(Maximum)]
  /\ sweep = 1 => maximumes[2] = <<>>

SearchInv ==
  /\ SearchTypes
  /\ PartsInOrder
  /\ \A k \in DOMAIN calls : PartFits(calls[k], maximumes[sweep], Spectrum)
  /\ \A s \in Sweeps : MaximaFit(maximumes[s], captureData[s])

USE PeakAssumption

-----------------------------------------------------------------------------
(***************************************************************************)
(* The greatest of a range.                                                *)
(***************************************************************************)
\* A set of numbers has a least one.
LEMMA LeastNumber ==
  ASSUME NEW T \in SUBSET Nat, T # {}
  PROVE  \E x \in T : \A y \in T : x <= y
<1>1. \E x \in T : \A y \in T : ~ (<<y, x>> \in OpToRel(<, Nat))
  BY NatLessThanWellFounded, WFMin
<1>2. \A x, y \in Nat : y < x => <<y, x>> \in OpToRel(<, Nat)
  BY DEF OpToRel
<1>3. \A x, y \in Nat : x <= y \/ y < x
  OBVIOUS
<1> QED BY <1>1, <1>2, <1>3

\* max_element finds the greatest of a range that is not empty: otherwise
\* there is a least number of places for which it does not.
LEMMA MaxElementIsGreatest ==
  ASSUME NEW s \in [Harms -> Nat], NEW a \in Nat, NEW b \in Nat, a < b, b <= Size
  PROVE  /\ MaxElement(s, a .. b - 1) \in a .. b - 1
         /\ \A q \in a .. b - 1 : s[q] <= s[MaxElement(s, a .. b - 1)]
<1> DEFINE First(p, n) == \A q \in a .. n : s[q] < s[p] \/ (s[q] = s[p] /\ p <= q)
           Bad == {n \in a .. b - 1 : ~ \E p \in a .. n : First(p, n)}
<1>1. \A q \in a .. b - 1 : q \in Harms /\ s[q] \in Nat
  BY DEF Harms
<1>2. Bad = {}
  <2> SUFFICES ASSUME Bad # {} PROVE FALSE
    OBVIOUS
  <2>1. Bad \in SUBSET Nat /\ Bad \subseteq a .. b - 1
    OBVIOUS
  <2>2. \A k \in a .. b - 1 : k \in Bad <=> ~ \E p \in a .. k : First(p, k)
    OBVIOUS
  <2> HIDE DEF Bad
  <2>n. PICK n \in Bad : \A k \in Bad : n <= k
    BY <2>1, LeastNumber
  <2>m. n \in a .. b - 1 /\ ~ \E p \in a .. n : First(p, n)
    BY <2>1, <2>2, <2>n
  <2>3. CASE n = a
    <3>1. First(a, n)
      BY <2>m, <2>3
    <3> QED BY <2>m, <2>3, <3>1
  <2>4. CASE n > a
    <3>1. n - 1 \in a .. b - 1 /\ ~(n <= n - 1)
      BY <2>m, <2>4
    <3>2. n - 1 \notin Bad
      BY <2>n, <3>1
    <3>3. PICK p \in a .. n - 1 : First(p, n - 1)
      BY <2>2, <3>1, <3>2
    <3>4. p \in a .. n /\ n \in a .. n /\ s[p] \in Nat /\ s[n] \in Nat
      BY <1>1, <2>m, <3>3
    <3>5. \A q \in a .. n : q = n \/ q \in a .. n - 1
      BY <2>m
    <3>t. \A q \in a .. n : q \in Int /\ s[q] \in Nat
      BY <1>1, <2>m
    <3>6. CASE s[n] > s[p]
      <4>1. ASSUME NEW q \in a .. n PROVE s[q] < s[n] \/ (s[q] = s[n] /\ n <= q)
        <5>1. CASE q \in a .. n - 1
          <6>1. s[q] <= s[p]
            BY <3>3, <3>4, <3>t, <5>1
          <6>2. s[q] \in Nat /\ s[p] \in Nat /\ s[n] \in Nat
            BY <3>4, <3>t
          <6>3. s[q] < s[n]
            BY <3>6, <6>1, <6>2
          <6> QED BY <6>3
        <5> QED BY <2>m, <3>5, <5>1
      <4> QED BY <2>m, <3>4, <4>1
    <3>7. CASE ~(s[n] > s[p])
      <4>1. ASSUME NEW q \in a .. n PROVE s[q] < s[p] \/ (s[q] = s[p] /\ p <= q)
        <5>1. CASE q = n
          <6>1. p <= n
            BY <2>m, <3>3
          <6>2. s[n] < s[p] \/ s[n] = s[p]
            BY <3>4, <3>7
          <6> QED BY <5>1, <6>1, <6>2
        <5> QED BY <3>3, <3>5, <5>1
      <4> QED BY <2>m, <3>4, <4>1
    <3> QED BY <3>6, <3>7
  <2> QED BY <2>m, <2>3, <2>4
<1>3. \E p \in a .. b - 1 : \A q \in a .. b - 1 : s[q] < s[p] \/ (s[q] = s[p] /\ p <= q)
  <2>1. b - 1 \in a .. b - 1 /\ b - 1 \notin Bad
    <3>1. b - 1 \in a .. b - 1
      OBVIOUS
    <3> HIDE DEF Bad
    <3> QED BY <1>2, <3>1
  <2> QED BY <2>1
<1> DEFINE m == MaxElement(s, a .. b - 1)
<1>4. m \in a .. b - 1 /\ \A q \in a .. b - 1 : s[q] < s[m] \/ (s[q] = s[m] /\ m <= q)
  BY <1>3 DEF MaxElement
<1> HIDE DEF m
<1>5. \A q \in a .. b - 1 : s[q] <= s[m]
  BY <1>1, <1>4
<1> QED BY <1>4, <1>5 DEF m

-----------------------------------------------------------------------------
(***************************************************************************)
(* Splitting a part at its maximum.                                        *)
(***************************************************************************)
\* A row of maxima with one more.
OneMore(ms2, ms, m) ==
  \E n \in Nat : /\ DOMAIN ms = 1 .. n /\ DOMAIN ms2 = 1 .. n + 1
                 /\ \A i \in 1 .. n : ms2[i] = ms[i]
                 /\ ms2[n + 1] = m

\* Append puts one more at the end.
LEMMA AppendIsOneMore ==
  ASSUME NEW ms \in Seq(Maximum), NEW m \in Maximum
  PROVE  OneMore(Append(ms, m), ms, m) /\ Append(ms, m) \in Seq(Maximum)
BY DEF OneMore

\* The part c has been split at the maximum m.
SplitAt(c, m, s) ==
  /\ m.place \in c.first .. c.end - 1
  /\ \A q \in c.first .. c.end - 1 : s[q] <= s[m.place]
  /\ AwayFromEnds(c, m.place)

\* What stays with the rows of maxima that only grow.
LEMMA MoreMaxima ==
  ASSUME NEW ms, NEW ms2, NEW m, OneMore(ms2, ms, m)
  PROVE  /\ \A i \in DOMAIN ms : i \in DOMAIN ms2 /\ ms2[i] = ms[i]
         /\ \E k \in DOMAIN ms2 : ms2[k] = m
         /\ \A i \in DOMAIN ms2 : i \in DOMAIN ms \/ ms2[i] = m
         /\ \A i, j \in DOMAIN ms2 : i # j => i \in DOMAIN ms \/ j \in DOMAIN ms
BY DEF OneMore

\* What holds of a part holds of the two it is split into.
LEMMA SplitPart ==
  ASSUME NEW s \in [Harms -> Nat], NEW ms, NEW ms2, NEW c \in Part, NEW m \in Maximum,
         NEW ofst, NEW rights,
         OneMore(ms2, ms, m), \A i \in DOMAIN ms : ms[i] \in Maximum,
         PartFits(c, ms, s), SplitAt(c, m, s)
  PROVE  /\ PartFits(Call(c.first, m.place - Aria, ofst, rights), ms2, s)
         /\ PartFits(Call(m.place + Aria, c.end, ofst, rights), ms2, s)
<1> DEFINE x == m.place
           l == Call(c.first, x - Aria, ofst, rights)
           r == Call(x + Aria, c.end, ofst, rights)
<1>1. x \in Harms /\ x \in Int /\ c.first \in Nat /\ c.end \in Nat /\ s[x] \in Nat
  BY DEF Maximum, Part, Harms
<1>2. c.first + Aria <= x /\ x + Aria <= c.end /\ c.first <= c.end /\ c.end <= Size
  BY <1>1 DEF SplitAt, AwayFromEnds, PartFits
<1>3. /\ \A i \in DOMAIN ms : i \in DOMAIN ms2 /\ ms2[i] = ms[i]
      /\ \E k \in DOMAIN ms2 : ms2[k] = m
      /\ \A i \in DOMAIN ms2 : i \in DOMAIN ms \/ ms2[i] = m
  BY MoreMaxima
<1>4. \A i \in DOMAIN ms : ms[i].place \in Int /\ s[ms[i].place] \in Nat
  BY DEF Maximum, Harms
<1>5. \A i \in DOMAIN ms : ms[i].place + Aria <= c.first \/ c.end + Aria <= ms[i].place
  BY DEF PartFits
<1>6. \A p \in Harms : p \in Int /\ s[p] \in Nat
  BY DEF Harms
<1>7. \A p \in Harms : p \in c.first .. c.end - 1 => s[p] <= s[x]
  BY DEF SplitAt
\* Where the part was bounded, its parts are.
<1>8. ASSUME NEW p \in Harms, p < c.first, NEW q \in Int, c.first <= q
      PROVE  \E i \in DOMAIN ms2 : CoversLeft(ms2[i], s, p, q)
  <2>1. PICK i \in DOMAIN ms : CoversLeft(ms[i], s, p, c.first)
    BY <1>8 DEF PartFits
  <2>2. CoversLeft(ms[i], s, p, q)
    BY <1>1, <1>4, <1>8, <2>1 DEF CoversLeft
  <2> QED BY <1>3, <2>2
<1>9. ASSUME NEW p \in Harms, p >= c.end, NEW q \in Int, q <= c.end
      PROVE  \E i \in DOMAIN ms2 : CoversRight(ms2[i], s, p, q)
  <2>1. PICK i \in DOMAIN ms : CoversRight(ms[i], s, p, c.end)
    BY <1>9 DEF PartFits
  <2>2. CoversRight(ms[i], s, p, q)
    BY <1>1, <1>4, <1>9, <2>1 DEF CoversRight
  <2> QED BY <1>3, <2>2
<1>10. PartFits(l, ms2, s)
  <2>1. l.first = c.first /\ l.end = x - Aria
    BY DEF Call
  <2> HIDE DEF l, x
  <2>2. l.first <= l.end /\ l.end <= Size
    BY <1>1, <1>2, <2>1
  <2>3. \A i \in DOMAIN ms2 : ms2[i].place + Aria <= l.first \/ l.end + Aria <= ms2[i].place
    BY <1>1, <1>2, <1>3, <1>4, <1>5, <2>1 DEF x
  <2>4. \A p \in Harms : p < l.first => \E i \in DOMAIN ms2 : CoversLeft(ms2[i], s, p, l.first)
    BY <1>1, <1>8, <2>1
  <2>5. ASSUME NEW p \in Harms, p >= l.end
        PROVE  \E i \in DOMAIN ms2 : CoversRight(ms2[i], s, p, l.end)
    <3>1. CASE p >= c.end
      BY <1>1, <1>2, <1>9, <2>1, <3>1
    <3>2. CASE p < c.end
      <4>1. s[p] <= s[x]
        BY <1>1, <1>2, <1>6, <1>7, <2>1, <2>5, <3>2
      <4>2. CoversRight(m, s, p, l.end)
        BY <1>1, <1>6, <2>1, <2>5, <4>1 DEF CoversRight, x
      <4> QED BY <1>3, <4>2
    <3> QED BY <1>1, <1>6, <3>1, <3>2
  <2> QED BY <2>2, <2>3, <2>4, <2>5 DEF PartFits
<1>11. PartFits(r, ms2, s)
  <2>1. r.first = x + Aria /\ r.end = c.end
    BY DEF Call
  <2> HIDE DEF r, x
  <2>2. r.first <= r.end /\ r.end <= Size
    BY <1>1, <1>2, <2>1
  <2>3. \A i \in DOMAIN ms2 : ms2[i].place + Aria <= r.first \/ r.end + Aria <= ms2[i].place
    BY <1>1, <1>2, <1>3, <1>4, <1>5, <2>1 DEF x
  <2>4. \A p \in Harms : p >= r.end => \E i \in DOMAIN ms2 : CoversRight(ms2[i], s, p, r.end)
    BY <1>1, <1>9, <2>1
  <2>5. ASSUME NEW p \in Harms, p < r.first
        PROVE  \E i \in DOMAIN ms2 : CoversLeft(ms2[i], s, p, r.first)
    <3>1. CASE p < c.first
      BY <1>1, <1>2, <1>8, <2>1, <3>1
    <3>2. CASE p >= c.first
      <4>1. s[p] <= s[x]
        BY <1>1, <1>2, <1>6, <1>7, <2>1, <2>5, <3>2
      <4>2. CoversLeft(m, s, p, r.first)
        BY <1>1, <1>6, <2>1, <2>5, <4>1 DEF CoversLeft, x
      <4> QED BY <1>3, <4>2
    <3> QED BY <1>1, <1>6, <3>1, <3>2
  <2> QED BY <2>2, <2>3, <2>4, <2>5 DEF PartFits
<1> QED BY <1>10, <1>11

\* Another part stays as it is.
LEMMA OtherPart ==
  ASSUME NEW s \in [Harms -> Nat], NEW ms, NEW ms2, NEW c \in Part, NEW d \in Part,
         NEW m \in Maximum, OneMore(ms2, ms, m), PartFits(d, ms, s), SplitAt(c, m, s),
         d.end + 2 * Aria <= c.first \/ c.end + 2 * Aria <= d.first
  PROVE  PartFits(d, ms2, s)
<1>1. /\ \A i \in DOMAIN ms : i \in DOMAIN ms2 /\ ms2[i] = ms[i]
      /\ \A i \in DOMAIN ms2 : i \in DOMAIN ms \/ ms2[i] = m
  BY MoreMaxima
<1>2. m.place + Aria <= d.first \/ d.end + Aria <= m.place
  <2>1. /\ m.place \in Int /\ c.first \in Nat /\ c.end \in Nat
        /\ d.first \in Nat /\ d.end \in Nat
    BY DEF Maximum, Harms, Part
  <2>2. m.place - c.first >= Aria /\ c.end - m.place >= Aria
    BY DEF SplitAt, AwayFromEnds
  <2> QED BY <2>1, <2>2
<1>3. d.first <= d.end /\ d.end <= Size
  BY DEF PartFits
<1>4. \A i \in DOMAIN ms2 : ms2[i].place + Aria <= d.first \/ d.end + Aria <= ms2[i].place
  BY <1>1, <1>2 DEF PartFits
<1>5. \A p \in Harms : p < d.first => \E i \in DOMAIN ms2 : CoversLeft(ms2[i], s, p, d.first)
  BY <1>1, Zenon DEF PartFits
<1>6. \A p \in Harms : p >= d.end => \E i \in DOMAIN ms2 : CoversRight(ms2[i], s, p, d.end)
  BY <1>1, Zenon DEF PartFits
<1> QED BY <1>3, <1>4, <1>5, <1>6 DEF PartFits

\* The maximum of a part is apart from those found, and what is stronger is
\* outside of the part, where it is covered.
LEMMA MaximaStayFit ==
  ASSUME NEW s \in [Harms -> Nat], NEW ms, NEW ms2, NEW c \in Part, NEW m \in Maximum,
         OneMore(ms2, ms, m), \A i \in DOMAIN ms : ms[i] \in Maximum,
         MaximaFit(ms, s), PartFits(c, ms, s), SplitAt(c, m, s)
  PROVE  MaximaFit(ms2, s)
<1>1. /\ \A i \in DOMAIN ms : i \in DOMAIN ms2 /\ ms2[i] = ms[i]
      /\ \A i \in DOMAIN ms2 : i \in DOMAIN ms \/ ms2[i] = m
      /\ \A i, j \in DOMAIN ms2 : i # j => i \in DOMAIN ms \/ j \in DOMAIN ms
  BY MoreMaxima
<1>2. m.place \in Int /\ c.first \in Nat /\ c.end \in Nat
  BY DEF Maximum, Harms, Part
<1>3. \A i \in DOMAIN ms : ms[i].place \in Int
  BY DEF Maximum, Harms
<1>4. m.place - c.first >= Aria /\ c.end - m.place >= Aria
  BY DEF SplitAt, AwayFromEnds
<1>5. ASSUME NEW i \in DOMAIN ms
      PROVE  /\ Distance(ms[i].place, m.place) >= 2 * Aria
             /\ Distance(m.place, ms[i].place) >= 2 * Aria
  <2>1. ms[i].place + Aria <= c.first \/ c.end + Aria <= ms[i].place
    BY DEF PartFits
  <2> QED BY <1>2, <1>3, <1>4, <2>1 DEF Distance
<1>6. ASSUME NEW i \in DOMAIN ms2, NEW j \in DOMAIN ms2, i # j
      PROVE  Distance(ms2[i].place, ms2[j].place) >= 2 * Aria
  <2>1. CASE i \in DOMAIN ms /\ j \in DOMAIN ms
    BY <1>1, <1>6, <2>1 DEF MaximaFit
  <2>2. CASE i \in DOMAIN ms /\ ms2[j] = m
    BY <1>1, <1>5, <2>2
  <2>3. CASE j \in DOMAIN ms /\ ms2[i] = m
    BY <1>1, <1>5, <2>3
  <2> QED BY <1>1, <1>6, <2>1, <2>2, <2>3
<1>7. ASSUME NEW i \in DOMAIN ms2, NEW p \in Harms, s[p] > s[ms2[i].place]
      PROVE  \E j \in DOMAIN ms2 : Between(ms2[i].place, ms2[j].place, p) /\ s[ms2[j].place] >= s[p]
  <2>p. p \in Int /\ s[p] \in Nat
    BY DEF Harms
  <2>1. CASE i \in DOMAIN ms
    <3>1. PICK j \in DOMAIN ms : Between(ms[i].place, ms[j].place, p) /\ s[ms[j].place] >= s[p]
      BY <1>1, <1>7, <2>1 DEF MaximaFit
    <3> QED BY <1>1, <2>1, <3>1
  <2>2. CASE ms2[i] = m
    <3>1. s[m.place] \in Nat
      BY DEF Maximum
    <3>2. p \notin c.first .. c.end - 1
      BY <1>7, <2>2, <2>p, <3>1 DEF SplitAt
    <3>3. CASE p < c.first
      <4>1. PICK j \in DOMAIN ms : CoversLeft(ms[j], s, p, c.first)
        BY <3>3 DEF PartFits
      <4>2. Between(m.place, ms[j].place, p) /\ s[ms[j].place] >= s[p]
        BY <1>2, <1>3, <1>4, <2>p, <4>1 DEF Between, CoversLeft
      <4> QED BY <1>1, <2>2, <4>2
    <3>4. CASE p >= c.end
      <4>1. PICK j \in DOMAIN ms : CoversRight(ms[j], s, p, c.end)
        BY <3>4 DEF PartFits
      <4>2. Between(m.place, ms[j].place, p) /\ s[ms[j].place] >= s[p]
        BY <1>2, <1>3, <1>4, <2>p, <4>1 DEF Between, CoversRight
      <4> QED BY <1>1, <2>2, <4>2
    <3> QED BY <1>2, <2>p, <3>2, <3>3, <3>4
  <2> QED BY <1>1, <2>1, <2>2
<1> QED BY <1>6, <1>7 DEF MaximaFit

-----------------------------------------------------------------------------
(***************************************************************************)
(* The search.                                                             *)
(***************************************************************************)
\* The stack with its first call split in two, and without its first call.
SplitStack(new, old, l, r) ==
  /\ Len(new) = Len(old) + 1 /\ new[1] = l /\ new[2] = r
  /\ \A k \in 3 .. Len(new) : new[k] = old[k - 1]
PoppedStack(new, old) ==
  /\ Len(new) = Len(old) - 1
  /\ \A k \in 1 .. Len(new) : new[k] = old[k + 1]

\* The stack after a call: its part replaced by two, or taken off.
LEMMA Stacks ==
  ASSUME NEW old \in Seq(Part), old # <<>>, NEW l \in Part, NEW r \in Part
  PROVE  /\ <<l, r>> \o Tail(old) \in Seq(Part) /\ SplitStack(<<l, r>> \o Tail(old), old, l, r)
         /\ Tail(old) \in Seq(Part) /\ PoppedStack(Tail(old), old)
         /\ Len(old) \in Nat /\ Len(old) >= 1 /\ Head(old) = old[1] /\ DOMAIN old = 1 .. Len(old)
<1>1. /\ Tail(old) \in Seq(Part) /\ Len(Tail(old)) = Len(old) - 1
      /\ \A k \in 1 .. Len(old) - 1 : Tail(old)[k] = old[k + 1]
      /\ Len(old) \in Nat /\ Len(old) >= 1 /\ Head(old) = old[1]
  OBVIOUS
<1> DEFINE t == Tail(old)
<1> HIDE DEF t
<1>2. <<l, r>> \o t \in Seq(Part) /\ SplitStack(<<l, r>> \o t, old, l, r)
  <2>1. t \in Seq(Part) /\ Len(t) = Len(old) - 1 /\ \A k \in 1 .. Len(old) - 1 : t[k] = old[k + 1]
    BY <1>1 DEF t
  <2>2. /\ <<l, r>> \o t \in Seq(Part) /\ Len(<<l, r>> \o t) = Len(t) + 2
        /\ (<<l, r>> \o t)[1] = l /\ (<<l, r>> \o t)[2] = r
        /\ \A k \in 3 .. Len(t) + 2 : (<<l, r>> \o t)[k] = t[k - 2]
    BY <2>1
  <2>3. \A k \in 3 .. Len(old) + 1 : t[k - 2] = old[k - 1]
    BY <1>1, <2>1
  <2> QED BY <1>1, <2>1, <2>2, <2>3 DEF SplitStack
<1> QED BY <1>1, <1>2 DEF t, PoppedStack

\* A call that finds a maximum: it goes to the others of the sweep, and the
\* two parts take the call's place.
Finds(m) ==
  /\ m \in Maximum /\ m.rights = Top.rights
  /\ m.harm = Ushort(Top.ofst + m.place - Top.first)
  /\ SplitAt(Top, m, Spectrum)
  /\ maximumes' = [maximumes EXCEPT ![sweep] = Append(@, m)]
  /\ calls' \in Seq(Part)
  /\ SplitStack(calls', calls, Left(Top, m.place), Right(Top, m.place, m.harm))
FindsNothing ==
  maximumes' = maximumes /\ calls' \in Seq(Part) /\ PoppedStack(calls', calls)

\* What is known when a call begins.
LEMMA CallBegins ==
  ASSUME SearchInv, calls # <<>>
  PROVE  /\ sweep \in Sweeps /\ Spectrum \in [Harms -> Nat] /\ Spectrum = captureData[sweep]
         /\ Top \in Part /\ Top = calls[1] /\ DOMAIN calls = 1 .. Len(calls)
         /\ Len(calls) \in Nat /\ Len(calls) >= 1
         /\ \A k \in DOMAIN calls : calls[k] \in Part
         /\ PartFits(Top, maximumes[sweep], Spectrum)
<1>1. calls \in Seq(Part) /\ sweep \in Sweeps /\ \A s \in Sweeps : captureData[s] \in [Harms -> Nat]
  BY DEF SearchInv, SearchTypes
<1>2. /\ Len(calls) \in Nat /\ Len(calls) >= 1 /\ Head(calls) = calls[1]
      /\ DOMAIN calls = 1 .. Len(calls) /\ \A k \in DOMAIN calls : calls[k] \in Part
  BY <1>1
<1>3. 1 \in DOMAIN calls
  BY <1>2
<1> QED BY <1>1, <1>2, <1>3 DEF Top, Spectrum, SearchInv

\* A call finds a maximum or nothing.
LEMMA SearchStep ==
  ASSUME SearchInv, SearchMaximums
  PROVE  FindsNothing \/ \E m : Finds(m)
<1>0. calls # <<>> /\ calls \in Seq(Part)
  BY DEF SearchMaximums, SearchInv, SearchTypes
<1>1. /\ sweep \in Sweeps /\ Spectrum \in [Harms -> Nat] /\ Top \in Part
      /\ PartFits(Top, maximumes[sweep], Spectrum)
  BY <1>0, CallBegins
<1>2. CASE Return
  <2>1. Tail(calls) \in Seq(Part) /\ PoppedStack(Tail(calls), calls)
    BY <1>0, <1>1, Stacks, Zenon
  <2> QED BY <1>2, <2>1, Zenon DEF Return, FindsNothing
<1>3. CASE ~Return
  <2> DEFINE max  == MaxElement(Spectrum, Places(Top))
             harm == Ushort(Top.ofst + max - Top.first)
             m    == [harm |-> harm, place |-> max, rights |-> Top.rights]
  <2>1. /\ Places(Top) # {} /\ AwayFromEnds(Top, max)
        /\ maximumes' = [maximumes EXCEPT ![sweep] = Append(@, m)]
        /\ calls' = <<Left(Top, max), Right(Top, max, harm)>> \o Tail(calls)
    BY <1>3 DEF SearchMaximums
  <2>2. Top.first \in Nat /\ Top.end \in Nat /\ Top.ofst \in Nat /\ Top.rights \in Nat /\ Top.end <= Size
    BY <1>1 DEF Part, PartFits
  <2>3. Top.first < Top.end
    BY <2>1, <2>2 DEF Places
  <2>4. max \in Top.first .. Top.end - 1 /\ \A q \in Top.first .. Top.end - 1 : Spectrum[q] <= Spectrum[max]
    BY <1>1, <2>2, <2>3, MaxElementIsGreatest DEF Places
  <2> HIDE DEF max
  <2>5. harm \in Nat
    BY <2>2, <2>4 DEF Ushort
  <2> HIDE DEF harm
  <2>6. /\ m \in Maximum /\ m.place = max /\ m.harm = harm /\ m.rights = Top.rights
        /\ SplitAt(Top, m, Spectrum)
    BY <2>1, <2>2, <2>4, <2>5 DEF Maximum, Harms, SplitAt
  <2>7. Left(Top, max) \in Part /\ Right(Top, max, harm) \in Part
    <3>1. /\ max - Aria \in Nat /\ max + Aria \in Nat /\ Top.ofst + harm + Aria \in Nat
          /\ Top.rights + 1 \in Nat
      <4>1. max \in Int /\ max - Top.first >= Aria
        BY <2>1, <2>2, <2>4 DEF AwayFromEnds
      <4> QED BY <2>2, <2>5, <4>1
    <3> QED BY <2>2, <3>1 DEF Left, Right, Call, Part
  <2>8. calls' \in Seq(Part) /\ SplitStack(calls', calls, Left(Top, max), Right(Top, max, harm))
    BY <1>0, <2>1, <2>7, Stacks, Zenon
  <2>9. m.harm = Ushort(Top.ofst + m.place - Top.first)
    BY <2>6 DEF harm
  <2> HIDE DEF m
  <2>10. Finds(m)
    BY <2>1, <2>6, <2>8, <2>9, Zenon DEF Finds
  <2> QED BY <2>10
<1> QED BY <1>2, <1>3

\* What a call that finds a maximum does to the rows of maxima.
LEMMA FoundRows ==
  ASSUME SearchInv, calls # <<>>, NEW m, Finds(m)
  PROVE  /\ maximumes' \in [Sweeps -> Seq(Maximum)]
         /\ OneMore(maximumes'[sweep], maximumes[sweep], m)
         /\ \A s \in Sweeps : s # sweep => maximumes'[s] = maximumes[s]
         /\ \A i \in DOMAIN maximumes[sweep] : maximumes[sweep][i] \in Maximum
<1>1. sweep \in Sweeps
  BY CallBegins
<1>2. maximumes \in [Sweeps -> Seq(Maximum)] /\ m \in Maximum
      /\ maximumes' = [maximumes EXCEPT ![sweep] = Append(maximumes[sweep], m)]
  BY DEF SearchInv, SearchTypes, Finds
<1>3. maximumes[sweep] \in Seq(Maximum)
  BY <1>1, <1>2
<1>4. OneMore(Append(maximumes[sweep], m), maximumes[sweep], m) /\ Append(maximumes[sweep], m) \in Seq(Maximum)
  BY <1>2, <1>3, AppendIsOneMore
<1>5. \A i \in DOMAIN maximumes[sweep] : maximumes[sweep][i] \in Maximum
  BY <1>3
<1> DEFINE more == Append(maximumes[sweep], m)
<1> HIDE DEF more
<1>6. maximumes' = [maximumes EXCEPT ![sweep] = more] /\ more \in Seq(Maximum)
      /\ OneMore(more, maximumes[sweep], m)
  BY <1>2, <1>4 DEF more
<1> QED BY <1>1, <1>2, <1>5, <1>6, Zenon

\* Each part still to be searched fits after a maximum was found.
LEMMA FoundKeepsParts ==
  ASSUME SearchInv, calls # <<>>, NEW m, Finds(m), NEW k \in DOMAIN calls'
  PROVE  PartFits(calls'[k], maximumes'[sweep], Spectrum)
<1> DEFINE ms == maximumes[sweep]
           ms2 == maximumes'[sweep]
<1>1. /\ Spectrum \in [Harms -> Nat] /\ Top \in Part /\ Top = calls[1]
      /\ DOMAIN calls = 1 .. Len(calls) /\ Len(calls) \in Nat /\ Len(calls) >= 1
      /\ \A j \in DOMAIN calls : calls[j] \in Part
      /\ PartFits(Top, ms, Spectrum)
  BY CallBegins
<1>2. OneMore(ms2, ms, m) /\ \A i \in DOMAIN ms : ms[i] \in Maximum
  BY FoundRows
<1>3. /\ m \in Maximum /\ SplitAt(Top, m, Spectrum)
      /\ calls' \in Seq(Part) /\ SplitStack(calls', calls, Left(Top, m.place), Right(Top, m.place, m.harm))
  BY DEF Finds
<1>4. /\ k \in 1 .. Len(calls) + 1
      /\ k = 1 => calls'[k] = Left(Top, m.place)
      /\ k = 2 => calls'[k] = Right(Top, m.place, m.harm)
      /\ k >= 3 => calls'[k] = calls[k - 1]
  <2>1. DOMAIN calls' = 1 .. Len(calls')
    BY <1>3
  <2> QED BY <1>1, <1>3, <2>1 DEF SplitStack
<1> HIDE DEF ms, ms2
<1>5. CASE k = 1
  <2>1. PartFits(Left(Top, m.place), ms2, Spectrum)
    BY <1>1, <1>2, <1>3, SplitPart, Zenon DEF Left
  <2> QED BY <1>4, <1>5, <2>1 DEF ms2
<1>6. CASE k = 2
  <2>1. PartFits(Right(Top, m.place, m.harm), ms2, Spectrum)
    BY <1>1, <1>2, <1>3, SplitPart, Zenon DEF Right
  <2> QED BY <1>4, <1>6, <2>1 DEF ms2
<1>7. CASE k >= 3
  <2>1. k - 1 \in DOMAIN calls /\ 1 \in DOMAIN calls /\ 1 < k - 1
    BY <1>1, <1>4, <1>7
  <2>2. calls[1].end + 2 * Aria <= calls[k - 1].first
    BY <2>1 DEF SearchInv, PartsInOrder
  <2>3. PartFits(calls[k - 1], ms, Spectrum) /\ calls[k - 1] \in Part
    BY <1>1, <2>1 DEF SearchInv, ms
  <2>4. PartFits(calls[k - 1], ms2, Spectrum)
    BY <1>1, <1>2, <1>3, <2>2, <2>3, OtherPart, Zenon
  <2> QED BY <1>4, <1>7, <2>4 DEF ms2
<1> QED BY <1>4, <1>5, <1>6, <1>7

\* The parts stay in order.
LEMMA FoundKeepsOrder ==
  ASSUME SearchInv, calls # <<>>, NEW m, Finds(m)
  PROVE  PartsInOrder'
<1>1. /\ Top \in Part /\ Top = calls[1]
      /\ DOMAIN calls = 1 .. Len(calls) /\ Len(calls) \in Nat /\ Len(calls) >= 1
      /\ \A j \in DOMAIN calls : calls[j] \in Part
  BY CallBegins
<1>2. /\ m \in Maximum /\ SplitAt(Top, m, Spectrum)
      /\ calls' \in Seq(Part) /\ SplitStack(calls', calls, Left(Top, m.place), Right(Top, m.place, m.harm))
  BY DEF Finds
<1>3. DOMAIN calls' = 1 .. Len(calls) + 1 /\ Len(calls') = Len(calls) + 1
  BY <1>1, <1>2 DEF SplitStack
<1>4. /\ m.place \in Int /\ Top.first \in Nat /\ Top.end \in Nat
      /\ m.place - Top.first >= Aria /\ Top.end - m.place >= Aria
  BY <1>1, <1>2 DEF Maximum, Harms, Part, SplitAt, AwayFromEnds
<1>5. /\ calls'[1].end = m.place - Aria
      /\ calls'[2].first = m.place + Aria /\ calls'[2].end = Top.end
  BY <1>2 DEF SplitStack, Left, Right, Call
<1>6. \A k \in 3 .. Len(calls) + 1 : calls'[k] = calls[k - 1] /\ k - 1 \in 2 .. Len(calls)
  BY <1>1, <1>2, <1>3 DEF SplitStack
<1>7. \A i, j \in 1 .. Len(calls) : i < j => calls[i].end + 2 * Aria <= calls[j].first
  BY <1>1 DEF SearchInv, PartsInOrder
<1>8. \A j \in 1 .. Len(calls) : calls[j].first \in Nat /\ calls[j].end \in Nat
  BY <1>1 DEF Part
<1>9. ASSUME NEW i \in 1 .. Len(calls) + 1, NEW j \in 1 .. Len(calls) + 1, i < j
      PROVE  calls'[i].end + 2 * Aria <= calls'[j].first
  <2>1. CASE i = 1 /\ j = 2
    BY <1>4, <1>5, <2>1
  <2>2. CASE i \in {1, 2} /\ j >= 3
    <3>1. calls'[j] = calls[j - 1] /\ j - 1 \in 2 .. Len(calls)
      BY <1>6, <2>2
    <3>2. Top.end + 2 * Aria <= calls[j - 1].first
      BY <1>1, <1>7, <3>1
    <3>3. calls'[i].end <= Top.end /\ calls'[i].end \in Int
      BY <1>4, <1>5, <2>2
    <3>4. calls[j - 1].first \in Nat
      BY <1>8, <3>1
    <3> QED BY <1>4, <3>1, <3>2, <3>3, <3>4, SMTT(30)
  <2>3. CASE i >= 3
    <3>1. calls'[i] = calls[i - 1] /\ calls'[j] = calls[j - 1]
          /\ i - 1 \in 1 .. Len(calls) /\ j - 1 \in 1 .. Len(calls) /\ i - 1 < j - 1
      BY <1>6, <1>9, <2>3
    <3> QED BY <1>7, <3>1
  <2> QED BY <1>9, <2>1, <2>2, <2>3
<1> QED BY <1>3, <1>9 DEF PartsInOrder

\* A call that finds a maximum keeps the invariant.
LEMMA FoundKeepsSearch ==
  ASSUME SearchInv, calls # <<>>, NEW m, Finds(m),
         UNCHANGED <<captureData, sweep>>
  PROVE  SearchInv'
<1>1. /\ sweep \in Sweeps /\ Spectrum \in [Harms -> Nat] /\ Spectrum = captureData[sweep]
      /\ Top \in Part /\ PartFits(Top, maximumes[sweep], Spectrum)
  BY CallBegins
<1>2. /\ maximumes' \in [Sweeps -> Seq(Maximum)]
      /\ OneMore(maximumes'[sweep], maximumes[sweep], m)
      /\ \A s \in Sweeps : s # sweep => maximumes'[s] = maximumes[s]
      /\ \A i \in DOMAIN maximumes[sweep] : maximumes[sweep][i] \in Maximum
  BY FoundRows
<1>3. calls' \in Seq(Part) /\ m \in Maximum /\ SplitAt(Top, m, Spectrum)
  BY DEF Finds
<1>4. SearchTypes'
  <2>1. sweep = 1 => maximumes'[2] = <<>>
    BY <1>2 DEF SearchInv, SearchTypes, Sweeps
  <2> QED BY <1>1, <1>2, <1>3, <2>1 DEF SearchInv, SearchTypes
<1>5. PartsInOrder'
  BY FoundKeepsOrder
<1>6. \A k \in DOMAIN calls' : PartFits(calls'[k], maximumes'[sweep'], Spectrum')
  <2>1. Spectrum' = Spectrum /\ sweep' = sweep
    BY DEF Spectrum
  <2> QED BY <2>1, FoundKeepsParts
<1>7. \A s \in Sweeps : MaximaFit(maximumes'[s], captureData'[s])
  <2>1. MaximaFit(maximumes[sweep], Spectrum)
    BY <1>1 DEF SearchInv
  <2>2. MaximaFit(maximumes'[sweep], Spectrum)
    BY <1>1, <1>2, <1>3, <2>1, MaximaStayFit, Zenon
  <2>3. \A s \in Sweeps : s # sweep => MaximaFit(maximumes'[s], captureData[s])
    BY <1>2 DEF SearchInv
  <2> QED BY <1>1, <2>2, <2>3
<1> QED BY <1>4, <1>5, <1>6, <1>7 DEF SearchInv

\* So does one that finds nothing.
LEMMA PoppedKeepsSearch ==
  ASSUME SearchInv, calls # <<>>, FindsNothing, UNCHANGED <<captureData, sweep>>
  PROVE  SearchInv'
<1>1. /\ sweep \in Sweeps /\ DOMAIN calls = 1 .. Len(calls)
      /\ Len(calls) \in Nat /\ Len(calls) >= 1
  BY CallBegins
<1>2. maximumes' = maximumes /\ calls' \in Seq(Part) /\ PoppedStack(calls', calls)
  BY DEF FindsNothing
<1>3. /\ DOMAIN calls' = 1 .. Len(calls) - 1
      /\ \A k \in 1 .. Len(calls) - 1 : calls'[k] = calls[k + 1] /\ k + 1 \in 1 .. Len(calls)
  BY <1>1, <1>2 DEF PoppedStack
<1>4. SearchTypes'
  BY <1>1, <1>2 DEF SearchInv, SearchTypes
<1>5. PartsInOrder'
  <2> SUFFICES ASSUME NEW i \in 1 .. Len(calls) - 1, NEW j \in 1 .. Len(calls) - 1, i < j
               PROVE  calls'[i].end + 2 * Aria <= calls'[j].first
    BY <1>3 DEF PartsInOrder
  <2>1. calls[i + 1].end + 2 * Aria <= calls[j + 1].first
    <3>1. i + 1 \in DOMAIN calls /\ j + 1 \in DOMAIN calls /\ i + 1 < j + 1
      BY <1>1
    <3> QED BY <3>1 DEF SearchInv, PartsInOrder
  <2> QED BY <1>3, <2>1
<1>6. \A k \in DOMAIN calls' : PartFits(calls'[k], maximumes'[sweep'], Spectrum')
  <2>1. Spectrum' = Spectrum /\ sweep' = sweep
    BY DEF Spectrum
  <2> QED BY <1>1, <1>2, <1>3, <2>1 DEF SearchInv
<1>7. \A s \in Sweeps : MaximaFit(maximumes'[s], captureData'[s])
  BY <1>2 DEF SearchInv
<1> QED BY <1>4, <1>5, <1>6, <1>7 DEF SearchInv

\* The whole sweep, before anything was found in it.
LEMMA WholeFits ==
  ASSUME NEW s
  PROVE  PartFits(Whole, <<>>, s) /\ <<Whole>> \in Seq(Part)
<1>1. Whole.first = 0 /\ Whole.end = Size /\ Whole \in Part
  BY DEF Whole, Call, Part
<1> HIDE DEF Whole
<1> QED BY <1>1 DEF PartFits, Harms

\* Every step keeps it.
LEMMA StepKeepsSearch ==
  ASSUME SearchInv, [Next]_vars
  PROVE  SearchInv'
<1>1. CASE SearchMaximums
  <2>1. calls # <<>> /\ UNCHANGED <<captureData, sweep>>
    BY <1>1 DEF SearchMaximums
  <2> QED BY <1>1, <2>1, SearchStep, FoundKeepsSearch, PoppedKeepsSearch
<1>2. CASE NextSweep
  <2>1. /\ sweep = 1 /\ sweep' = 2 /\ calls' = <<Whole>>
        /\ captureData' = captureData /\ maximumes' = maximumes
    BY <1>2 DEF NextSweep
  <2>2. maximumes[2] = <<>> /\ <<Whole>> \in Seq(Part)
    BY <2>1, WholeFits DEF SearchInv, SearchTypes
  <2>3. SearchTypes'
    BY <2>1, <2>2 DEF SearchInv, SearchTypes, Sweeps
  <2>4. DOMAIN calls' = {1} /\ calls'[1] = Whole
    BY <2>1
  <2>5. PartsInOrder'
    BY <2>4 DEF PartsInOrder
  <2>6. \A k \in DOMAIN calls' : PartFits(calls'[k], maximumes'[sweep'], Spectrum')
    BY <2>1, <2>2, <2>4, WholeFits
  <2> QED BY <2>1, <2>3, <2>5, <2>6 DEF SearchInv
<1>3. CASE GetTargets
  <2>1. /\ calls = <<>> /\ sweep = 2 /\ sweep' = 3 /\ calls' = calls
        /\ captureData' = captureData /\ maximumes' = maximumes
    BY <1>3 DEF GetTargets
  <2>2. SearchTypes' /\ DOMAIN calls' = {}
    BY <2>1 DEF SearchInv, SearchTypes
  <2> QED BY <2>1, <2>2 DEF SearchInv, PartsInOrder
<1>4. CASE UNCHANGED vars
  BY <1>4 DEF vars, SearchInv, SearchTypes, PartsInOrder, Spectrum
<1> QED BY <1>1, <1>2, <1>3, <1>4 DEF Next

\* The search starts with the whole sweep.
LEMMA InitSearch == Init => SearchInv
<1> SUFFICES ASSUME Init PROVE SearchInv
  OBVIOUS
<1>1. PICK rise \in Rises, fall \in Falls : captureData = <<rise, fall>>
  BY DEF Init
<1>2. \A s \in Sweeps : captureData[s] \in [Harms -> Nat]
  BY <1>1 DEF Sweeps
<1>3. sweep = 1 /\ calls = <<Whole>> /\ DOMAIN calls = {1} /\ calls[1] = Whole
  BY DEF Init
<1>4. maximumes = <<<<>>, <<>>>> /\ \A s \in Sweeps : maximumes[s] = <<>>
  BY DEF Init, Sweeps
<1>5. maximumes \in [Sweeps -> Seq(Maximum)]
  <2>1. <<>> \in Seq(Maximum)
    OBVIOUS
  <2> DEFINE none == <<>>
             rows == Seq(Maximum)
  <2> HIDE DEF none, rows
  <2>2. none \in rows => <<none, none>> \in [1 .. 2 -> rows]
    OBVIOUS
  <2>3. 1 .. 2 = Sweeps
    BY DEF Sweeps
  <2> QED BY <1>4, <2>1, <2>2, <2>3 DEF none, rows
<1>6. SearchTypes
  <2>1. calls \in Seq(Part)
    BY <1>3, WholeFits
  <2> QED BY <1>2, <1>3, <1>4, <1>5, <2>1 DEF SearchTypes, Sweeps
<1>7. \A k \in DOMAIN calls : PartFits(calls[k], maximumes[sweep], Spectrum)
  BY <1>3, <1>4, WholeFits DEF Sweeps
<1>8. PartsInOrder
  BY <1>3 DEF PartsInOrder
<1>9. \A s \in Sweeps : MaximaFit(maximumes[s], captureData[s])
  BY <1>4 DEF MaximaFit
<1> QED BY <1>6, <1>7, <1>8, <1>9 DEF SearchInv

\* The parts still to be searched are bounded by maxima, and the maxima found
\* are apart and cover what is stronger.
THEOREM SearchInvariant == Spec => []SearchInv
<1>1. SearchInv /\ [Next]_vars => SearchInv'
  BY StepKeepsSearch
<1> QED BY <1>1, InitSearch, PTL DEF Spec

\* The search never leaves the sweep, and its parts stay in order and two
\* arias apart (SweepRadar.cpp:72-119), whatever the sweeps hold.
THEOREM SearchTypeCorrect == Spec => []TypeOK
<1>1. SearchInv => TypeOK
  <2> SUFFICES ASSUME SearchInv PROVE TypeOK
    OBVIOUS
  <2>1. SearchTypes /\ calls \in Seq(Part) /\ maximumes \in [Sweeps -> Seq(Maximum)]
    BY DEF SearchInv, SearchTypes
  <2>2. DOMAIN calls = 1 .. Len(calls) /\ Len(calls) \in Nat /\ \A i \in DOMAIN calls : calls[i] \in Part
    BY <2>1
  <2>3. ASSUME NEW i \in DOMAIN calls
        PROVE  /\ 0 <= calls[i].first /\ calls[i].first <= calls[i].end /\ calls[i].end <= Size
               /\ i < Len(calls) => calls[i].end + 2 * Aria <= calls[i + 1].first
    <3>1. 0 <= calls[i].first
      BY <2>2 DEF Part
    <3>2. calls[i].first <= calls[i].end /\ calls[i].end <= Size
      BY DEF SearchInv, PartFits
    <3>3. i < Len(calls) => i + 1 \in DOMAIN calls /\ i < i + 1
      BY <2>2
    <3> QED BY <3>1, <3>2, <3>3 DEF SearchInv, PartsInOrder
  <2>4. ASSUME NEW s \in Sweeps, NEW i \in DOMAIN maximumes[s] PROVE maximumes[s][i].place \in Harms
    <3>1. maximumes[s] \in Seq(Maximum)
      BY <2>1
    <3>2. maximumes[s][i] \in Maximum
      BY <3>1
    <3> QED BY <3>2 DEF Maximum
  <2> QED BY <2>1, <2>3, <2>4 DEF SearchTypes, TypeOK
<1> QED BY <1>1, SearchInvariant, PTL

\* Two maxima of a sweep are two arias apart (77), whatever the sweeps hold
\* and however the recursion went.
THEOREM MaximaAlwaysApart == Spec => []MaximaApart
<1>1. SearchInv => MaximaApart
  BY DEF SearchInv, MaximaFit, MaximaApart
<1> QED BY <1>1, SearchInvariant, PTL

\* Nothing stronger than a maximum is passed over: it is next to another
\* maximum that is as strong, or behind one (72-119).
THEOREM StrongerAlwaysFound == Spec => []StrongerIsFound
<1>1. SearchInv => StrongerIsFound
  BY DEF SearchInv, MaximaFit, StrongerIsFound, Between
<1> QED BY <1>1, SearchInvariant, PTL

-----------------------------------------------------------------------------
(***************************************************************************)
(* Where maxima are told to be.  SweepRadar keeps harmonics in 16 bits;    *)
(* its sweeps have 1024 points.                                            *)
(***************************************************************************)
\* What a part adds to the places of its maxima: nothing, until the search
\* has gone right twice.
OffsetFits(c) ==
  /\ c.rights = 0 => c.first = 0 /\ c.ofst = 0
  /\ c.rights = 1 => c.ofst = c.first /\ c.first >= Aria
  /\ c.rights = 2 => c.ofst > c.first /\ c.ofst <= c.first + Size
PlaceFits(m) ==
  /\ m.rights < 2 => m.harm = m.place /\ m.place \in Aria .. Size - Aria
  /\ m.rights = 2 => m.harm > m.place

PlaceInv ==
  /\ \A k \in DOMAIN calls : OffsetFits(calls[k])
  /\ \A s \in Sweeps : \A i \in DOMAIN maximumes[s] : PlaceFits(maximumes[s][i])

\* A part of which all is told right tells its maximum right, and its parts.
LEMMA OffsetsOfParts ==
  ASSUME Size <= 32768, NEW s, NEW c \in Part, NEW m \in Maximum,
         c.end <= Size, SplitAt(c, m, s), OffsetFits(c),
         m.rights = c.rights, m.harm = Ushort(c.ofst + m.place - c.first)
  PROVE  /\ PlaceFits(m)
         /\ OffsetFits(Left(c, m.place)) /\ OffsetFits(Right(c, m.place, m.harm))
<1>1. /\ m.place \in Int /\ m.place - c.first >= Aria /\ c.end - m.place >= Aria
      /\ c.first \in Nat /\ c.end \in Nat /\ c.ofst \in Nat /\ c.rights \in Nat
  BY DEF Maximum, Harms, Part, SplitAt, AwayFromEnds
<1>2. m.place \in Aria .. Size - Aria
  BY <1>1
<1>3. c.rights < 2 => m.harm = m.place
  <2>1. c.rights < 2 => c.ofst = c.first
    BY <1>1 DEF OffsetFits
  <2>2. c.rights < 2 => c.ofst + m.place - c.first = m.place
    BY <1>1, <2>1
  <2>3. m.place % 65536 = m.place
    BY <1>1
  <2> QED BY <2>2, <2>3 DEF Ushort
<1>4. c.rights = 2 => m.harm > m.place
  <2> SUFFICES ASSUME c.rights = 2 PROVE m.harm > m.place
    OBVIOUS
  <2>1. c.ofst > c.first /\ c.ofst <= c.first + Size
    BY DEF OffsetFits
  <2>2. c.ofst + m.place - c.first \in m.place + 1 .. 65535 /\ m.place >= 0
    BY <1>1, <2>1
  <2>3. (c.ofst + m.place - c.first) % 65536 = c.ofst + m.place - c.first
    BY <1>1, <2>2
  <2> QED BY <1>1, <2>2, <2>3 DEF Ushort
<1>5. PlaceFits(m)
  BY <1>2, <1>3, <1>4 DEF PlaceFits
<1>6. OffsetFits(Left(c, m.place))
  <2>1. /\ Left(c, m.place).first = c.first /\ Left(c, m.place).ofst = c.ofst
        /\ Left(c, m.place).rights = c.rights
    BY DEF Left, Call
  <2> QED BY <2>1 DEF OffsetFits
<1>7. OffsetFits(Right(c, m.place, m.harm))
  <2> DEFINE r == Right(c, m.place, m.harm)
  <2>1. /\ r.first = m.place + Aria /\ r.ofst = c.ofst + m.harm + Aria
        /\ r.rights = c.rights + 1
    BY DEF Right, Call
  <2> HIDE DEF r
  <2>2. r.rights # 0
    BY <1>1, <2>1
  <2>3. r.rights = 1 => r.ofst = r.first /\ r.first >= Aria
    <3>1. r.rights = 1 => c.ofst = 0 /\ m.harm = m.place
      BY <1>1, <1>3, <2>1 DEF OffsetFits
    <3> QED BY <1>1, <2>1, <3>1
  <2>4. r.rights = 2 => r.ofst > r.first /\ r.ofst <= r.first + Size
    <3>1. r.rights = 2 => c.ofst = c.first /\ c.first >= Aria /\ m.harm = m.place
      BY <1>1, <1>3, <2>1 DEF OffsetFits
    <3> QED BY <1>1, <2>1, <3>1
  <2> QED BY <2>2, <2>3, <2>4 DEF OffsetFits, r
<1> QED BY <1>5, <1>6, <1>7

\* A step keeps the offsets of the parts and the places told.
LEMMA StepKeepsPlace ==
  ASSUME Size <= 32768, SearchInv, PlaceInv, [Next]_vars
  PROVE  PlaceInv'
<1>1. ASSUME calls # <<>>, UNCHANGED sweep, NEW m, Finds(m)
      PROVE  PlaceInv'
  <2>1. /\ sweep \in Sweeps /\ Top \in Part /\ Top = calls[1]
        /\ DOMAIN calls = 1 .. Len(calls) /\ Len(calls) \in Nat /\ Len(calls) >= 1
        /\ PartFits(Top, maximumes[sweep], Spectrum)
    BY <1>1, CallBegins
  <2>2. /\ m \in Maximum /\ SplitAt(Top, m, Spectrum) /\ m.rights = Top.rights
        /\ m.harm = Ushort(Top.ofst + m.place - Top.first)
        /\ calls' \in Seq(Part) /\ SplitStack(calls', calls, Left(Top, m.place), Right(Top, m.place, m.harm))
    BY <1>1 DEF Finds
  <2>3. Top.end <= Size /\ OffsetFits(Top)
    BY <2>1 DEF PartFits, PlaceInv
  <2>4. PlaceFits(m) /\ OffsetFits(Left(Top, m.place)) /\ OffsetFits(Right(Top, m.place, m.harm))
    BY <2>1, <2>2, <2>3, OffsetsOfParts
  <2>5. /\ OneMore(maximumes'[sweep], maximumes[sweep], m)
        /\ \A s \in Sweeps : s # sweep => maximumes'[s] = maximumes[s]
    BY <1>1, FoundRows
  <2>6. ASSUME NEW k \in DOMAIN calls' PROVE OffsetFits(calls'[k])
    <3>1. DOMAIN calls' = 1 .. Len(calls) + 1
      BY <2>1, <2>2 DEF SplitStack
    <3>2. k \in {1, 2} => OffsetFits(calls'[k])
      BY <2>2, <2>4 DEF SplitStack
    <3>3. k >= 3 => calls'[k] = calls[k - 1] /\ k - 1 \in DOMAIN calls
      BY <2>1, <2>2, <3>1 DEF SplitStack
    <3> QED BY <3>1, <3>2, <3>3 DEF PlaceInv
  <2>7. ASSUME NEW s \in Sweeps, NEW i \in DOMAIN maximumes'[s] PROVE PlaceFits(maximumes'[s][i])
    <3>1. CASE s = sweep
      <4>1. i \in DOMAIN maximumes[sweep] \/ maximumes'[sweep][i] = m
        BY <2>5, <3>1, MoreMaxima
      <4>2. i \in DOMAIN maximumes[sweep] => maximumes'[sweep][i] = maximumes[sweep][i]
        BY <2>5, MoreMaxima
      <4> QED BY <2>1, <2>4, <3>1, <4>1, <4>2 DEF PlaceInv
    <3>2. CASE s # sweep
      BY <2>5, <3>2 DEF PlaceInv
    <3> QED BY <3>1, <3>2
  <2> QED BY <2>6, <2>7 DEF PlaceInv
<1>2. ASSUME calls # <<>>, FindsNothing PROVE PlaceInv'
  <2>1. DOMAIN calls = 1 .. Len(calls) /\ Len(calls) \in Nat /\ Len(calls) >= 1
    BY <1>2, CallBegins
  <2>2. maximumes' = maximumes /\ calls' \in Seq(Part) /\ PoppedStack(calls', calls)
    BY <1>2 DEF FindsNothing
  <2>3. \A k \in DOMAIN calls' : k + 1 \in DOMAIN calls /\ calls'[k] = calls[k + 1]
    BY <2>1, <2>2 DEF PoppedStack
  <2> QED BY <2>2, <2>3 DEF PlaceInv
<1>3. CASE SearchMaximums
  <2>1. calls # <<>> /\ UNCHANGED sweep
    BY <1>3 DEF SearchMaximums
  <2> QED BY <1>1, <1>2, <1>3, <2>1, SearchStep
<1>4. CASE NextSweep
  <2>1. calls' = <<Whole>> /\ maximumes' = maximumes
    BY <1>4 DEF NextSweep
  <2>2. DOMAIN calls' = {1} /\ calls'[1] = Whole /\ OffsetFits(Whole)
    BY <2>1 DEF OffsetFits, Whole, Call
  <2> QED BY <2>1, <2>2 DEF PlaceInv
<1>5. CASE GetTargets
  BY <1>5 DEF GetTargets, PlaceInv
<1>6. CASE UNCHANGED vars
  BY <1>6 DEF vars, PlaceInv
<1> QED BY <1>3, <1>4, <1>5, <1>6 DEF Next

\* The whole sweep has no offset.
LEMMA InitPlace == Init => PlaceInv
<1> SUFFICES ASSUME Init PROVE PlaceInv
  OBVIOUS
<1>1. DOMAIN calls = {1} /\ calls[1] = Whole /\ OffsetFits(Whole)
  BY DEF Init, OffsetFits, Whole, Call
<1>2. \A s \in Sweeps : maximumes[s] = <<>>
  BY DEF Init, Sweeps
<1> QED BY <1>1, <1>2 DEF PlaceInv

\* A maximum is reported at its place, inside of the sweep, as long as the
\* search went right once at most, and too far out behind the second descent
\* (119, 125-127).  The 1024 points of a sweep are far below the bound.
THEOREM PlaceAlwaysTold ==
  ASSUME Size <= 32768
  PROVE  Spec => []PlaceIsTold
<1>1. SearchInv /\ PlaceInv /\ [Next]_vars => PlaceInv'
  BY StepKeepsPlace
<1>2. PlaceInv => PlaceIsTold
  BY DEF PlaceInv, PlaceFits, PlaceIsTold
<1> QED BY <1>1, <1>2, InitPlace, SearchInvariant, PTL DEF Spec

-----------------------------------------------------------------------------
(***************************************************************************)
(* The targets.                                                            *)
(***************************************************************************)
\* Targets are pairs of near maxima, made when both sweeps have been searched.
TargetsInv ==
  /\ sweep # 3 => targets = {}
  /\ \A t \in targets : /\ t \in (DOMAIN maximumes[1]) \X (DOMAIN maximumes[2])
                        /\ AreNear(maximumes[1][t[1]], maximumes[2][t[2]])

\* A target stays a pair of near maxima.
LEMMA StepKeepsTargets ==
  ASSUME SearchInv, TargetsInv, [Next]_vars
  PROVE  TargetsInv'
<1>1. CASE SearchMaximums
  <2>1. sweep \in Sweeps /\ sweep' = sweep /\ targets' = targets
    BY <1>1, CallBegins DEF SearchMaximums
  <2> QED BY <2>1 DEF TargetsInv, Sweeps
<1>2. CASE NextSweep
  BY <1>2 DEF NextSweep, TargetsInv
<1>3. CASE GetTargets
  BY <1>3 DEF GetTargets, TargetsInv
<1>4. CASE UNCHANGED vars
  BY <1>4 DEF vars, TargetsInv
<1> QED BY <1>1, <1>2, <1>3, <1>4 DEF Next

\* A set without three different elements.
LEMMA TwoElements ==
  ASSUME NEW S, \A a, b, c \in S : a = b \/ b = c \/ a = c
  PROVE  Cardinality(S) <= 2
<1>1. CASE S = {}
  BY <1>1, FS_EmptySet
<1>2. CASE S # {}
  <2>1. PICK a \in S : TRUE
    BY <1>2
  <2>2. IsFiniteSet({a}) /\ Cardinality({a}) = 1
    BY FS_Singleton
  <2>3. CASE S = {a}
    BY <2>2, <2>3
  <2>4. CASE S # {a}
    <3>1. PICK b \in S : b # a
      BY <2>1, <2>4
    <3>2. S = {a} \cup {b}
      BY <2>1, <3>1
    <3>3. Cardinality({a} \cup {b}) = 2
      <4>1. b \notin {a}
        BY <3>1
      <4> QED BY <2>2, <4>1, FS_AddElement
    <3> QED BY <3>2, <3>3
  <2> QED BY <2>3, <2>4
<1> QED BY <1>1, <1>2

\* Three numbers, two limits apart, are not all nearer than the limit to a
\* fourth.
LEMMA NearAndApart ==
  ASSUME Near <= 2 * Aria, NEW h \in Int, NEW x \in Int, NEW y \in Int, NEW z \in Int,
         Distance(x, y) >= 2 * Aria, Distance(y, z) >= 2 * Aria, Distance(x, z) >= 2 * Aria
  PROVE  ~(Distance(h, x) < Near /\ Distance(h, y) < Near /\ Distance(h, z) < Near)
BY DEF Distance

\* Of three maxima of a row that are told at their places one is not near.
LEMMA ThreeToldMaxima ==
  ASSUME Near <= 2 * Aria, NEW ms, NEW s, MaximaFit(ms, s),
         NEW a \in DOMAIN ms, NEW b \in DOMAIN ms, NEW c \in DOMAIN ms,
         a # b, b # c, a # c, NEW h \in Int,
         \A i \in {a, b, c} : /\ ms[i] \in Maximum /\ ms[i].harm = ms[i].place
                              /\ Distance(h, ms[i].harm) < Near
  PROVE  FALSE
<1>1. /\ Distance(ms[a].place, ms[b].place) >= 2 * Aria
      /\ Distance(ms[b].place, ms[c].place) >= 2 * Aria
      /\ Distance(ms[a].place, ms[c].place) >= 2 * Aria
  BY DEF MaximaFit
<1>2. ms[a].place \in Int /\ ms[b].place \in Int /\ ms[c].place \in Int
  BY DEF Maximum, Harms
<1>3. /\ Distance(h, ms[a].place) < Near /\ Distance(h, ms[b].place) < Near
      /\ Distance(h, ms[c].place) < Near
  BY Zenon
<1> QED BY <1>1, <1>2, <1>3, NearAndApart

\* A maximum becomes two targets at most with maxima of the other sweep that
\* are reported at their places, if the limit of nearness (10, line 21) is no
\* more than two arias (5, line 77).
THEOREM TwoTargetsAlways ==
  ASSUME Size <= 32768, Near <= 2 * Aria
  PROVE  Spec => []TwoTargetsAtMost
<1>1. Init => TargetsInv
  BY DEF Init, TargetsInv
<1>2. SearchInv /\ TargetsInv /\ [Next]_vars => TargetsInv'
  BY StepKeepsTargets
<1>3. SearchInv /\ PlaceIsTold /\ TargetsInv => TwoTargetsAtMost
  <2> SUFFICES ASSUME SearchInv, PlaceIsTold, TargetsInv PROVE TwoTargetsAtMost
    OBVIOUS
  <2>1. \A s \in Sweeps : MaximaFit(maximumes[s], captureData[s]) /\ maximumes[s] \in Seq(Maximum)
    BY DEF SearchInv, SearchTypes
  <2>2. \A s \in Sweeps : \A i \in DOMAIN maximumes[s] :
          /\ maximumes[s][i] \in Maximum
          /\ maximumes[s][i].rights < 2 => maximumes[s][i].harm = maximumes[s][i].place
    <3>1. \A s \in Sweeps : \A i \in DOMAIN maximumes[s] : maximumes[s][i] \in Maximum
      BY <2>1
    <3> QED BY <3>1 DEF PlaceIsTold
  <2>3. \A x, y \in Maximum : AreNear(x, y) =>
          /\ Distance(x.harm, y.harm) < Near /\ Distance(y.harm, x.harm) < Near
          /\ x.harm \in Int /\ y.harm \in Int
    BY DEF AreNear, Distance, Maximum
  <2>4. \A x \in Maximum : x.harm \in Int
    BY DEF Maximum
  <2>5. ASSUME NEW s \in Sweeps, NEW i \in DOMAIN maximumes[s]
        PROVE  Cardinality(ToldTargets(s, i)) <= 2
    <3> DEFINE o == 3 - s
               S == ToldTargets(s, i)
               h == maximumes[s][i].harm
    <3>0. o \in Sweeps /\ {s, o} = {1, 2}
      BY DEF Sweeps
    <3>1. ASSUME NEW t \in S
          PROVE  /\ t[o] \in DOMAIN maximumes[o] /\ t[s] = i /\ t = <<t[1], t[2]>>
                 /\ maximumes[o][t[o]] \in Maximum
                 /\ maximumes[o][t[o]].harm = maximumes[o][t[o]].place
                 /\ Distance(h, maximumes[o][t[o]].harm) < Near
      <4>1. t \in targets /\ t[s] = i /\ maximumes[o][t[o]].rights < 2
        BY DEF ToldTargets
      <4>2. /\ t[1] \in DOMAIN maximumes[1] /\ t[2] \in DOMAIN maximumes[2] /\ t = <<t[1], t[2]>>
            /\ AreNear(maximumes[1][t[1]], maximumes[2][t[2]])
        BY <4>1 DEF TargetsInv
      <4>3. maximumes[1][t[1]] \in Maximum /\ maximumes[2][t[2]] \in Maximum
        BY <2>2, <4>2 DEF Sweeps
      <4>4. /\ Distance(maximumes[1][t[1]].harm, maximumes[2][t[2]].harm) < Near
            /\ Distance(maximumes[2][t[2]].harm, maximumes[1][t[1]].harm) < Near
        BY <2>3, <4>2, <4>3
      <4> HIDE DEF o, S
      <4>5. CASE s = 1 /\ o = 2
        BY <2>2, <3>0, <4>1, <4>2, <4>3, <4>4, <4>5
      <4>6. CASE s = 2 /\ o = 1
        BY <2>2, <3>0, <4>1, <4>2, <4>3, <4>4, <4>6
      <4> QED BY <3>0, <4>5, <4>6 DEF Sweeps, o
    <3>2. h \in Int
      BY <2>2, <2>4
    <3>3. MaximaFit(maximumes[o], captureData[o])
      BY <2>1, <3>0
    <3> HIDE DEF S, h, o
    <3>4. ASSUME NEW a \in S, NEW b \in S, NEW c \in S, a # b, b # c, a # c PROVE FALSE
      <4>1. a[o] # b[o] /\ b[o] # c[o] /\ a[o] # c[o]
        BY <3>0, <3>1, <3>4
      <4>2. \A j \in {a[o], b[o], c[o]} :
              /\ maximumes[o][j] \in Maximum /\ maximumes[o][j].harm = maximumes[o][j].place
              /\ Distance(h, maximumes[o][j].harm) < Near
        BY <3>1
      <4>3. a[o] \in DOMAIN maximumes[o] /\ b[o] \in DOMAIN maximumes[o] /\ c[o] \in DOMAIN maximumes[o]
        BY <3>1
      <4> QED BY <3>2, <3>3, <4>1, <4>2, <4>3, ThreeToldMaxima
    <3>5. Cardinality(S) <= 2
      BY <3>4, TwoElements
    <3> QED BY <3>5 DEF S
  <2> QED BY <2>5 DEF TwoTargetsAtMost
<1> QED BY <1>1, <1>2, <1>3, SearchInvariant, PlaceAlwaysTold, PTL DEF Spec
=============================================================================
