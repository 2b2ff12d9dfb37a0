---------------------- MODULE SpectrumProcessingProofs ----------------------
(***************************************************************************)
(* What holds of the spectrum processing for every number of harmonics,    *)
(* every threshold, spectrum and configuration, and every length of the    *)
(* array of speeds.                                                        *)
(*                                                                         *)
(* Two recursive functions have to be reasoned about, the sum of the       *)
(* speeds and the peak.  StepwiseFunction says that a function given by a  *)
(* step exists; what a sum or a peak is then follows from AllNumbers,      *)
(* induction over a set.  An average of speeds lies between them, which    *)
(* keeps averages of averages within what was measured, and zeros average  *)
(* to zero, which keeps what is not there from moving.                     *)
(***************************************************************************)
EXTENDS SpectrumProcessing, WellFoundedInduction, TLAPS

Num == Int \cup {NaN, Inf, MinusInf}

-----------------------------------------------------------------------------
(***************************************************************************)
(* Induction and recursion over the numbers.                               *)
(***************************************************************************)
\* A set of numbers has a least one.
LEMMA LeastNumber ==
  ASSUME NEW T \in SUBSET Nat, T # {}
  PROVE  \E x \in T : \A y \in T : x <= y
<1>1. \E x \in T : \A y \in T : ~ (<<y, x>> \in OpToRel(<, Nat))
  BY NatLessThanWellFounded, WFMin
<1>2. \A x, y \in Nat : y < x => <<y, x>> \in OpToRel(<, Nat)
  BY DEF OpToRel
<1>3. \A x, y \in Nat : x <= y \/ y < x
  OBVIOUS
<1> QED BY <1>1, <1>2, <1>3

\* A set that has 0, and with a number the next one, has them all.
LEMMA AllNumbers ==
  ASSUME NEW T \in SUBSET Nat, 0 \in T, \A n \in Nat \ {0} : n - 1 \in T => n \in T
  PROVE  \A n \in Nat : n \in T
<1> SUFFICES ASSUME Nat \ T # {} PROVE FALSE
  OBVIOUS
<1>1. PICK n \in Nat \ T : \A k \in Nat \ T : n <= k
  BY LeastNumber
<1>2. n \in Nat \ {0} /\ n - 1 \in Nat /\ ~(n <= n - 1)
  BY <1>1
<1> QED BY <1>1, <1>2

\* f starts with z and goes on by steps.
Stepwise(f, z, step) == f[0] = z /\ \A n \in Nat \ {0} : f[n] = step[n][f[n - 1]]

\* A function given by its first value and a step from each value to the next
\* exists.
LEMMA StepwiseFunction ==
  ASSUME NEW S, NEW z \in S, NEW step \in [Nat -> [S -> S]]
  PROVE  \E f \in [Nat -> S] : Stepwise(f, z, step)
<1> DEFINE Upto(g, n) == g[0] = z /\ \A i \in 1 .. n : g[i] = step[i][g[i - 1]]
<1>1. \A n \in Nat : \E g \in [Nat -> S] : Upto(g, n)
  <2> DEFINE T == {n \in Nat : \E g \in [Nat -> S] : Upto(g, n)}
  <2>1. 0 \in T
    <3>1. [i \in Nat |-> z] \in [Nat -> S] /\ Upto([i \in Nat |-> z], 0)
      OBVIOUS
    <3> QED BY <3>1
  <2>2. ASSUME NEW n \in Nat \ {0}, n - 1 \in T PROVE n \in T
    <3>1. PICK g \in [Nat -> S] : Upto(g, n - 1)
      BY <2>2
    <3> DEFINE h == [i \in Nat |-> IF i < n THEN g[i] ELSE step[n][g[n - 1]]]
    <3>2. n - 1 \in Nat /\ g[n - 1] \in S /\ step[n][g[n - 1]] \in S
      OBVIOUS
    <3>3. h \in [Nat -> S]
      BY <3>2
    <3>4. h[0] = z
      BY <3>1
    <3>5. ASSUME NEW i \in 1 .. n PROVE h[i] = step[i][h[i - 1]]
      <4>1. i - 1 \in Nat /\ i - 1 < n /\ i \in Nat
        OBVIOUS
      <4>2. h[i - 1] = g[i - 1]
        BY <4>1
      <4>3. CASE i = n
        BY <4>1, <4>2, <4>3
      <4>4. CASE i < n
        <5>1. i \in 1 .. n - 1
          BY <4>4
        <5>2. h[i] = g[i]
          BY <4>1, <4>4
        <5> QED BY <3>1, <4>2, <5>1, <5>2
      <4> QED BY <4>3, <4>4
    <3> QED BY <3>3, <3>4, <3>5
  <2>3. T \in SUBSET Nat
    OBVIOUS
  <2> HIDE DEF T
  <2>4. \A n \in Nat : n \in T
    BY <2>1, <2>2, <2>3, AllNumbers
  <2> QED BY <2>4 DEF T
<1>2. ASSUME NEW g \in [Nat -> S], NEW h \in [Nat -> S], NEW n \in Nat, Upto(g, n), Upto(h, n)
      PROVE  \A i \in 0 .. n : g[i] = h[i]
  <2> DEFINE T == {i \in Nat : i <= n => g[i] = h[i]}
  <2>1. 0 \in T
    BY <1>2
  <2>2. ASSUME NEW i \in Nat \ {0}, i - 1 \in T PROVE i \in T
    <3> SUFFICES ASSUME i <= n PROVE g[i] = h[i]
      OBVIOUS
    <3>1. i \in 1 .. n /\ g[i - 1] = h[i - 1]
      BY <2>2
    <3> QED BY <1>2, <3>1
  <2>3. T \in SUBSET Nat
    OBVIOUS
  <2> HIDE DEF T
  <2>4. \A i \in Nat : i \in T
    BY <2>1, <2>2, <2>3, AllNumbers
  <2> QED BY <2>4 DEF T
<1> DEFINE G(n) == CHOOSE g \in [Nat -> S] : Upto(g, n)
           f == [n \in Nat |-> G(n)[n]]
<1> HIDE DEF Upto
<1>3. ASSUME NEW n \in Nat PROVE G(n) \in [Nat -> S] /\ Upto(G(n), n)
  BY <1>1
<1>g. \A n \in Nat : f[n] = G(n)[n]
  OBVIOUS
<1> HIDE DEF G
<1>4. f \in [Nat -> S]
  BY <1>3
<1> HIDE DEF f
<1>5. f[0] = z
  BY <1>3, <1>g DEF Upto
<1>6. ASSUME NEW n \in Nat \ {0} PROVE f[n] = step[n][f[n - 1]]
  <2>1. n \in Nat /\ n - 1 \in Nat /\ n \in 1 .. n /\ n - 1 \in 0 .. n - 1
    OBVIOUS
  <2>2. Upto(G(n), n) /\ Upto(G(n - 1), n - 1)
    BY <1>3, <2>1
  <2>3. Upto(G(n), n - 1)
    BY <2>1, <2>2 DEF Upto
  <2>4. G(n)[n - 1] = G(n - 1)[n - 1]
    BY <1>2, <1>3, <2>1, <2>2, <2>3
  <2>5. G(n)[n] = step[n][G(n)[n - 1]]
    BY <2>1, <2>2 DEF Upto
  <2> QED BY <1>g, <2>1, <2>4, <2>5
<1> QED BY <1>4, <1>5, <1>6 DEF Stepwise

-----------------------------------------------------------------------------
(***************************************************************************)
(* Sums and averages of speeds.                                            *)
(***************************************************************************)
\* What is added or subtracted is a whole number exactly when both parts are.
LEMMA PlusIsNum ==
  ASSUME NEW a \in Num, NEW b \in Num
  PROVE  /\ Plus(a, b) \in Num
         /\ Plus(a, b) \in Int <=> a \in Int /\ b \in Int
         /\ a \in Int /\ b \in Int => Plus(a, b) = a + b
<1>1. CASE a \in Int /\ b \in Int
  BY <1>1 DEF Plus, Num
<1>2. CASE ~(a \in Int /\ b \in Int)
  <2>1. Plus(a, b) \in {NaN, a, b} /\ (Plus(a, b) = a => a \notin Int) /\ (Plus(a, b) = b => b \notin Int)
    <3>1. CASE NaN \in {a, b} \/ {a, b} = {Inf, MinusInf}
      BY <1>2, <3>1, ProcessingAssumption DEF Plus
    <3>2. CASE ~(NaN \in {a, b} \/ {a, b} = {Inf, MinusInf})
      BY <1>2, <3>2, ProcessingAssumption DEF Plus
    <3> QED BY <3>1, <3>2
  <2>2. NaN \in Num /\ NaN \notin Int
    BY ProcessingAssumption DEF Num
  <2> QED BY <1>2, <2>1, <2>2
<1> QED BY <1>1, <1>2

LEMMA MinusIsNum ==
  ASSUME NEW a \in Num, NEW b \in Num
  PROVE  /\ Minus(a, b) \in Num
         /\ Minus(a, b) \in Int <=> a \in Int /\ b \in Int
<1> DEFINE c == IF b \in Int THEN -b ELSE IF b = Inf THEN MinusInf ELSE IF b = MinusInf THEN Inf ELSE NaN
<1>1. c \in Num /\ (c \in Int <=> b \in Int)
  BY ProcessingAssumption DEF Num
<1>2. Minus(a, b) = Plus(a, c)
  BY DEF Minus
<1> HIDE DEF c
<1> QED BY <1>1, <1>2, PlusIsNum

\* calc_avg_spd adds the speeds one after the other.
LEMMA SumIsStepwise ==
  ASSUME NEW s \in Seq(Num)
  PROVE  \E f \in [0 .. Len(s) -> Num] :
           /\ f[0] = 0 /\ \A i \in 1 .. Len(s) : f[i] = Plus(f[i - 1], s[i])
           /\ Sum(s) = f[Len(s)]
<1> DEFINE N == Len(s)
           step == [i \in Nat |-> [x \in Num |-> IF i \in 1 .. N THEN Plus(x, s[i]) ELSE 0]]
<1>n. N \in Nat /\ \A i \in 1 .. N : s[i] \in Num
  OBVIOUS
<1>z. 0 \in Num
  BY DEF Num
<1> HIDE DEF N
<1>1. step \in [Nat -> [Num -> Num]]
  BY <1>n, <1>z, PlusIsNum
<1>2. \A i \in 1 .. N, x \in Num : step[i][x] = Plus(x, s[i])
  BY <1>n
<1> HIDE DEF step
<1>f. PICK f \in [Nat -> Num] : Stepwise(f, 0, step)
  BY <1>1, <1>z, StepwiseFunction
<1>3. f[0] = 0 /\ \A n \in Nat \ {0} : f[n] = step[n][f[n - 1]]
  BY <1>f DEF Stepwise
<1> DEFINE g == [i \in 0 .. N |-> f[i]]
<1>4. g = [i \in 0 .. N |-> IF i = 0 THEN 0 ELSE Plus(g[i - 1], s[i])]
  <2>1. ASSUME NEW i \in 1 .. N PROVE g[i] = Plus(g[i - 1], s[i])
    <3>1. i \in Nat \ {0} /\ i - 1 \in 0 .. N /\ i \in 0 .. N /\ i - 1 \in Nat
      BY <1>n
    <3> QED BY <1>2, <1>3, <3>1
  <2>2. g[0] = 0
    BY <1>3, <1>n
  <2>3. \A i \in 0 .. N : i = 0 \/ i \in 1 .. N
    BY <1>n
  <2>4. \A i \in 0 .. N : g[i] = IF i = 0 THEN 0 ELSE Plus(g[i - 1], s[i])
    BY <2>1, <2>2, <2>3
  <2> QED BY <2>4
<1> HIDE DEF g
<1> DEFINE sum == CHOOSE sum : sum = [i \in 0 .. N |-> IF i = 0 THEN 0 ELSE Plus(sum[i - 1], s[i])]
<1>s. Sum(s) = sum[N]
  BY DEF Sum, N
<1>5. sum = [i \in 0 .. N |-> IF i = 0 THEN 0 ELSE Plus(sum[i - 1], s[i])]
  BY <1>4
<1> HIDE DEF sum
<1>6. ASSUME NEW i \in 1 .. N PROVE sum[i] = Plus(sum[i - 1], s[i])
  BY <1>5, <1>n
<1>7. sum[0] = 0
  BY <1>5, <1>n
<1>8. \A i \in Nat : i <= N => sum[i] \in Num
  <2> DEFINE T == {i \in Nat : i <= N => sum[i] \in Num}
  <2>1. 0 \in T
    BY <1>7, <1>z
  <2>2. ASSUME NEW i \in Nat \ {0}, i - 1 \in T PROVE i \in T
    <3>1. i <= N => i \in 1 .. N /\ sum[i - 1] \in Num
      BY <2>2, <1>n
    <3> QED BY <3>1, <1>6, <1>n, PlusIsNum
  <2>3. T \in SUBSET Nat
    OBVIOUS
  <2> HIDE DEF T
  <2>4. \A i \in Nat : i \in T
    BY <2>1, <2>2, <2>3, AllNumbers
  <2> QED BY <2>4 DEF T
<1>9. sum \in [0 .. N -> Num]
  BY <1>5, <1>8, <1>n
<1> QED BY <1>6, <1>7, <1>9, <1>s DEF N

\* The rounded quotient of what lies between multiples lies between the factors.
LEMMA QuotientIsBetween ==
  ASSUME NEW a \in Int, NEW n \in Nat \ {0}, NEW lo \in Int, NEW hi \in Int,
         lo * n <= a, a <= hi * n
  PROVE  a \div n \in Int /\ lo <= a \div n /\ a \div n <= hi
<1> DEFINE b == a \div n
<1>1. b \in Int /\ b * n <= a /\ a < b * n + n
  OBVIOUS
<1> HIDE DEF b
<1>2. ASSUME b < lo PROVE FALSE
  <2>1. (b + 1) * n <= lo * n
    <3>1. b + 1 <= lo
      BY <1>1, <1>2
    <3>2. lo * n - (b + 1) * n = (lo - (b + 1)) * n
      BY <1>1
    <3>3. lo - (b + 1) \in Nat
      BY <1>1, <3>1
    <3>4. \A x \in Nat : x * n >= 0
      OBVIOUS
    <3> QED BY <1>1, <3>2, <3>3, <3>4
  <2>2. (b + 1) * n = b * n + n
    BY <1>1
  <2> QED BY <1>1, <2>1, <2>2
<1>3. ASSUME hi < b PROVE FALSE
  <2>1. (b - hi - 1) \in Nat
    BY <1>1, <1>3
  <2>2. \A x \in Nat : x * n >= 0
    OBVIOUS
  <2>3. b * n - hi * n = (b - hi - 1) * n + n
    BY <1>1
  <2> QED BY <1>1, <2>1, <2>2, <2>3
<1>4. lo <= b /\ b <= hi
  BY <1>1, <1>2, <1>3
<1> QED BY <1>1, <1>4 DEF b

\* An average over at least one speed lies between them, and is a number when
\* each of them is one.
LEMMA AverageIsBetween ==
  ASSUME NEW s \in Seq(Num), s # <<>>, NEW lo \in Int, NEW hi \in Int,
         \A i \in DOMAIN s : s[i] \in Int => lo <= s[i] /\ s[i] <= hi
  PROVE  AvgSpd(s) \in Int => lo <= AvgSpd(s) /\ AvgSpd(s) <= hi
<1> DEFINE N == Len(s)
<1>n. N \in Nat \ {0} /\ \A i \in 1 .. N : s[i] \in Num /\ (s[i] \in Int => lo <= s[i] /\ s[i] <= hi)
  OBVIOUS
<1>1. PICK f \in [0 .. N -> Num] :
         f[0] = 0 /\ (\A i \in 1 .. N : f[i] = Plus(f[i - 1], s[i])) /\ Sum(s) = f[N]
  BY SumIsStepwise
<1>a. AvgSpd(s) = Over(f[N], N)
  BY <1>1 DEF AvgSpd
<1> HIDE DEF N
<1> DEFINE T == {i \in Nat : i <= N /\ f[i] \in Int => lo * i <= f[i] /\ f[i] <= hi * i}
<1>2. 0 \in T
  BY <1>1
<1>3. ASSUME NEW i \in Nat \ {0}, i - 1 \in T PROVE i \in T
  <2> SUFFICES ASSUME i <= N, f[i] \in Int PROVE lo * i <= f[i] /\ f[i] <= hi * i
    OBVIOUS
  <2>1. i \in 1 .. N /\ i - 1 \in 0 .. N /\ i - 1 <= N
    BY <1>n
  <2>2. f[i - 1] \in Num /\ s[i] \in Num /\ f[i] = Plus(f[i - 1], s[i])
    BY <1>1, <1>n, <2>1
  <2>3. f[i - 1] \in Int /\ s[i] \in Int /\ f[i] = f[i - 1] + s[i]
    BY <2>2, PlusIsNum
  <2>4. s[i] \in Int /\ f[i - 1] \in Int
    BY <2>3
  <2>5. lo * (i - 1) <= f[i - 1] /\ f[i - 1] <= hi * (i - 1) /\ lo <= s[i] /\ s[i] <= hi
    BY <1>3, <1>n, <2>1, <2>4
  <2>6. lo * i = lo * (i - 1) + lo /\ hi * i = hi * (i - 1) + hi
    OBVIOUS
  <2>7. lo * (i - 1) \in Int /\ hi * (i - 1) \in Int
    OBVIOUS
  <2> QED BY <2>3, <2>5, <2>6, <2>7
<1>4. T \in SUBSET Nat
  OBVIOUS
<1> HIDE DEF T
<1>5. N \in T
  BY <1>2, <1>3, <1>4, <1>n, AllNumbers
<1>6. f[N] \in Int => lo * N <= f[N] /\ f[N] <= hi * N
  BY <1>5, <1>n DEF T
<1>7. CASE f[N] \notin Int
  BY <1>a, <1>7 DEF Over
<1>8. CASE f[N] \in Int
  BY <1>6, <1>8, <1>a, <1>n, QuotientIsBetween DEF Over
<1> QED BY <1>7, <1>8

\* An average over at least one number and nothing else is a number.
LEMMA AverageIsNumber ==
  ASSUME NEW s \in Seq(Num), s # <<>>, \A i \in DOMAIN s : s[i] \in Int
  PROVE  AvgSpd(s) \in Int
<1> DEFINE N == Len(s)
<1>n. N \in Nat \ {0} /\ \A i \in 1 .. N : s[i] \in Num /\ s[i] \in Int
  OBVIOUS
<1>1. PICK f \in [0 .. N -> Num] :
         f[0] = 0 /\ (\A i \in 1 .. N : f[i] = Plus(f[i - 1], s[i])) /\ Sum(s) = f[N]
  BY SumIsStepwise
<1>a. AvgSpd(s) = Over(f[N], N)
  BY <1>1 DEF AvgSpd
<1> HIDE DEF N
<1> DEFINE T == {i \in Nat : i <= N => f[i] \in Int}
<1>2. 0 \in T
  BY <1>1
<1>3. ASSUME NEW i \in Nat \ {0}, i - 1 \in T PROVE i \in T
  <2> SUFFICES ASSUME i <= N PROVE f[i] \in Int
    OBVIOUS
  <2>1. i \in 1 .. N /\ i - 1 \in 0 .. N /\ i - 1 <= N
    BY <1>n
  <2>2. f[i - 1] \in Num /\ s[i] \in Num /\ f[i] = Plus(f[i - 1], s[i])
    BY <1>1, <1>n, <2>1
  <2>3. f[i - 1] \in Int
    BY <1>3, <2>1
  <2>4. s[i] \in Int /\ f[i - 1] \in Int
    BY <1>n, <2>1, <2>3, ProcessingAssumption
  <2> QED BY <2>2, <2>4, PlusIsNum
<1>4. T \in SUBSET Nat
  OBVIOUS
<1> HIDE DEF T
<1>5. N \in T
  BY <1>2, <1>3, <1>4, <1>n, AllNumbers
<1>6. f[N] \in Int
  BY <1>5, <1>n DEF T
<1>7. f[N] \in Int
  BY <1>6, ProcessingAssumption
<1> QED BY <1>6, <1>7, <1>a, <1>n DEF Over

\* Any average is what a double has.
LEMMA AverageIsNum ==
  ASSUME NEW s \in Seq(Num)
  PROVE  AvgSpd(s) \in Num
<1>1. CASE s = <<>>
  BY <1>1 DEF AvgSpd, Num
<1>2. CASE s # <<>>
  <2>1. PICK f \in [0 .. Len(s) -> Num] : Sum(s) = f[Len(s)]
    BY SumIsStepwise
  <2>2. Len(s) \in Nat \ {0} /\ Len(s) \in 0 .. Len(s)
    BY <1>2
  <2>3. Sum(s) \in Num
    BY <2>1, <2>2
  <2> QED BY <1>2, <2>2, <2>3 DEF AvgSpd, Over, Num
<1> QED BY <1>1, <1>2

\* The new array of speeds: its first is the average, the others were there.
LEMMA AddedSpeeds ==
  ASSUME NEW s \in Seq(Num), NEW v \in Num
  PROVE  \E t \in Seq(Num) :
           /\ t # <<>> /\ t[1] = v
           /\ \A i \in DOMAIN t : i = 1 \/ (i - 1 \in DOMAIN s /\ t[i] = s[i - 1])
           /\ AddSpd(s, v) \in Seq(Num) /\ AddSpd(s, v) # <<>>
           /\ AddSpd(s, v)[1] = AvgSpd(t)
           /\ \A i \in DOMAIN AddSpd(s, v) :
                i = 1 \/ (i - 1 \in DOMAIN s /\ AddSpd(s, v)[i] = s[i - 1])
<1> DEFINE n == IF Len(s) < AvgNum THEN Len(s) + 1 ELSE AvgNum
           u == <<v>> \o s
           t == SubSeq(u, 1, n)
           w == <<AvgSpd(t)>> \o Tail(t)
<1>1. u \in Seq(Num) /\ Len(u) = Len(s) + 1 /\ \A i \in 1 .. Len(u) : u[i] = IF i = 1 THEN v ELSE s[i - 1]
  OBVIOUS
<1>2. n \in Nat \ {0} /\ n <= Len(u)
  BY <1>1, ProcessingAssumption
<1>d. AddSpd(s, v) = w
  BY DEF AddSpd
<1> HIDE DEF n, u
<1>3. t \in Seq(Num) /\ Len(t) = n /\ \A i \in 1 .. n : t[i] = u[i]
  BY <1>1, <1>2
<1> HIDE DEF t
<1>4. t # <<>> /\ \A i \in 1 .. n : t[i] = IF i = 1 THEN v ELSE s[i - 1]
  BY <1>1, <1>2, <1>3
<1>5. AvgSpd(t) \in Num
  BY <1>3, AverageIsNum
<1>6. Tail(t) \in Seq(Num) /\ Len(Tail(t)) = n - 1 /\ \A i \in 1 .. n - 1 : Tail(t)[i] = t[i + 1]
  BY <1>2, <1>3, <1>4
<1>7. w \in Seq(Num) /\ Len(w) = n /\ \A i \in 1 .. n : w[i] = IF i = 1 THEN AvgSpd(t) ELSE t[i]
  BY <1>2, <1>5, <1>6
<1> HIDE DEF w
<1>8. \A i \in 1 .. n : i = 1 \/ (i - 1 \in DOMAIN s /\ t[i] = s[i - 1])
  BY <1>1, <1>2, <1>4
<1>9. w # <<>> /\ w[1] = AvgSpd(t) /\ \A i \in DOMAIN w : i = 1 \/ (i - 1 \in DOMAIN s /\ w[i] = s[i - 1])
  BY <1>2, <1>7, <1>8
<1>10. t[1] = v /\ DOMAIN t = 1 .. n
  BY <1>2, <1>3, <1>4
<1> QED BY <1>d, <1>3, <1>4, <1>7, <1>8, <1>9, <1>10

-----------------------------------------------------------------------------
(***************************************************************************)
(* The peak.                                                               *)
(***************************************************************************)
FirstHarm == th[1].x
LastHarm  == th[Len(th)].x

\* The line lies on the points.
LEMMA LineOnPoints ==
  ASSUME th \in Thresholds
  PROVE  /\ MaxHarm \in Nat /\ th \in Seq(Point) /\ Len(th) \in Nat \ {0}
         /\ \A i \in 1 .. Len(th) : th[i].x \in Harms /\ th[i].y \in Nat
         /\ FirstHarm \in Harms /\ LastHarm \in Harms
         /\ \A h \in FirstHarm .. LastHarm : h \in Harms
<1>1. MaxHarm \in Nat /\ th \in Seq(Point) /\ Len(th) > 0
  BY ProcessingAssumption
<1>2. Len(th) \in Nat \ {0} /\ 1 \in 1 .. Len(th) /\ Len(th) \in 1 .. Len(th)
  BY <1>1
<1>3. \A i \in 1 .. Len(th) : th[i] \in Point
  BY <1>1
<1>4. \A p \in Point : p.x \in Harms /\ p.y \in Nat
  BY DEF Point
<1>5. \A i \in 1 .. Len(th) : th[i].x \in Harms /\ th[i].y \in Nat
  BY <1>3, <1>4
<1>6. FirstHarm \in Harms /\ LastHarm \in Harms
  BY <1>2, <1>5 DEF FirstHarm, LastHarm
<1> QED BY <1>1, <1>2, <1>5, <1>6 DEF Harms

\* find_peak goes from one harmonic to the next.
LEMMA PeakIsStepwise ==
  ASSUME th \in Thresholds, NEW spectrum
  PROVE  \E f \in [Nat -> Harms] :
           /\ f[0] = 0
           /\ \A h \in Nat \ {0} :
                f[h] = IF h \notin FirstHarm .. LastHarm THEN 0
                       ELSE IF Higher(spectrum, h, f[h - 1]) THEN h ELSE f[h - 1]
           /\ Peak(spectrum) = f[LastHarm]
<1> DEFINE win == FirstHarm .. LastHarm
           step == [h \in Nat |-> [x \in Harms |->
                      IF h \notin win THEN 0 ELSE IF Higher(spectrum, h, x) THEN h ELSE x]]
<1>w. \A h \in win : h \in Harms
  BY LineOnPoints
<1>z. 0 \in Harms /\ LastHarm \in Nat
  BY LineOnPoints DEF Harms
<1>1. step \in [Nat -> [Harms -> Harms]]
  BY <1>w, <1>z
<1>2. \A h \in Nat, x \in Harms :
        step[h][x] = IF h \notin win THEN 0 ELSE IF Higher(spectrum, h, x) THEN h ELSE x
  OBVIOUS
<1> HIDE DEF step
<1>3. PICK f \in [Nat -> Harms] : Stepwise(f, 0, step)
  BY <1>1, <1>z, StepwiseFunction
<1>4. f[0] = 0 /\ \A h \in Nat \ {0} : f[h] = step[h][f[h - 1]]
  BY <1>3 DEF Stepwise
<1>5. \A h \in Nat \ {0} : f[h] = IF h \notin win THEN 0 ELSE IF Higher(spectrum, h, f[h - 1]) THEN h ELSE f[h - 1]
  BY <1>2, <1>4
<1> DEFINE Next1(g, h) == IF h \notin win THEN 0
             ELSE LET before == IF h = 0 THEN 0 ELSE g[h - 1] IN IF Higher(spectrum, h, before) THEN h ELSE before
<1>6. f = [h \in Nat |-> Next1(f, h)]
  <2>1. ASSUME NEW h \in Nat PROVE f[h] = Next1(f, h)
    <3>1. CASE h = 0
      BY <1>4, <3>1
    <3>2. CASE h # 0
      BY <1>5, <3>2
    <3> QED BY <3>1, <3>2
  <2> QED BY <2>1
<1> DEFINE peak == CHOOSE peak : peak = [h \in Nat |-> Next1(peak, h)]
<1>7. Peak(spectrum) = peak[LastHarm]
  BY DEF Peak, FirstHarm, LastHarm
<1>8. peak = [h \in Nat |-> Next1(peak, h)]
  BY <1>6
<1> HIDE DEF peak
<1>9. \A h \in Nat : peak[h] = Next1(peak, h)
  BY <1>8
<1>10. peak[0] = 0
  BY <1>9
<1>11. \A h \in Nat \ {0} : peak[h] = IF h \notin win THEN 0 ELSE IF Higher(spectrum, h, peak[h - 1]) THEN h ELSE peak[h - 1]
  BY <1>9
<1>12. \A h \in Nat : peak[h] \in Harms
  <2> DEFINE T == {h \in Nat : peak[h] \in Harms}
  <2>1. 0 \in T
    BY <1>10, <1>z
  <2>2. ASSUME NEW h \in Nat \ {0}, h - 1 \in T PROVE h \in T
    BY <1>11, <1>w, <1>z, <2>2
  <2>3. T \in SUBSET Nat
    OBVIOUS
  <2> HIDE DEF T
  <2>4. \A h \in Nat : h \in T
    BY <2>1, <2>2, <2>3, AllNumbers
  <2> QED BY <2>4 DEF T
<1>13. peak \in [Nat -> Harms]
  BY <1>8, <1>12
<1> QED BY <1>7, <1>10, <1>11, <1>13

\* The peak is a place.
LEMMA PeakIsPlace ==
  ASSUME th \in Thresholds, NEW spectrum
  PROVE  Peak(spectrum) \in Harms
<1>1. PICK f \in [Nat -> Harms] : Peak(spectrum) = f[LastHarm]
  BY PeakIsStepwise
<1> QED BY <1>1, LineOnPoints DEF Harms

-----------------------------------------------------------------------------
(***************************************************************************)
(* The invariant.                                                          *)
(***************************************************************************)
NumMvmt == [dist : Num, spd : Num, raw : Num]
HullOf  == [lo : Int, hi : Int]

ProcTypes ==
  /\ config \in [restore : BOOLEAN, recalc : BOOLEAN, avg : BOOLEAN] /\ th \in Thresholds
  /\ locked \in BOOLEAN /\ lost \in BOOLEAN /\ spoilt \in BOOLEAN
  /\ spds \in Seq(Num) /\ lockedMvmt \in NumMvmt
  /\ pt \in [det : BOOLEAN, dist : Int, spd : Num] /\ speeds \in HullOf

\* Without a target there is nothing that moves.
NothingMoves ==
  lost /\ ~locked =>
    /\ lockedMvmt = NoMvmt /\ \A i \in DOMAIN spds : spds[i] = 0
    /\ pt.det => pt.dist = 0 /\ pt.spd = 0

\* All speeds that are kept lie within those measured.
Measured(v, hull) == v \in Int => hull.lo <= v /\ v <= hull.hi
AllMeasured(s, hull) == \A i \in DOMAIN s : Measured(s[i], hull)
SpeedsMeasured ==
  lost => /\ AllMeasured(spds, speeds)
          /\ locked => Measured(lockedMvmt.spd, speeds)
          /\ pt.det => Measured(pt.spd, speeds)

ProcInv == ProcTypes /\ NothingMoves /\ SpeedsMeasured /\ NaNHasCause

-----------------------------------------------------------------------------
(***************************************************************************)
(* Types.                                                                  *)
(***************************************************************************)
\* A quotient is what a double has.
LEMMA OverIsNum ==
  ASSUME NEW a \in Num, NEW n \in Nat \ {0}
  PROVE  Over(a, n) \in Num /\ (a \in Int => Over(a, n) \in Int)
BY DEF Over, Num

\* The quotient of C is whole.
LEMMA QuotIsInt ==
  ASSUME NEW d \in Nat \ {0}, NEW a \in Int
  PROVE  Quot(a, d) \in Int
<1>1. a \div d \in Int /\ -((-a) \div d) \in Int
  OBVIOUS
<1> QED BY <1>1 DEF Quot

\* Where a peak is, is a number unless the peak is in line with its neighbours.
LEMMA PlaceIsNum ==
  ASSUME NEW spectrum \in Spectra, NEW h \in Harms \ {0}, NEW beyond \in Nat
  PROVE  /\ Place(spectrum, h, beyond) \in Num
         /\ Bend(spectrum, h, beyond) # 0 => Place(spectrum, h, beyond) \in Int
<1> DEFINE after == After(spectrum, h, beyond)
           rise  == after - spectrum[h - 1]
           bend  == Bend(spectrum, h, beyond)
<1>1. \A k \in Harms : spectrum[k] \in Nat
  BY ProcessingAssumption
<1>2. h \in Nat /\ h \in Num /\ h \in Harms /\ h - 1 \in Harms /\ (h # MaxHarm => h + 1 \in Harms)
  BY ProcessingAssumption DEF Harms, Num
<1>3. after \in Nat
  BY <1>1, <1>2 DEF After
<1>4. bend = 2 * spectrum[h] - spectrum[h - 1] - after
  BY DEF Bend
<1> HIDE DEF after
<1>5. rise \in Int /\ bend \in Int
  BY <1>1, <1>2, <1>3, <1>4
<1>6. Estimate(spectrum, h, beyond) =
        CASE bend > 0 -> Quot(rise, bend)
          [] bend < 0 -> Quot(-rise, -bend)
          [] bend = 0 /\ rise > 0 -> Inf
          [] bend = 0 /\ rise < 0 -> MinusInf
          [] OTHER -> NaN
  BY DEF Estimate, after
<1> HIDE DEF rise, bend
<1> DEFINE e == Estimate(spectrum, h, beyond)
<1>7. CASE bend > 0
  <2>1. e = Quot(rise, bend)
    BY <1>5, <1>6, <1>7
  <2>2. bend \in Nat \ {0}
    BY <1>5, <1>7
  <2>3. e \in Int
    BY <1>5, <2>1, <2>2, QuotIsInt
  <2> QED BY <1>2, <2>3, PlusIsNum DEF Place, Num
<1>8. CASE bend < 0
  <2>1. e = Quot(-rise, -bend)
    BY <1>5, <1>6, <1>8
  <2>2. -rise \in Int /\ -bend \in Nat \ {0}
    BY <1>5, <1>8
  <2>3. e \in Int
    BY <2>1, <2>2, QuotIsInt
  <2> QED BY <1>2, <2>3, PlusIsNum DEF Place, Num
<1>9. CASE bend = 0
  <2>1. e \in {Inf, MinusInf, NaN}
    BY <1>5, <1>6, <1>9
  <2>2. e \in Num
    BY <2>1 DEF Num
  <2>3. Place(spectrum, h, beyond) \in Num
    BY <1>2, <2>2, PlusIsNum DEF Place
  <2> QED BY <1>9, <2>3 DEF bend
<1> QED BY <1>5, <1>7, <1>8, <1>9

\* What target_pt_fill leaves.
LEMMA FilledPoint ==
  ASSUME NEW m \in NumMvmt, Fill(m)
  PROVE  /\ pt' \in [det : BOOLEAN, dist : Int, spd : Num]
         /\ pt'.det => pt'.spd = m.spd /\ (m.dist \in Int => pt'.dist = m.dist)
<1>1. m.dist \in Num /\ m.spd \in Num
  BY DEF NumMvmt
<1>2. CASE m.dist \in Int /\ pt' = [det |-> TRUE, dist |-> m.dist, spd |-> m.spd]
  BY <1>1, <1>2
<1>3. CASE pt' = NoPt
  <2>1. pt' \in [det : BOOLEAN, dist : Int, spd : Num] /\ ~pt'.det
    BY <1>3 DEF NoPt, Num
  <2> QED BY <2>1
<1>4. CASE m.dist \notin Int /\ pt' = [det |-> TRUE, dist |-> 0, spd |-> m.spd]
  BY <1>1, <1>4
<1> QED BY <1>2, <1>3, <1>4 DEF Fill

\* The hull takes in the new speed and keeps those it had.
LEMMA HullWidens ==
  ASSUME NEW hull \in HullOf, NEW v \in Int
  PROVE  /\ Hull(hull, v) \in HullOf /\ ~IsEmpty(Hull(hull, v)) /\ Measured(v, Hull(hull, v))
         /\ \A w \in Num : Measured(w, hull) => Measured(w, Hull(hull, v))
<1>1. hull.lo \in Int /\ hull.hi \in Int
  BY DEF HullOf
<1> DEFINE lo == IF IsEmpty(hull) \/ v < hull.lo THEN v ELSE hull.lo
           hi == IF IsEmpty(hull) \/ v > hull.hi THEN v ELSE hull.hi
<1>2. Hull(hull, v) = [lo |-> lo, hi |-> hi]
  BY <1>1 DEF Hull, IsEmpty
<1>3. lo \in Int /\ hi \in Int /\ lo <= v /\ v <= hi
  BY <1>1 DEF IsEmpty
<1>4. Hull(hull, v).lo = lo /\ Hull(hull, v).hi = hi
  BY <1>2
<1>5. \A w \in Int : hull.lo <= w /\ w <= hull.hi => lo <= w /\ w <= hi
  BY <1>1 DEF IsEmpty
<1>6. Hull(hull, v) \in HullOf
  BY <1>2, <1>3 DEF HullOf
<1> HIDE DEF lo, hi
<1>7. Measured(v, Hull(hull, v)) /\ ~IsEmpty(Hull(hull, v))
  BY <1>3, <1>4 DEF Measured, IsEmpty
<1>8. \A w \in Num : Measured(w, hull) => Measured(w, Hull(hull, v))
  BY <1>4, <1>5 DEF Measured, Num
<1> QED BY <1>6, <1>7, <1>8

\* What process_target makes of the speeds and the movement.
LEMMA TargetStep ==
  ASSUME ProcTypes, NEW rise \in Spectra, NEW fall \in Spectra, NEW r \in Harms, NEW f \in Harms,
         NEW beyond \in Behind, Target(rise, r, fall, f, beyond)
  PROVE  /\ locked' = TRUE /\ lost' = lost
         /\ (spoilt => spoilt') /\ spoilt' \in BOOLEAN
         /\ \E raw, dist, seen \in Num :
              /\ ~spoilt' => raw \in Int /\ dist \in Int
              /\ speeds' = IF raw \in Int THEN Hull(speeds, raw) ELSE speeds
              /\ lockedMvmt'.raw = raw
              /\ seen = raw \/ (seen = AvgSpd(spds) /\ (spds = <<>> => spoilt'))
              /\ \/ spds' = spds /\ lockedMvmt'.spd = seen
                 \/ spds' = AddSpd(spds, seen) /\ lockedMvmt'.spd = AvgSpd(spds')
              /\ \/ lockedMvmt'.dist = dist
                 \/ /\ lockedMvmt'.dist = Plus(lockedMvmt.dist, Over(Plus(lockedMvmt.spd, AvgSpd(spds')), 2))
                    /\ spds' = <<>> => spoilt'
         /\ spds' \in Seq(Num) /\ lockedMvmt' \in NumMvmt
         /\ pt' \in [det : BOOLEAN, dist : Int, spd : Num]
         /\ pt'.det => pt'.spd = lockedMvmt'.spd
<1> DEFINE atRise == Place(rise, r, fall[0])
           atFall == Place(fall, f, beyond)
           raw  == Minus(atFall, atRise)
           dist == Plus(atRise, atFall)
           jump == Far(lockedMvmt.raw, raw, SpdLimit)
           seen == IF jump THEN AvgSpd(spds) ELSE raw
           new  == IF config.avg THEN AddSpd(spds, seen) ELSE spds
           kept == locked /\ Far(lockedMvmt.dist, dist, DistLimit) /\ lockedMvmt.raw # 0
           spd  == IF config.avg THEN AvgSpd(new) ELSE seen
           far  == Plus(lockedMvmt.dist, Over(Plus(lockedMvmt.spd, AvgSpd(new)), 2))
           mvmt == [raw |-> raw, spd |-> spd, dist |-> IF kept THEN far ELSE dist]
           straight == Bend(rise, r, fall[0]) = 0 \/ Bend(fall, f, beyond) = 0
<1>1. /\ FoundBoth(r, f)
      /\ spds' = new /\ lockedMvmt' = mvmt /\ Fill(mvmt)
      /\ locked' = TRUE /\ lost' = lost
      /\ speeds' = IF raw \in Int THEN Hull(speeds, raw) ELSE speeds
      /\ spoilt' = (spoilt \/ straight \/ (jump /\ spds = <<>>) \/ (kept /\ new = <<>>))
  BY DEF Target
<1>2. /\ atRise \in Num /\ atFall \in Num
      /\ ~straight => atRise \in Int /\ atFall \in Int
  <2>1. r \in Harms \ {0} /\ f \in Harms \ {0}
    BY <1>1 DEF FoundBoth
  <2>2. fall[0] \in Nat /\ beyond \in Nat
    <3>1. 0 \in Harms
      BY ProcessingAssumption DEF Harms
    <3>2. Spectra \subseteq [Harms -> Levels] /\ Levels \subseteq Nat /\ Behind \subseteq Nat
      BY ProcessingAssumption
    <3> QED BY <3>1, <3>2
  <2>3. /\ atRise \in Num
        /\ Bend(rise, r, fall[0]) # 0 => atRise \in Int
    BY <2>1, <2>2, PlaceIsNum
  <2>4. /\ atFall \in Num
        /\ Bend(fall, f, beyond) # 0 => atFall \in Int
    BY <2>1, <2>2, PlaceIsNum
  <2> QED BY <2>3, <2>4
<1> HIDE DEF atRise, atFall, straight
<1>3. /\ raw \in Num /\ dist \in Num
      /\ ~straight => raw \in Int /\ dist \in Int
  BY <1>2, PlusIsNum, MinusIsNum
<1> HIDE DEF raw, dist
<1>4. spds \in Seq(Num) /\ lockedMvmt \in NumMvmt /\ spoilt \in BOOLEAN
  BY DEF ProcTypes
<1>5. lockedMvmt.dist \in Num /\ lockedMvmt.spd \in Num
  BY <1>4 DEF NumMvmt
<1>6. seen \in Num
  BY <1>3, <1>4, AverageIsNum
<1>7. seen = raw \/ (seen = AvgSpd(spds) /\ jump)
  OBVIOUS
<1> HIDE DEF seen, kept, jump
<1>8. new \in Seq(Num)
  BY <1>4, <1>6, AddedSpeeds
<1>9. (new = spds /\ spd = seen) \/ (new = AddSpd(spds, seen) /\ spd = AvgSpd(new))
  OBVIOUS
<1> HIDE DEF new
<1>10. AvgSpd(new) \in Num
  BY <1>8, AverageIsNum
<1>11. spd \in Num
  BY <1>6, <1>10
<1>12. far \in Num
  <2>1. Plus(lockedMvmt.spd, AvgSpd(new)) \in Num
    BY <1>5, <1>10, PlusIsNum
  <2> QED BY <1>5, <2>1, PlusIsNum, OverIsNum
<1> HIDE DEF spd, far
<1>13. mvmt \in NumMvmt
  BY <1>3, <1>11, <1>12 DEF NumMvmt
<1>14. mvmt.raw = raw /\ mvmt.spd = spd /\ mvmt.dist = IF kept THEN far ELSE dist
  OBVIOUS
<1> HIDE DEF mvmt
<1>15. pt' \in [det : BOOLEAN, dist : Int, spd : Num] /\ (pt'.det => pt'.spd = spd)
  BY <1>1, <1>13, <1>14, FilledPoint
<1>16. (spoilt => spoilt') /\ spoilt' \in BOOLEAN
  BY <1>1, <1>4 DEF straight, jump, kept
<1>17. /\ ~spoilt' => ~straight
       /\ jump /\ spds = <<>> => spoilt'
       /\ kept /\ spds' = <<>> => spoilt'
  BY <1>1
<1>18. \/ spds' = spds /\ lockedMvmt'.spd = seen
       \/ spds' = AddSpd(spds, seen) /\ lockedMvmt'.spd = AvgSpd(spds')
  BY <1>1, <1>9, <1>14
<1>19. \/ lockedMvmt'.dist = dist
       \/ /\ lockedMvmt'.dist = Plus(lockedMvmt.dist, Over(Plus(lockedMvmt.spd, AvgSpd(spds')), 2))
          /\ spds' = <<>> => spoilt'
  <2>1. CASE kept
    BY <1>1, <1>14, <1>17, <2>1 DEF far
  <2>2. CASE ~kept
    BY <1>1, <1>14, <2>2
  <2> QED BY <2>1, <2>2
<1>20. /\ ~spoilt' => raw \in Int /\ dist \in Int
       /\ speeds' = IF raw \in Int THEN Hull(speeds, raw) ELSE speeds
       /\ lockedMvmt'.raw = raw
       /\ seen = raw \/ (seen = AvgSpd(spds) /\ (spds = <<>> => spoilt'))
  BY <1>1, <1>3, <1>7, <1>14, <1>17
<1>21. pt'.det => pt'.spd = lockedMvmt'.spd
  BY <1>1, <1>14, <1>15
<1>22. spds' \in Seq(Num) /\ lockedMvmt' \in NumMvmt
  BY <1>1, <1>8, <1>13
<1>23. \E x, y, z \in Num :
         /\ ~spoilt' => x \in Int /\ y \in Int
         /\ speeds' = IF x \in Int THEN Hull(speeds, x) ELSE speeds
         /\ lockedMvmt'.raw = x
         /\ z = x \/ (z = AvgSpd(spds) /\ (spds = <<>> => spoilt'))
         /\ \/ spds' = spds /\ lockedMvmt'.spd = z
            \/ spds' = AddSpd(spds, z) /\ lockedMvmt'.spd = AvgSpd(spds')
         /\ \/ lockedMvmt'.dist = y
            \/ /\ lockedMvmt'.dist = Plus(lockedMvmt.dist, Over(Plus(lockedMvmt.spd, AvgSpd(spds')), 2))
               /\ spds' = <<>> => spoilt'
  BY <1>3, <1>6, <1>18, <1>19, <1>20
<1> QED BY <1>1, <1>15, <1>16, <1>21, <1>22, <1>23

\* What process_gap makes of them.
LEMMA GapStep ==
  ASSUME ProcTypes, NEW r, NEW f, Gap(r, f)
  PROVE  /\ locked' = locked /\ lost' = lost /\ spoilt' = spoilt
         /\ speeds' = IF locked THEN speeds ELSE Hull(speeds, 0)
         /\ lockedMvmt'.raw = lockedMvmt.raw
         /\ \/ spds' = spds /\ lockedMvmt'.spd = lockedMvmt.spd
            \/ spds' = AddSpd(spds, lockedMvmt.spd) /\ lockedMvmt'.spd = AvgSpd(spds')
         /\ \/ lockedMvmt'.dist = lockedMvmt.dist
            \/ lockedMvmt'.dist = Plus(lockedMvmt.dist, lockedMvmt'.spd)
         /\ spds' \in Seq(Num) /\ lockedMvmt' \in NumMvmt
         /\ pt' \in [det : BOOLEAN, dist : Int, spd : Num]
         /\ pt'.det => pt'.spd = lockedMvmt'.spd /\ (lockedMvmt'.dist \in Int => pt'.dist = lockedMvmt'.dist)
<1> DEFINE new  == IF config.avg THEN AddSpd(spds, lockedMvmt.spd) ELSE spds
           spd  == IF config.avg THEN AvgSpd(new) ELSE lockedMvmt.spd
           dist == IF config.recalc THEN Plus(lockedMvmt.dist, spd) ELSE lockedMvmt.dist
           mvmt == [lockedMvmt EXCEPT !.spd = spd,
                      !.dist = IF config.recalc THEN Plus(lockedMvmt.dist, spd) ELSE @]
<1>1. /\ spds' = new /\ lockedMvmt' = mvmt /\ Fill(mvmt)
      /\ speeds' = IF locked THEN speeds ELSE Hull(speeds, 0)
      /\ locked' = locked /\ lost' = lost /\ spoilt' = spoilt
  BY DEF Gap
<1>2. spds \in Seq(Num) /\ lockedMvmt \in NumMvmt
  BY DEF ProcTypes
<1>3. lockedMvmt.dist \in Num /\ lockedMvmt.spd \in Num /\ lockedMvmt.raw \in Num
  BY <1>2 DEF NumMvmt
<1>4. new \in Seq(Num)
  BY <1>2, <1>3, AddedSpeeds
<1>5. (new = spds /\ spd = lockedMvmt.spd) \/ (new = AddSpd(spds, lockedMvmt.spd) /\ spd = AvgSpd(new))
  OBVIOUS
<1> HIDE DEF new
<1>6. spd \in Num
  BY <1>3, <1>4, AverageIsNum
<1> HIDE DEF spd
<1>7. dist \in Num
  BY <1>3, <1>6, PlusIsNum
<1>8. mvmt = [lockedMvmt EXCEPT !.spd = spd, !.dist = dist]
  OBVIOUS
<1>9. dist = lockedMvmt.dist \/ dist = Plus(lockedMvmt.dist, spd)
  OBVIOUS
<1> HIDE DEF mvmt, dist
<1>10. mvmt \in NumMvmt /\ mvmt.raw = lockedMvmt.raw /\ mvmt.spd = spd /\ mvmt.dist = dist
  BY <1>2, <1>3, <1>6, <1>7, <1>8 DEF NumMvmt
<1>11. /\ pt' \in [det : BOOLEAN, dist : Int, spd : Num]
       /\ pt'.det => pt'.spd = spd /\ (dist \in Int => pt'.dist = dist)
  BY <1>1, <1>10, FilledPoint
<1> QED BY <1>1, <1>4, <1>5, <1>9, <1>10, <1>11

\* What process_loss makes of them.
LEMMA LossStep ==
  ASSUME NEW r, NEW f, Loss(r, f)
  PROVE  /\ locked' = FALSE /\ lost' = TRUE /\ spoilt' = FALSE
         /\ spds' = <<>> /\ spds' \in Seq(Num) /\ lockedMvmt' = NoMvmt /\ lockedMvmt' \in NumMvmt
         /\ pt' = NoPt /\ pt' \in [det : BOOLEAN, dist : Int, spd : Num]
         /\ speeds' = NoSpeeds /\ speeds' \in HullOf
<1>1. 0 \in Num /\ 0 \in Int
  BY DEF Num
<1>2. /\ locked' = FALSE /\ lost' = TRUE /\ spoilt' = FALSE
      /\ spds' = <<>> /\ lockedMvmt' = NoMvmt /\ pt' = NoPt /\ speeds' = NoSpeeds
  BY DEF Loss, LoseTarget
<1>3. NoMvmt \in NumMvmt
  BY <1>1 DEF NoMvmt, NumMvmt
<1>4. NoPt \in [det : BOOLEAN, dist : Int, spd : Num]
  BY <1>1 DEF NoPt
<1>5. NoSpeeds \in HullOf
  BY DEF NoSpeeds, HullOf
<1> QED BY <1>2, <1>3, <1>4, <1>5

\* A collection that succeeded had two peaks to look at.
LEMMA PeaksArePlaces ==
  ASSUME ProcTypes, ProcessData
  PROVE  \E rise, fall \in Spectra, r, f \in Harms :
           \/ \E beyond \in Behind : Target(rise, r, fall, f, beyond)
           \/ Gap(r, f)
           \/ Loss(r, f)
<1> DEFINE peak == [spectrum \in Spectra |-> Peak(spectrum)]
<1>1. th \in Thresholds
  BY DEF ProcTypes
<1>2. \A spectrum \in Spectra : peak[spectrum] \in Harms
  BY <1>1, PeakIsPlace
<1>3. PICK rise \in Spectra, fall \in Spectra :
         \/ \E beyond \in Behind : Target(rise, peak[rise], fall, peak[fall], beyond)
         \/ Gap(peak[rise], peak[fall])
         \/ Loss(peak[rise], peak[fall])
  BY Zenon DEF ProcessData
<1> HIDE DEF peak
<1> QED BY <1>2, <1>3, Zenon

\* Every step keeps the types.
LEMMA TypesStep ==
  ASSUME ProcTypes, [Next]_vars
  PROVE  ProcTypes'
<1>1. CASE ProcessData
  <2>1. config' = config /\ th' = th
    BY <1>1 DEF ProcessData, setup
  <2>2. config' \in [restore : BOOLEAN, recalc : BOOLEAN, avg : BOOLEAN] /\ th' \in Thresholds
    BY <2>1 DEF ProcTypes
  <2>3. speeds \in HullOf /\ locked \in BOOLEAN /\ lost \in BOOLEAN /\ spoilt \in BOOLEAN
    BY DEF ProcTypes
  <2>4. PICK rise \in Spectra, fall \in Spectra, r \in Harms, f \in Harms :
           \/ \E beyond \in Behind : Target(rise, r, fall, f, beyond)
           \/ Gap(r, f)
           \/ Loss(r, f)
    BY <1>1, PeaksArePlaces
  <2>5. ASSUME NEW beyond \in Behind, Target(rise, r, fall, f, beyond)
        PROVE  ProcTypes'
    <3>1. /\ locked' = TRUE /\ lost' = lost
          /\ spoilt' \in BOOLEAN /\ spds' \in Seq(Num) /\ lockedMvmt' \in NumMvmt
          /\ pt' \in [det : BOOLEAN, dist : Int, spd : Num]
      BY <2>5, TargetStep
    <3>2. \E raw \in Num : speeds' = IF raw \in Int THEN Hull(speeds, raw) ELSE speeds
      BY <2>5, TargetStep
    <3>3. speeds' \in HullOf
      BY <2>3, <3>2, HullWidens
    <3> QED BY <2>2, <2>3, <3>1, <3>3 DEF ProcTypes
  <2>6. CASE Gap(r, f)
    <3>1. /\ locked' = locked /\ lost' = lost /\ spoilt' = spoilt
          /\ speeds' = IF locked THEN speeds ELSE Hull(speeds, 0)
          /\ spds' \in Seq(Num) /\ lockedMvmt' \in NumMvmt
          /\ pt' \in [det : BOOLEAN, dist : Int, spd : Num]
      BY <2>6, GapStep
    <3>2. Hull(speeds, 0) \in HullOf
      BY <2>3, HullWidens
    <3> QED BY <2>2, <2>3, <3>1, <3>2 DEF ProcTypes
  <2>7. CASE Loss(r, f)
    <3>1. /\ locked' = FALSE /\ lost' = TRUE /\ spoilt' = FALSE
          /\ spds' \in Seq(Num) /\ lockedMvmt' \in NumMvmt
          /\ pt' \in [det : BOOLEAN, dist : Int, spd : Num] /\ speeds' \in HullOf
      BY <2>7, LossStep
    <3> QED BY <2>2, <3>1 DEF ProcTypes
  <2> QED BY <2>4, <2>5, <2>6, <2>7
<1>2. CASE CollectFailed
  <2>1. NoPt \in [det : BOOLEAN, dist : Int, spd : Num]
    BY DEF NoPt, Num
  <2>2. /\ pt' = NoPt /\ config' = config /\ th' = th /\ locked' = locked /\ spds' = spds
        /\ lockedMvmt' = lockedMvmt /\ lost' = lost /\ speeds' = speeds /\ spoilt' = spoilt
    BY <1>2 DEF CollectFailed, setup, track
  <2> QED BY <2>1, <2>2 DEF ProcTypes
<1>3. CASE SetTh
  <2>1. /\ th' \in Thresholds /\ pt' = pt /\ config' = config /\ locked' = locked /\ spds' = spds
        /\ lockedMvmt' = lockedMvmt /\ lost' = lost /\ speeds' = speeds /\ spoilt' = spoilt
    BY <1>3 DEF SetTh, track
  <2> QED BY <2>1 DEF ProcTypes
<1>4. CASE UNCHANGED vars
  <2>1. /\ pt' = pt /\ config' = config /\ th' = th /\ locked' = locked /\ spds' = spds
        /\ lockedMvmt' = lockedMvmt /\ lost' = lost /\ speeds' = speeds /\ spoilt' = spoilt
    BY <1>4 DEF vars, setup, track, hist
  <2> QED BY <2>1 DEF ProcTypes
<1> QED BY <1>1, <1>2, <1>3, <1>4 DEF Next

-----------------------------------------------------------------------------
(***************************************************************************)
(* The parts of the invariant.                                             *)
(***************************************************************************)
\* Every other step leaves the target alone, but for its point.
LEMMA OtherStep ==
  ASSUME CollectFailed \/ SetTh \/ UNCHANGED vars
  PROVE  /\ locked' = locked /\ spds' = spds /\ lockedMvmt' = lockedMvmt
         /\ lost' = lost /\ speeds' = speeds /\ spoilt' = spoilt
         /\ pt' = pt \/ pt' = NoPt
BY DEF CollectFailed, SetTh, vars, setup, track, hist

\* What is added to measured speeds is measured.
LEMMA AddedAreMeasured ==
  ASSUME NEW s \in Seq(Num), NEW v \in Num, NEW hull \in HullOf,
         AllMeasured(s, hull), Measured(v, hull)
  PROVE  AllMeasured(AddSpd(s, v), hull) /\ Measured(AvgSpd(AddSpd(s, v)), hull)
<1>1. hull.lo \in Int /\ hull.hi \in Int
  BY DEF HullOf
<1>2. \A t \in Seq(Num) : t # <<>> /\ AllMeasured(t, hull) => Measured(AvgSpd(t), hull)
  BY <1>1, AverageIsBetween DEF AllMeasured, Measured
<1> DEFINE w == AddSpd(s, v)
<1>3. PICK t \in Seq(Num) :
         /\ t # <<>> /\ t[1] = v
         /\ \A i \in DOMAIN t : i = 1 \/ (i - 1 \in DOMAIN s /\ t[i] = s[i - 1])
         /\ w \in Seq(Num) /\ w # <<>> /\ w[1] = AvgSpd(t)
         /\ \A i \in DOMAIN w : i = 1 \/ (i - 1 \in DOMAIN s /\ w[i] = s[i - 1])
  BY AddedSpeeds
<1> HIDE DEF w
<1>4. AllMeasured(t, hull)
  BY <1>3 DEF AllMeasured
<1>5. Measured(AvgSpd(t), hull)
  BY <1>2, <1>3, <1>4
<1>6. AllMeasured(w, hull)
  BY <1>3, <1>5 DEF AllMeasured
<1>7. Measured(AvgSpd(w), hull)
  BY <1>2, <1>3, <1>6
<1> QED BY <1>6, <1>7 DEF w

\* Added to nothing but zeros, zero leaves zeros.
LEMMA AddedAreZero ==
  ASSUME NEW s \in Seq(Num), \A i \in DOMAIN s : s[i] = 0
  PROVE  (\A i \in DOMAIN AddSpd(s, 0) : AddSpd(s, 0)[i] = 0) /\ AvgSpd(AddSpd(s, 0)) = 0
<1>z. 0 \in Num /\ 0 \in Int
  BY ProcessingAssumption DEF Num
<1>2. ASSUME NEW t \in Seq(Num), t # <<>>, \A i \in DOMAIN t : t[i] = 0 PROVE AvgSpd(t) = 0
  <2>1. AvgSpd(t) \in Int
    BY <1>2, <1>z, AverageIsNumber
  <2>2. AvgSpd(t) \in Int
    BY <2>1, ProcessingAssumption
  <2>3. \A i \in DOMAIN t : t[i] \in Int => 0 <= t[i] /\ t[i] <= 0
    BY <1>2
  <2>4. 0 <= AvgSpd(t) /\ AvgSpd(t) <= 0
    BY <1>2, <2>2, <2>3, AverageIsBetween
  <2> QED BY <2>1, <2>4
<1> DEFINE w == AddSpd(s, 0)
<1>3. PICK t \in Seq(Num) :
         /\ t # <<>> /\ t[1] = 0
         /\ \A i \in DOMAIN t : i = 1 \/ (i - 1 \in DOMAIN s /\ t[i] = s[i - 1])
         /\ w \in Seq(Num) /\ w # <<>> /\ w[1] = AvgSpd(t)
         /\ \A i \in DOMAIN w : i = 1 \/ (i - 1 \in DOMAIN s /\ w[i] = s[i - 1])
  BY <1>z, AddedSpeeds
<1> HIDE DEF w
<1>4. \A i \in DOMAIN t : t[i] = 0
  BY <1>3
<1>5. AvgSpd(t) = 0
  BY <1>2, <1>3, <1>4
<1>6. \A i \in DOMAIN w : w[i] = 0
  BY <1>3, <1>5
<1>7. AvgSpd(w) = 0
  BY <1>2, <1>3, <1>6
<1> QED BY <1>6, <1>7 DEF w

\* Added to numbers a number leaves numbers.
LEMMA AddedAreNumbers ==
  ASSUME NEW s \in Seq(Num), NEW v \in Num, v \in Int, \A i \in DOMAIN s : s[i] \in Int
  PROVE  /\ AddSpd(s, v) # <<>> /\ AvgSpd(AddSpd(s, v)) \in Int
         /\ \A i \in DOMAIN AddSpd(s, v) : AddSpd(s, v)[i] \in Int
<1>2. ASSUME NEW t \in Seq(Num), t # <<>>, \A i \in DOMAIN t : t[i] \in Int PROVE AvgSpd(t) \in Int
  <2>1. AvgSpd(t) \in Int
    BY <1>2, AverageIsNumber
  <2> QED BY <2>1, ProcessingAssumption
<1> DEFINE w == AddSpd(s, v)
<1>3. PICK t \in Seq(Num) :
         /\ t # <<>> /\ t[1] = v
         /\ \A i \in DOMAIN t : i = 1 \/ (i - 1 \in DOMAIN s /\ t[i] = s[i - 1])
         /\ w \in Seq(Num) /\ w # <<>> /\ w[1] = AvgSpd(t)
         /\ \A i \in DOMAIN w : i = 1 \/ (i - 1 \in DOMAIN s /\ w[i] = s[i - 1])
  BY AddedSpeeds
<1> HIDE DEF w
<1>4. \A i \in DOMAIN t : t[i] \in Int
  BY <1>3
<1>5. AvgSpd(t) \in Int
  BY <1>2, <1>3, <1>4
<1>6. \A i \in DOMAIN w : w[i] \in Int
  BY <1>3, <1>5
<1>7. AvgSpd(w) \in Int
  BY <1>2, <1>3, <1>6
<1> QED BY <1>3, <1>6, <1>7 DEF w

\* Every step leaves what is not there unmoved.
LEMMA NothingMovesStep ==
  ASSUME ProcTypes, NothingMoves, [Next]_vars
  PROVE  NothingMoves'
<1>z. NoMvmt.dist = 0 /\ NoMvmt.spd = 0 /\ NoMvmt.raw = 0 /\ 0 \in Int
  BY DEF NoMvmt
<1>p. NoPt.det = FALSE
  BY DEF NoPt
<1>1. CASE ProcessData
  <2>4. PICK rise \in Spectra, fall \in Spectra, r \in Harms, f \in Harms :
           \/ \E beyond \in Behind : Target(rise, r, fall, f, beyond)
           \/ Gap(r, f)
           \/ Loss(r, f)
    BY <1>1, PeaksArePlaces
  <2>5. ASSUME NEW beyond \in Behind, Target(rise, r, fall, f, beyond)
        PROVE  NothingMoves'
    <3>1. locked'
      BY <2>5, TargetStep
    <3> QED BY <3>1 DEF NothingMoves
  <2>6. CASE Gap(r, f)
    <3> SUFFICES ASSUME lost', ~locked'
                 PROVE  /\ lockedMvmt' = NoMvmt /\ \A i \in DOMAIN spds' : spds'[i] = 0
                        /\ pt'.det => pt'.dist = 0 /\ pt'.spd = 0
      BY DEF NothingMoves
    <3>1. /\ locked' = locked /\ lost' = lost
          /\ lockedMvmt'.raw = lockedMvmt.raw
          /\ \/ spds' = spds /\ lockedMvmt'.spd = lockedMvmt.spd
             \/ spds' = AddSpd(spds, lockedMvmt.spd) /\ lockedMvmt'.spd = AvgSpd(spds')
          /\ \/ lockedMvmt'.dist = lockedMvmt.dist
             \/ lockedMvmt'.dist = Plus(lockedMvmt.dist, lockedMvmt'.spd)
          /\ lockedMvmt' \in NumMvmt
          /\ pt'.det => pt'.spd = lockedMvmt'.spd /\ (lockedMvmt'.dist \in Int => pt'.dist = lockedMvmt'.dist)
      BY <2>6, GapStep
    <3>2. lockedMvmt = NoMvmt /\ \A i \in DOMAIN spds : spds[i] = 0
      BY <3>1 DEF NothingMoves
    <3>3. spds \in Seq(Num)
      BY DEF ProcTypes
    <3>4. lockedMvmt.spd = 0 /\ lockedMvmt.dist = 0 /\ lockedMvmt.raw = 0
      BY <1>z, <3>2
    <3>5. (\A i \in DOMAIN spds' : spds'[i] = 0) /\ lockedMvmt'.spd = 0
      BY <3>1, <3>2, <3>3, <3>4, AddedAreZero
    <3>6. Plus(0, 0) = 0
      BY ProcessingAssumption DEF Plus
    <3>7. lockedMvmt'.dist = 0 /\ lockedMvmt'.raw = 0
      BY <3>1, <3>4, <3>5, <3>6
    <3>8. lockedMvmt' = NoMvmt
      BY <3>1, <3>5, <3>7 DEF NumMvmt, NoMvmt
    <3> QED BY <1>z, <3>1, <3>5, <3>7, <3>8
  <2>7. CASE Loss(r, f)
    <3>1. spds' = <<>> /\ lockedMvmt' = NoMvmt /\ pt' = NoPt
      BY <2>7, LossStep
    <3> QED BY <1>p, <3>1 DEF NothingMoves
  <2> QED BY <2>4, <2>5, <2>6, <2>7
<1>2. CASE CollectFailed \/ SetTh \/ UNCHANGED vars
  <2>1. /\ locked' = locked /\ spds' = spds /\ lockedMvmt' = lockedMvmt /\ lost' = lost
        /\ pt' = pt \/ pt' = NoPt
    BY <1>2, OtherStep
  <2> QED BY <1>p, <2>1 DEF NothingMoves
<1> QED BY <1>1, <1>2 DEF Next

\* Every step keeps the speeds within those measured.
LEMMA SpeedsMeasuredStep ==
  ASSUME ProcTypes, NothingMoves, SpeedsMeasured, [Next]_vars
  PROVE  SpeedsMeasured'
<1>p. NoPt.det = FALSE
  BY DEF NoPt
<1>t. spds \in Seq(Num) /\ lockedMvmt.spd \in Num /\ speeds \in HullOf /\ locked \in BOOLEAN
      /\ pt.spd \in Num
  BY DEF ProcTypes, NumMvmt
<1>n. \A i \in DOMAIN spds : spds[i] \in Num
  BY <1>t
<1>w. ASSUME NEW v \in Int
      PROVE  /\ Hull(speeds, v) \in HullOf /\ ~IsEmpty(Hull(speeds, v)) /\ Measured(v, Hull(speeds, v))
             /\ AllMeasured(spds, speeds) => AllMeasured(spds, Hull(speeds, v))
  BY <1>n, <1>t, HullWidens DEF AllMeasured
<1>1. CASE ProcessData
  <2>4. PICK rise \in Spectra, fall \in Spectra, r \in Harms, f \in Harms :
           \/ \E beyond \in Behind : Target(rise, r, fall, f, beyond)
           \/ Gap(r, f)
           \/ Loss(r, f)
    BY <1>1, PeaksArePlaces
  <2>5. ASSUME NEW beyond \in Behind, Target(rise, r, fall, f, beyond)
        PROVE  SpeedsMeasured'
    <3> SUFFICES ASSUME lost'
                 PROVE  /\ AllMeasured(spds', speeds') /\ Measured(lockedMvmt'.spd, speeds')
                        /\ pt'.det => Measured(pt'.spd, speeds')
      BY DEF SpeedsMeasured
    <3>1. lost' = lost /\ (pt'.det => pt'.spd = lockedMvmt'.spd)
      BY <2>5, TargetStep
    <3>2. \E raw, seen \in Num :
             /\ speeds' = IF raw \in Int THEN Hull(speeds, raw) ELSE speeds
             /\ seen = raw \/ seen = AvgSpd(spds)
             /\ \/ spds' = spds /\ lockedMvmt'.spd = seen
                \/ spds' = AddSpd(spds, seen) /\ lockedMvmt'.spd = AvgSpd(spds')
      <4>1. PICK raw \in Num, dist \in Num, seen \in Num :
               /\ speeds' = IF raw \in Int THEN Hull(speeds, raw) ELSE speeds
               /\ seen = raw \/ (seen = AvgSpd(spds) /\ (spds = <<>> => spoilt'))
               /\ \/ spds' = spds /\ lockedMvmt'.spd = seen
                  \/ spds' = AddSpd(spds, seen) /\ lockedMvmt'.spd = AvgSpd(spds')
        BY <2>5, TargetStep
      <4> QED BY <4>1
    <3>3. PICK raw \in Num, seen \in Num :
             /\ speeds' = IF raw \in Int THEN Hull(speeds, raw) ELSE speeds
             /\ seen = raw \/ seen = AvgSpd(spds)
             /\ \/ spds' = spds /\ lockedMvmt'.spd = seen
                \/ spds' = AddSpd(spds, seen) /\ lockedMvmt'.spd = AvgSpd(spds')
      BY <3>2
    <3>4. AllMeasured(spds, speeds)
      BY <3>1 DEF SpeedsMeasured
    <3>5. speeds' \in HullOf /\ Measured(raw, speeds') /\ AllMeasured(spds, speeds')
      <4>1. CASE raw \in Int
        BY <1>w, <3>3, <3>4, <4>1
      <4>2. CASE raw \notin Int
        BY <1>t, <3>3, <3>4, <4>2 DEF Measured
      <4> QED BY <4>1, <4>2
    <3>6. Measured(AvgSpd(spds), speeds')
      <4>1. CASE spds = <<>>
        BY <4>1, ProcessingAssumption DEF AvgSpd, Measured
      <4>2. CASE spds # <<>>
        <5>1. speeds'.lo \in Int /\ speeds'.hi \in Int
          BY <3>5 DEF HullOf
        <5> QED BY <1>t, <3>5, <4>2, <5>1, AverageIsBetween DEF AllMeasured, Measured
      <4> QED BY <4>1, <4>2
    <3>7. Measured(seen, speeds')
      BY <3>3, <3>5, <3>6
    <3>8. AllMeasured(spds', speeds') /\ Measured(lockedMvmt'.spd, speeds')
      BY <1>t, <3>3, <3>5, <3>7, AddedAreMeasured
    <3> QED BY <3>1, <3>5, <3>8
  <2>6. CASE Gap(r, f)
    <3> SUFFICES ASSUME lost'
                 PROVE  /\ AllMeasured(spds', speeds') /\ Measured(lockedMvmt'.spd, speeds')
                        /\ pt'.det => Measured(pt'.spd, speeds')
      BY DEF SpeedsMeasured
    <3>1. /\ locked' = locked /\ lost' = lost
          /\ speeds' = IF locked THEN speeds ELSE Hull(speeds, 0)
          /\ \/ spds' = spds /\ lockedMvmt'.spd = lockedMvmt.spd
             \/ spds' = AddSpd(spds, lockedMvmt.spd) /\ lockedMvmt'.spd = AvgSpd(spds')
          /\ pt'.det => pt'.spd = lockedMvmt'.spd /\ (lockedMvmt'.dist \in Int => pt'.dist = lockedMvmt'.dist)
      BY <2>6, GapStep
    <3>2. AllMeasured(spds, speeds) /\ (locked => Measured(lockedMvmt.spd, speeds))
      BY <3>1 DEF SpeedsMeasured
    <3>3. AllMeasured(spds, speeds') /\ Measured(lockedMvmt.spd, speeds') /\ speeds' \in HullOf
      <4>1. CASE locked
        BY <1>t, <3>1, <3>2, <4>1
      <4>2. CASE ~locked
        <5>1. lockedMvmt.spd = 0
          BY <3>1, <4>2 DEF NothingMoves, NoMvmt
        <5> QED BY <1>w, <3>1, <3>2, <4>2, <5>1
      <4> QED BY <4>1, <4>2
    <3>4. AllMeasured(spds', speeds') /\ Measured(lockedMvmt'.spd, speeds')
      BY <1>t, <3>1, <3>3, AddedAreMeasured
    <3> QED BY <3>1, <3>3, <3>4
  <2>7. CASE Loss(r, f)
    <3>1. locked' = FALSE /\ spds' = <<>> /\ pt' = NoPt
      BY <2>7, LossStep
    <3>2. AllMeasured(spds', speeds')
      BY <3>1 DEF AllMeasured
    <3> QED BY <1>p, <3>1, <3>2 DEF SpeedsMeasured
  <2> QED BY <2>4, <2>5, <2>6, <2>7
<1>2. CASE CollectFailed \/ SetTh \/ UNCHANGED vars
  <2>1. /\ locked' = locked /\ spds' = spds /\ lockedMvmt' = lockedMvmt /\ lost' = lost
        /\ speeds' = speeds
        /\ pt' = pt \/ pt' = NoPt
    BY <1>2, OtherStep
  <2> QED BY <1>p, <2>1 DEF SpeedsMeasured
<1> QED BY <1>1, <1>2 DEF Next

\* No step makes anything else of numbers but a division by 0.
LEMMA NaNStep ==
  ASSUME ProcTypes, NaNHasCause, [Next]_vars
  PROVE  NaNHasCause'
<1>t. /\ spds \in Seq(Num) /\ lockedMvmt.spd \in Num /\ lockedMvmt.dist \in Num
      /\ spoilt \in BOOLEAN
  BY DEF ProcTypes, NumMvmt
<1>z. \A v \in Int : v \in Num
  BY DEF Num
<1>1. CASE ProcessData
  <2>4. PICK rise \in Spectra, fall \in Spectra, r \in Harms, f \in Harms :
           \/ \E beyond \in Behind : Target(rise, r, fall, f, beyond)
           \/ Gap(r, f)
           \/ Loss(r, f)
    BY <1>1, PeaksArePlaces
  <2>5. ASSUME NEW beyond \in Behind, Target(rise, r, fall, f, beyond)
        PROVE  NaNHasCause'
    <3> SUFFICES ASSUME lost', ~spoilt'
                 PROVE  /\ lockedMvmt'.dist \in Int /\ lockedMvmt'.spd \in Int /\ lockedMvmt'.raw \in Int
                        /\ \A i \in DOMAIN spds' : spds'[i] \in Int
      BY DEF NaNHasCause
    <3>1. lost' = lost /\ (spoilt => spoilt') /\ spds' \in Seq(Num)
      BY <2>5, TargetStep
    <3>2. \E raw, dist, seen \in Num :
             /\ ~spoilt' => raw \in Int /\ dist \in Int
             /\ speeds' = IF raw \in Int THEN Hull(speeds, raw) ELSE speeds
             /\ lockedMvmt'.raw = raw
             /\ seen = raw \/ (seen = AvgSpd(spds) /\ (spds = <<>> => spoilt'))
             /\ \/ spds' = spds /\ lockedMvmt'.spd = seen
                \/ spds' = AddSpd(spds, seen) /\ lockedMvmt'.spd = AvgSpd(spds')
             /\ \/ lockedMvmt'.dist = dist
                \/ /\ lockedMvmt'.dist = Plus(lockedMvmt.dist, Over(Plus(lockedMvmt.spd, AvgSpd(spds')), 2))
                   /\ spds' = <<>> => spoilt'
      BY <2>5, TargetStep
    <3>3. PICK raw \in Int, dist \in Int, seen \in Num :
             /\ lockedMvmt'.raw = raw
             /\ seen = raw \/ (seen = AvgSpd(spds) /\ spds # <<>>)
             /\ \/ spds' = spds /\ lockedMvmt'.spd = seen
                \/ spds' = AddSpd(spds, seen) /\ lockedMvmt'.spd = AvgSpd(spds')
             /\ \/ lockedMvmt'.dist = dist
                \/ /\ lockedMvmt'.dist = Plus(lockedMvmt.dist, Over(Plus(lockedMvmt.spd, AvgSpd(spds')), 2))
                   /\ spds' # <<>>
      BY <3>2
    <3>4. /\ lockedMvmt.spd \in Int /\ lockedMvmt.dist \in Int
          /\ \A i \in DOMAIN spds : spds[i] \in Int
      BY <3>1 DEF NaNHasCause
    <3>5. seen \in Int
      BY <1>t, <3>3, <3>4, AverageIsNumber
    <3>6. lockedMvmt'.spd \in Int /\ \A i \in DOMAIN spds' : spds'[i] \in Int
      BY <1>t, <3>3, <3>4, <3>5, AddedAreNumbers
    <3>7. CASE /\ lockedMvmt'.dist = Plus(lockedMvmt.dist, Over(Plus(lockedMvmt.spd, AvgSpd(spds')), 2))
               /\ spds' # <<>>
      <4> DEFINE a == Plus(lockedMvmt.spd, AvgSpd(spds'))
      <4>1. AvgSpd(spds') \in Int
        BY <3>1, <3>6, <3>7, AverageIsNumber
      <4>2. a \in Int
        BY <1>z, <3>4, <4>1, PlusIsNum
      <4>3. Over(a, 2) \in Int
        BY <4>2 DEF Over
      <4> HIDE DEF a
      <4>4. lockedMvmt'.dist \in Int
        BY <1>z, <3>4, <3>7, <4>3, PlusIsNum DEF a
      <4> QED BY <3>3, <3>6, <4>4
    <3> QED BY <3>3, <3>6, <3>7
  <2>6. CASE Gap(r, f)
    <3> SUFFICES ASSUME lost', ~spoilt'
                 PROVE  /\ lockedMvmt'.dist \in Int /\ lockedMvmt'.spd \in Int /\ lockedMvmt'.raw \in Int
                        /\ \A i \in DOMAIN spds' : spds'[i] \in Int
      BY DEF NaNHasCause
    <3>1. /\ lost' = lost /\ spoilt' = spoilt /\ lockedMvmt'.raw = lockedMvmt.raw
          /\ \/ spds' = spds /\ lockedMvmt'.spd = lockedMvmt.spd
             \/ spds' = AddSpd(spds, lockedMvmt.spd) /\ lockedMvmt'.spd = AvgSpd(spds')
          /\ \/ lockedMvmt'.dist = lockedMvmt.dist
             \/ lockedMvmt'.dist = Plus(lockedMvmt.dist, lockedMvmt'.spd)
      BY <2>6, GapStep
    <3>2. /\ lockedMvmt.dist \in Int /\ lockedMvmt.spd \in Int /\ lockedMvmt.raw \in Int
          /\ \A i \in DOMAIN spds : spds[i] \in Int
      BY <3>1 DEF NaNHasCause
    <3>3. lockedMvmt'.spd \in Int /\ \A i \in DOMAIN spds' : spds'[i] \in Int
      BY <1>t, <3>1, <3>2, AddedAreNumbers
    <3>4. lockedMvmt'.dist \in Int
      BY <1>z, <3>1, <3>2, <3>3, PlusIsNum
    <3> QED BY <3>1, <3>2, <3>3, <3>4
  <2>7. CASE Loss(r, f)
    <3>1. spds' = <<>> /\ lockedMvmt' = NoMvmt
      BY <2>7, LossStep
    <3> QED BY <3>1 DEF NaNHasCause, NoMvmt
  <2> QED BY <2>4, <2>5, <2>6, <2>7
<1>2. CASE CollectFailed \/ SetTh \/ UNCHANGED vars
  <2>1. /\ spds' = spds /\ lockedMvmt' = lockedMvmt /\ lost' = lost /\ spoilt' = spoilt
    BY <1>2, OtherStep
  <2> QED BY <2>1 DEF NaNHasCause
<1> QED BY <1>1, <1>2 DEF Next

-----------------------------------------------------------------------------
(***************************************************************************)
(* The peak is the strongest that reaches the line.                        *)
(***************************************************************************)
\* Multiples of a positive number are ordered as their factors.
LEMMA FactorsOrdered ==
  ASSUME NEW d \in Nat \ {0}, NEW a \in Int, NEW b \in Int
  PROVE  a <= b <=> a * d <= b * d
<1>1. \A x \in Nat : x * d >= 0 /\ x * d \in Int
  OBVIOUS
<1>2. a <= b => a * d <= b * d
  <2> SUFFICES ASSUME a <= b PROVE a * d <= b * d
    OBVIOUS
  <2>1. b - a \in Nat
    OBVIOUS
  <2>2. b * d = a * d + (b - a) * d /\ a * d \in Int
    OBVIOUS
  <2> QED BY <1>1, <2>1, <2>2
<1>3. b < a => b * d < a * d
  <2> SUFFICES ASSUME b < a PROVE b * d < a * d
    OBVIOUS
  <2>1. a - b - 1 \in Nat
    OBVIOUS
  <2>2. a * d = b * d + (a - b - 1) * d + d /\ b * d \in Int
    OBVIOUS
  <2> QED BY <1>1, <2>1, <2>2
<1>4. a * d \in Int /\ b * d \in Int
  OBVIOUS
<1> QED BY <1>2, <1>3, <1>4

\* Division of C: rounded down for what is not negative, otherwise up.
LEMMA QuotRounds ==
  ASSUME NEW d \in Nat \ {0}, NEW a \in Int
  PROVE  /\ Quot(a, d) \in Int /\ a < Quot(a, d) * d + d
         /\ a >= 0 => Quot(a, d) * d <= a
         /\ a < 0 => Quot(a, d) * d - d < a
<1>1. CASE a >= 0
  <2> DEFINE b == a \div d
  <2>1. b \in Int /\ b * d <= a /\ a < b * d + d
    OBVIOUS
  <2>2. Quot(a, d) = b
    BY <1>1 DEF Quot
  <2> QED BY <1>1, <2>1, <2>2
<1>2. CASE a < 0
  <2> DEFINE b == (-a) \div d
  <2>1. b \in Int /\ b * d <= -a /\ -a < b * d + d
    OBVIOUS
  <2>2. Quot(a, d) = -b
    BY <1>2 DEF Quot
  <2> HIDE DEF b
  <2>3. Quot(a, d) \in Int /\ Quot(a, d) * d = -(b * d) /\ b * d \in Int
    BY <2>1, <2>2
  <2> QED BY <1>2, <2>1, <2>3
<1> QED BY <1>1, <1>2

Segment(i, h) == i \in 1 .. Len(th) - 1 /\ th[i].x <= h /\ h <= th[i + 1].x
\* The line of the segment at h, against lev.
Covers(i, h, lev) ==
  lev * (th[i + 1].x - th[i].x) >= OnLine(th[i], th[i + 1], h)

\* What is_above_threshold computes against the line: it accepts all that is on
\* it or above, and nothing that is a whole level below.
LEMMA LevelOfLine ==
  ASSUME NEW p \in Point, NEW q \in Point, p.x < q.x, NEW h \in Int, NEW lev \in Int
  PROVE  /\ lev * (q.x - p.x) >= OnLine(p, q, h) => lev >= Level(p, q, h)
         /\ lev >= Level(p, q, h) => (lev + 1) * (q.x - p.x) >= OnLine(p, q, h)
<1> DEFINE d == q.x - p.x
           a == (h - p.x) * (q.y - p.y)
           k == lev - p.y
           b == Quot(a, d)
<1>1. p.x \in Int /\ q.x \in Int /\ p.y \in Int /\ q.y \in Int
  BY ProcessingAssumption DEF Point, Harms
<1>2. d \in Nat \ {0} /\ a \in Int /\ k \in Int
  BY <1>1
<1>3. b \in Int /\ a < b * d + d /\ (a >= 0 => b * d <= a) /\ (a < 0 => b * d - d < a)
  BY <1>2, QuotRounds
<1>4. Level(p, q, h) = p.y + b
  BY DEF Level
<1>5. OnLine(p, q, h) = p.y * d + a
  BY <1>1 DEF OnLine
<1>6. lev * d = p.y * d + k * d /\ (lev + 1) * d = p.y * d + (k + 1) * d
  BY <1>1
<1>7. lev >= Level(p, q, h) <=> b <= k
  BY <1>1, <1>3, <1>4
<1> HIDE DEF d, a, k, b
<1>8. b * d \in Int /\ k * d \in Int /\ p.y * d \in Int /\ (k + 1) * d = k * d + d /\ d \in Int
  BY <1>1, <1>2, <1>3
<1>9. ASSUME lev * d >= OnLine(p, q, h) PROVE b <= k
  <2>1. a <= k * d
    BY <1>2, <1>5, <1>6, <1>8, <1>9
  <2>2. CASE a >= 0
    <3>1. b * d <= k * d
      BY <1>2, <1>3, <1>8, <2>1, <2>2
    <3> QED BY <1>2, <1>3, <3>1, FactorsOrdered
  <2>3. CASE a < 0
    <3>1. b * d - d < k * d
      BY <1>2, <1>3, <1>8, <2>1, <2>3
    <3>2. ~ ((k + 1) * d <= b * d)
      BY <1>8, <3>1
    <3>3. ~ (k + 1 <= b)
      BY <1>2, <1>3, <3>2, FactorsOrdered
    <3> QED BY <1>2, <1>3, <3>3
  <2> QED BY <1>2, <2>2, <2>3
<1>10. ASSUME b <= k PROVE (lev + 1) * d >= OnLine(p, q, h)
  <2>1. b * d <= k * d
    BY <1>2, <1>3, <1>10, FactorsOrdered
  <2> QED BY <1>2, <1>3, <1>5, <1>6, <1>8, <2>1
<1> QED BY <1>7, <1>9, <1>10 DEF d

\* The points of a threshold go from the left to the right.
LEMMA PointsInOrder ==
  ASSUME th \in Thresholds
  PROVE  \A i, j \in 1 .. Len(th) : i < j => th[i].x < th[j].x
<1>1. /\ Len(th) \in Nat \ {0} /\ MaxHarm \in Nat
      /\ \A i \in 1 .. Len(th) : th[i].x \in Int
  BY LineOnPoints DEF Harms
<1>2. \A i \in 1 .. Len(th) - 1 : th[i].x < th[i + 1].x
  BY ProcessingAssumption DEF Sorted
<1> SUFFICES ASSUME NEW i \in 1 .. Len(th)
             PROVE  \A j \in 1 .. Len(th) : i < j => th[i].x < th[j].x
  OBVIOUS
<1> DEFINE T == {j \in Nat : j \in 1 .. Len(th) /\ i < j => th[i].x < th[j].x}
<1>3. 0 \in T
  OBVIOUS
<1>4. ASSUME NEW j \in Nat \ {0}, j - 1 \in T PROVE j \in T
  <2> SUFFICES ASSUME j \in 1 .. Len(th), i < j PROVE th[i].x < th[j].x
    OBVIOUS
  <2>1. j - 1 \in 1 .. Len(th) - 1 /\ (j - 1) + 1 = j /\ (i = j - 1 \/ i < j - 1)
    BY <1>1
  <2>2. th[j - 1].x < th[j].x
    BY <1>2, <2>1
  <2>3. i < j - 1 => th[i].x < th[j - 1].x
    BY <1>1, <1>4, <2>1
  <2>4. th[i].x \in Int /\ th[j - 1].x \in Int /\ th[j].x \in Int
    BY <1>1, <2>1
  <2> QED BY <2>1, <2>2, <2>3, <2>4
<1>5. T \in SUBSET Nat
  OBVIOUS
<1> HIDE DEF T
<1>6. \A j \in Nat : j \in T
  BY <1>3, <1>4, <1>5, AllNumbers
<1> QED BY <1>6 DEF T

\* A segment between the points and the line on it.
LEMMA SegmentOfPoints ==
  ASSUME th \in Thresholds, NEW i \in 1 .. Len(th) - 1
  PROVE  /\ th[i] \in Point /\ th[i + 1] \in Point /\ th[i].x < th[i + 1].x
         /\ th[i].x \in Int /\ th[i + 1].x \in Int /\ th[i].y \in Int /\ th[i + 1].y \in Int
         /\ FirstHarm <= th[i].x /\ th[i + 1].x <= LastHarm
         /\ FirstHarm \in Int /\ LastHarm \in Int
<1>1. /\ Len(th) \in Nat \ {0} /\ MaxHarm \in Nat /\ th \in Seq(Point)
      /\ \A j \in 1 .. Len(th) : th[j].x \in Int /\ th[j].y \in Int
      /\ FirstHarm \in Int /\ LastHarm \in Int
  BY LineOnPoints DEF Harms
<1>2. i \in 1 .. Len(th) /\ i + 1 \in 1 .. Len(th) /\ i < i + 1 /\ 1 \in 1 .. Len(th) /\ Len(th) \in 1 .. Len(th)
  BY <1>1
<1>3. th[i] \in Point /\ th[i + 1] \in Point
  BY <1>1, <1>2
<1>4. th[i].x < th[i + 1].x
  BY <1>2, PointsInOrder
<1>5. FirstHarm <= th[i].x
  <2>1. i = 1 \/ 1 < i
    BY <1>2
  <2>2. 1 < i => th[1].x < th[i].x
    BY <1>2, PointsInOrder
  <2>3. th[1].x \in Int /\ th[i].x \in Int
    BY <1>1, <1>2
  <2> QED BY <2>1, <2>2, <2>3 DEF FirstHarm
<1>6. th[i + 1].x <= LastHarm
  <2>1. i + 1 = Len(th) \/ i + 1 < Len(th)
    BY <1>1, <1>2
  <2>2. i + 1 < Len(th) => th[i + 1].x < th[Len(th)].x
    BY <1>2, PointsInOrder
  <2>3. th[Len(th)].x \in Int /\ th[i + 1].x \in Int
    BY <1>1, <1>2
  <2> QED BY <2>1, <2>2, <2>3 DEF LastHarm
<1> QED BY <1>1, <1>2, <1>3, <1>4, <1>5, <1>6

\* What is_above_threshold accepts is in the window and at most a fraction below
\* the line.
LEMMA AboveIsNearly ==
  ASSUME th \in Thresholds, NEW h \in Int, NEW lev \in Int, Above(h, lev)
  PROVE  Nearly(h, lev) /\ FirstHarm <= h /\ h <= LastHarm
<1>1. PICK i \in 1 .. Len(th) - 1 :
         th[i].x <= h /\ h <= th[i + 1].x /\ lev >= Level(th[i], th[i + 1], h)
  BY DEF Above
<1> DEFINE p == th[i]
           q == th[i + 1]
<1>2. p \in Point /\ q \in Point /\ p.x < q.x /\ p.x \in Int /\ q.x \in Int
  BY SegmentOfPoints
<1>3. (lev + 1) * (q.x - p.x) >= OnLine(p, q, h)
  BY <1>1, <1>2, LevelOfLine
<1>4. Exceeds(h, lev + 1)
  BY <1>1, <1>3 DEF Exceeds
<1>5. FirstHarm <= h /\ h <= LastHarm
  BY <1>1, <1>2, SegmentOfPoints
<1> QED BY <1>4, <1>5 DEF Nearly

\* The first segment decides as each of them would: where two meet, they agree.
LEMMA ExceedsIsAbove ==
  ASSUME th \in Thresholds, NEW h \in Int, NEW lev \in Int, Exceeds(h, lev)
  PROVE  Above(h, lev)
<1>1. PICK i \in 1 .. Len(th) - 1 :
         /\ th[i].x <= h /\ h <= th[i + 1].x
         /\ lev * (th[i + 1].x - th[i].x) >= OnLine(th[i], th[i + 1], h)
  BY DEF Exceeds
<1>n. Len(th) \in Nat \ {0}
  BY LineOnPoints
<1> DEFINE T == {j \in 1 .. Len(th) - 1 : th[j].x <= h /\ h <= th[j + 1].x}
<1>2. T \in SUBSET Nat /\ i \in T
  BY <1>1, <1>n
<1>t. \A j \in T : j \in 1 .. Len(th) - 1 /\ th[j].x <= h /\ h <= th[j + 1].x
  OBVIOUS
<1>u. \A j \in 1 .. Len(th) - 1 : th[j].x <= h /\ h <= th[j + 1].x => j \in T
  OBVIOUS
<1> HIDE DEF T
<1>3. PICK j \in T : \A k \in T : j <= k
  BY <1>2, LeastNumber
<1>4. j \in 1 .. Len(th) - 1 /\ th[j].x <= h /\ h <= th[j + 1].x /\ j <= i
  BY <1>2, <1>3, <1>t
<1>5. \A k \in 1 .. j - 1 : ~(th[k].x <= h /\ h <= th[k + 1].x)
  <2>1. \A k \in 1 .. j - 1 : k \in 1 .. Len(th) - 1 /\ ~(j <= k)
    BY <1>4, <1>n
  <2> QED BY <1>3, <1>u, <2>1
<1> DEFINE p == th[j]
           q == th[j + 1]
<1>6. /\ p \in Point /\ q \in Point /\ p.x < q.x
      /\ p.x \in Int /\ q.x \in Int /\ p.y \in Int /\ q.y \in Int
  BY <1>4, SegmentOfPoints
<1>7. lev * (q.x - p.x) >= OnLine(p, q, h)
  <2>1. CASE j = i
    BY <1>1, <2>1
  <2>2. CASE j < i
    <3>1. /\ th[i].x < th[i + 1].x /\ th[i].x \in Int /\ th[i + 1].x \in Int
          /\ th[i].y \in Int /\ th[i + 1].y \in Int
      BY SegmentOfPoints
    <3>2. j + 1 = i
      <4>1. j + 1 \in 1 .. Len(th) /\ i \in 1 .. Len(th) /\ (j + 1 = i \/ j + 1 < i)
        BY <1>4, <1>n, <2>2
      <4>2. j + 1 < i => th[j + 1].x < th[i].x
        BY <4>1, PointsInOrder
      <4>3. ~(th[j + 1].x < th[i].x)
        BY <1>1, <1>4, <1>6, <3>1, SMTT(30)
      <4> QED BY <4>1, <4>2, <4>3
    <3>3. h = q.x /\ q = th[i]
      BY <1>1, <1>4, <1>6, <3>1, <3>2
    <3> DEFINE d == th[i + 1].x - q.x
               e == q.x - p.x
    <3>4. d \in Nat \ {0} /\ e \in Nat \ {0}
      <4>1. q.x < th[i + 1].x /\ p.x < q.x /\ q.x \in Int /\ p.x \in Int /\ th[i + 1].x \in Int
        BY <1>6, <3>1, <3>3
      <4>2. \A x, y \in Int : x < y => y - x \in Nat \ {0}
        OBVIOUS
      <4> QED BY <4>1, <4>2
    <3>5. OnLine(th[i], th[i + 1], h) = q.y * d
      <4>1. OnLine(th[i], th[i + 1], h) = q.y * (th[i + 1].x - h) + th[i + 1].y * (h - q.x)
        BY <3>3 DEF OnLine
      <4>2. th[i + 1].x - h = d /\ h - q.x = 0 /\ th[i + 1].y * 0 = 0
        BY <1>6, <3>1, <3>3
      <4>3. q.y * d \in Int
        BY <1>6, <3>4
      <4> QED BY <4>1, <4>2, <4>3
    <3>6. q.y * d <= lev * d
      <4>1. lev * d \in Int /\ q.y * d \in Int
        BY <1>6, <3>4
      <4> QED BY <1>1, <3>3, <3>5, <4>1
    <3>7. OnLine(p, q, h) = q.y * e
      <4>1. OnLine(p, q, h) = p.y * (q.x - h) + q.y * (h - p.x)
        BY DEF OnLine
      <4>2. q.x - h = 0 /\ h - p.x = e /\ p.y * 0 = 0
        BY <1>6, <3>3
      <4>3. q.y * e \in Int
        BY <1>6, <3>4
      <4> QED BY <4>1, <4>2, <4>3
    <3> HIDE DEF d, e
    <3>8. q.y <= lev
      BY <1>6, <3>4, <3>6, FactorsOrdered
    <3>9. q.y * e <= lev * e /\ q.y * e \in Int /\ lev * e \in Int
      BY <1>6, <3>4, <3>8, FactorsOrdered
    <3> QED BY <3>7, <3>9 DEF e
  <2> QED BY <1>4, <2>1, <2>2
<1>8. lev >= Level(p, q, h)
  BY <1>6, <1>7, LevelOfLine
<1> QED BY <1>4, <1>5, <1>8 DEF Above

\* b is the first of the strongest harmonics up to k that are above the line,
\* or 0 when none of them is stronger than harmonic 0.
FirstStrongest(spectrum, b, k) ==
  /\ b # 0 => Above(b, spectrum[b]) /\ spectrum[b] > spectrum[0]
  /\ \A g \in 0 .. k : Above(g, spectrum[g]) =>
       spectrum[g] < spectrum[b] \/ (spectrum[g] = spectrum[b] /\ b <= g)

\* The peak is the first of the strongest: an induction along the harmonics.
LEMMA PeakIsFirst ==
  ASSUME th \in Thresholds, NEW spectrum \in [Harms -> Levels]
  PROVE  Peak(spectrum) \in Harms /\ FirstStrongest(spectrum, Peak(spectrum), LastHarm)
<1>s. /\ \A h \in Harms : spectrum[h] \in Nat
      /\ \A h \in Harms : h \in Nat /\ h <= MaxHarm
      /\ \A h \in Nat : h <= MaxHarm => h \in Harms
      /\ MaxHarm \in Nat /\ LastHarm \in Harms /\ FirstHarm \in Harms /\ 0 \in Harms
  <2>1. Levels \subseteq Nat /\ MaxHarm \in Nat
    BY ProcessingAssumption
  <2>2. \A h \in Harms : spectrum[h] \in Nat
    BY <2>1
  <2>3. LastHarm \in Harms /\ FirstHarm \in Harms
    BY LineOnPoints
  <2> QED BY <2>1, <2>2, <2>3 DEF Harms
<1>1. PICK f \in [Nat -> Harms] :
        /\ f[0] = 0
        /\ \A h \in Nat \ {0} :
             f[h] = IF h \notin FirstHarm .. LastHarm THEN 0
                    ELSE IF Higher(spectrum, h, f[h - 1]) THEN h ELSE f[h - 1]
        /\ Peak(spectrum) = f[LastHarm]
  BY PeakIsStepwise
<1> DEFINE T == {k \in Nat : k <= LastHarm => f[k] <= k /\ FirstStrongest(spectrum, f[k], k)}
<1>2. 0 \in T
  <2>1. \A g \in 0 .. 0 : g = 0
    OBVIOUS
  <2> QED BY <1>1, <1>s, <2>1 DEF FirstStrongest
<1>3. ASSUME NEW k \in Nat \ {0}, k - 1 \in T PROVE k \in T
  <2> SUFFICES ASSUME k <= LastHarm PROVE f[k] <= k /\ FirstStrongest(spectrum, f[k], k)
    OBVIOUS
  <2>0. LastHarm \in Nat /\ LastHarm <= MaxHarm /\ FirstHarm \in Nat
    BY <1>s
  <2>1. k - 1 \in Nat /\ k - 1 <= LastHarm /\ k \in Harms /\ k <= MaxHarm
    BY <1>s, <2>0
  <2>2. f[k - 1] <= k - 1 /\ FirstStrongest(spectrum, f[k - 1], k - 1)
    BY <1>3, <2>1
  <2>3. \A g \in 0 .. k : g \in Harms /\ spectrum[g] \in Nat /\ g \in Int /\ (g = k \/ g \in 0 .. k - 1)
    BY <1>s, <2>1
  <2>4. \A g \in 0 .. k : Above(g, spectrum[g]) => FirstHarm <= g
    BY <2>3, AboveIsNearly
  <2>5. CASE k \notin FirstHarm .. LastHarm
    <3>1. f[k] = 0 /\ k < FirstHarm
      BY <1>1, <2>0, <2>5
    <3>2. \A g \in 0 .. k : ~Above(g, spectrum[g])
      BY <2>0, <2>4, <3>1
    <3> QED BY <3>1, <3>2 DEF FirstStrongest
  <2>6. CASE k \in FirstHarm .. LastHarm
    <3> DEFINE b == f[k - 1]
    <3>1. f[k] = IF Higher(spectrum, k, b) THEN k ELSE b
      BY <1>1, <2>6
    <3>2. b \in Harms /\ b \in Nat /\ spectrum[b] \in Nat /\ spectrum[0] \in Nat /\ spectrum[k] \in Nat
      BY <1>s, <2>1
    <3>3. /\ b <= k - 1
          /\ b # 0 => Above(b, spectrum[b]) /\ spectrum[b] > spectrum[0]
          /\ \A g \in 0 .. k - 1 : Above(g, spectrum[g]) =>
               spectrum[g] < spectrum[b] \/ (spectrum[g] = spectrum[b] /\ b <= g)
      BY <2>2 DEF FirstStrongest
    <3> HIDE DEF b
    <3>4. CASE Higher(spectrum, k, b)
      <4>1. f[k] = k /\ Above(k, spectrum[k]) /\ spectrum[k] > spectrum[b]
        BY <3>1, <3>4 DEF Higher
      <4>2. spectrum[b] >= spectrum[0]
        BY <3>2, <3>3
      <4>3. spectrum[k] > spectrum[0]
        BY <3>2, <4>1, <4>2
      <4>4. ASSUME NEW g \in 0 .. k, Above(g, spectrum[g])
            PROVE  spectrum[g] < spectrum[k] \/ (spectrum[g] = spectrum[k] /\ k <= g)
        <5>1. CASE g = k
          BY <5>1
        <5>2. CASE g \in 0 .. k - 1
          <6>1. spectrum[g] < spectrum[b] \/ spectrum[g] = spectrum[b]
            BY <3>3, <4>4, <5>2
          <6>2. spectrum[g] \in Nat
            BY <2>3
          <6> QED BY <3>2, <4>1, <6>1, <6>2
        <5> QED BY <2>3, <5>1, <5>2
      <4> QED BY <4>1, <4>3, <4>4 DEF FirstStrongest
    <3>5. CASE ~Higher(spectrum, k, b)
      <4>1. f[k] = b /\ (Above(k, spectrum[k]) => ~(spectrum[k] > spectrum[b]))
        BY <3>1, <3>5 DEF Higher
      <4>2. b <= k
        BY <3>2, <3>3
      <4>3. ASSUME NEW g \in 0 .. k, Above(g, spectrum[g])
            PROVE  spectrum[g] < spectrum[b] \/ (spectrum[g] = spectrum[b] /\ b <= g)
        <5>1. CASE g = k
          BY <3>2, <4>1, <4>2, <4>3, <5>1
        <5>2. CASE g \in 0 .. k - 1
          BY <3>3, <4>3, <5>2
        <5> QED BY <2>3, <5>1, <5>2
      <4> QED BY <3>3, <4>1, <4>2, <4>3 DEF FirstStrongest
    <3> QED BY <3>4, <3>5
  <2> QED BY <2>5, <2>6
<1>4. T \in SUBSET Nat
  OBVIOUS
<1>5. \A k \in T : k <= LastHarm => FirstStrongest(spectrum, f[k], k)
  OBVIOUS
<1> HIDE DEF T
<1>6. LastHarm \in Nat /\ LastHarm <= LastHarm
  BY <1>s
<1>7. LastHarm \in T
  BY <1>2, <1>3, <1>4, <1>6, AllNumbers
<1> QED BY <1>1, <1>5, <1>6, <1>7

-----------------------------------------------------------------------------
(***************************************************************************)
(* The theorems.                                                           *)
(***************************************************************************)
\* data_proc_init establishes the invariant.
LEMMA ProcInit ==
  ASSUME Init
  PROVE  ProcInv
<1>1. lost = FALSE
  BY DEF Init
<1>2. config \in [restore : BOOLEAN, recalc : BOOLEAN, avg : BOOLEAN] /\ th \in Thresholds
  BY ProcessingAssumption DEF Init
<1>3. PICK junk \in Junk : spds = <<junk>>
  BY DEF Init
<1>4. 0 \in Num /\ junk \in Num
  BY ProcessingAssumption DEF Num
<1>5. spds \in Seq(Num)
  BY <1>3, <1>4
<1>6. lockedMvmt \in NumMvmt /\ pt \in [det : BOOLEAN, dist : Int, spd : Num] /\ speeds \in HullOf
  BY <1>4 DEF Init, NoMvmt, NumMvmt, NoPt, NoSpeeds, HullOf
<1>7. locked \in BOOLEAN /\ spoilt \in BOOLEAN
  BY DEF Init
<1>8. ProcTypes
  BY <1>1, <1>2, <1>5, <1>6, <1>7 DEF ProcTypes
<1> QED BY <1>1, <1>8 DEF ProcInv, NothingMoves, SpeedsMeasured, NaNHasCause

\* The invariant of process_data: what is kept of the speeds has its type, is
\* zero without a target, lies within what was measured, and is a number unless
\* there was a division by 0 (data_processor.cpp:208-285, 340-441).
THEOREM ProcInvariant == Spec => []ProcInv
<1>1. Init => ProcInv
  BY ProcInit
<1>2. ProcInv /\ [Next]_vars => ProcInv'
  BY TypesStep, NothingMovesStep, SpeedsMeasuredStep, NaNStep DEF ProcInv
<1> QED BY <1>1, <1>2, PTL DEF Spec

\* After a loss the gaps that are restored report nothing that moves
\* (data_processor.cpp:377-408).
THEOREM GhostsAlwaysNull == Spec => []GhostsAreNull
<1>1. ProcInv => GhostsAreNull
  BY DEF ProcInv, NothingMoves, GhostsAreNull
<1> QED BY <1>1, ProcInvariant, PTL

\* A speed that is reported lies within the speeds measured since the last
\* loss, however often averages were averaged (data_processor.cpp:255-285,
\* 352-358).
THEOREM SpeedAlwaysMeasured == Spec => []SpeedIsMeasured
<1>1. ProcInv => SpeedIsMeasured
  BY DEF ProcInv, SpeedsMeasured, Measured, SpeedIsMeasured
<1> QED BY <1>1, ProcInvariant, PTL

\* NaN and infinities come from a peak in line with its neighbours, or from an
\* average over no speed, and from nothing else, and do not outlive the target
\* (data_processor.cpp:208-214, 255-271, 352-363).
THEOREM NaNAlwaysHasCause == Spec => []NaNHasCause
<1>1. ProcInv => NaNHasCause
  BY DEF ProcInv
<1> QED BY <1>1, ProcInvariant, PTL

\* find_target finds the first of the strongest harmonics that reach the line,
\* for every threshold and every spectrum (data_processor.cpp:143-206).
THEOREM PeakAlwaysStrongest == Spec => []PeakIsStrongest
<1>1. ASSUME th \in Thresholds, NEW spectrum \in [Harms -> Levels]
      PROVE  LET peak == Peak(spectrum)
             IN  IF peak = 0 THEN \A h \in Harms : ~Reaches(spectrum, h)
                 ELSE /\ Nearly(peak, spectrum[peak]) /\ spectrum[peak] > spectrum[0]
                      /\ \A h \in Harms : Reaches(spectrum, h) =>
                           spectrum[h] < spectrum[peak] \/ (spectrum[h] = spectrum[peak] /\ peak <= h)
  <2> DEFINE peak == Peak(spectrum)
  <2>1. \A h \in Harms : h \in Nat /\ h \in Int /\ spectrum[h] \in Nat /\ spectrum[h] \in Int
    BY ProcessingAssumption, SMTT(30) DEF Harms
  <2>2. peak \in Harms /\ FirstStrongest(spectrum, peak, LastHarm) /\ LastHarm \in Nat /\ 0 \in Harms
    BY <1>1, PeakIsFirst, LineOnPoints DEF Harms
  <2> HIDE DEF peak
  <2>3. ASSUME NEW h \in Harms, Reaches(spectrum, h)
        PROVE  /\ spectrum[h] > spectrum[0]
               /\ spectrum[h] < spectrum[peak] \/ (spectrum[h] = spectrum[peak] /\ peak <= h)
    <3>1. Above(h, spectrum[h]) /\ spectrum[h] > spectrum[0]
      BY <1>1, <2>1, <2>3, ExceedsIsAbove DEF Reaches
    <3>2. h \in 0 .. LastHarm
      BY <1>1, <2>1, <2>2, <3>1, AboveIsNearly
    <3> QED BY <2>2, <3>1, <3>2 DEF FirstStrongest
  <2>4. CASE peak = 0
    <3>1. \A h \in Harms : ~Reaches(spectrum, h)
      BY <2>1, <2>2, <2>3, <2>4
    <3> QED BY <2>4, <3>1 DEF peak
  <2>5. CASE peak # 0
    <3>1. Above(peak, spectrum[peak]) /\ spectrum[peak] > spectrum[0]
      BY <2>2, <2>5 DEF FirstStrongest
    <3>2. Nearly(peak, spectrum[peak])
      BY <1>1, <2>1, <2>2, <3>1, AboveIsNearly
    <3> QED BY <2>3, <2>5, <3>1, <3>2 DEF peak
  <2> QED BY <2>4, <2>5
<1>2. ProcInv => PeakIsStrongest
  BY <1>1 DEF ProcInv, ProcTypes, PeakIsStrongest
<1> QED BY <1>2, ProcInvariant, PTL
=============================================================================
