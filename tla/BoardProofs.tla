---------------------------- MODULE BoardProofs ----------------------------
(***************************************************************************)
(* What holds of the board's FIFO of two clocks (AFifo) and of its sender  *)
(* (SweepSender), in this order.                                           *)
(*                                                                         *)
(* AFifo, for every depth and every pair of clocks: the flags come in time *)
(* and the latch tells a full FIFO from an empty one.  The argument is     *)
(* about the number of words between the two pointers: it moves by at most *)
(* one per edge, and the quadrant selectors correct the latch when it      *)
(* passes a quarter and three quarters of the depth, before the pointers   *)
(* can meet.  The words follow from that number: the word d places before  *)
(* the writing pointer is the d-th last one written, so the output shows   *)
(* the word at the reading pointer once the ports are at rest.  A read     *)
(* fetches its word a clock after it was accepted, when the place counts   *)
(* as free: the order of the words needs a writing clock that is not       *)
(* faster.                                                                 *)
(*                                                                         *)
(* SweepSender, for all lengths and gaps that PaceAssumption and           *)
(* GapAssumption allow: every frame is whole and frames are apart.  The    *)
(* argument is one clock per sweep.  Frame i starts no later than Start(i) *)
(* edges after the first word, therefore its words are taken out before    *)
(* the memory lacks a place, the count of the memory is not 0 again where  *)
(* it is looked at, and the last frame is out before the next sweep; and   *)
(* with the memory in time the three streams of samples, exponents and     *)
(* directions stay together.                                               *)
(***************************************************************************)
EXTENDS AFifo, SweepSender, SequenceTheorems, TLAPS

WordsIn  == Later(written, 1)
WordsOut == Later(taken, 1)
Between  == WordsIn - WordsOut

\* The address n places after p.
Wrap(n) == IF n < Depth THEN n ELSE n - Depth

Ranges ==
  /\ wrPtr \in Address /\ rdPtr \in Address /\ wrBin \in Address /\ rdBin \in Address
  /\ written \in Nat /\ taken \in Nat
  /\ status \in BOOLEAN /\ full \in BOOLEAN /\ empty \in BOOLEAN

\* The counts are one ahead of the pointers, except after a reset.
CountersAgree ==
  /\ wrBin = (IF written = 0 THEN 1 ELSE Succ(wrPtr))
  /\ rdBin = (IF taken = 0 THEN 1 ELSE Succ(rdPtr))
  /\ written = 0 => wrPtr = 1 /\ taken = 0
  /\ taken = 0 => rdPtr = 1

PointersApart ==
  /\ Between \in 0 .. Depth
  /\ wrPtr = Wrap(rdPtr + Between)

\* The latch may be set only above a quarter, reset only below three.
LatchBounds ==
  /\ status => 4 * Between > Depth
  /\ ~status => 4 * Between < 3 * Depth

FlagsGuard ==
  /\ Between = Depth => full
  /\ Between = 0 => empty

FifoInv == Ranges /\ CountersAgree /\ PointersApart /\ LatchBounds /\ FlagsGuard

\* The depth is a multiple of four (ADDR_WIDTH is at least 2).
LEMMA DepthInQuarters ==
  /\ Depth \in Nat /\ Depth >= 4
  /\ \A n \in Nat : 4 * n > Depth => 4 * n >= Depth + 4
  /\ \A n \in Nat : 4 * n < 3 * Depth => 4 * n + 4 <= 3 * Depth
BY FifoAssumption

\* What the selectors see when the pointers are d words apart.
LEMMA Quadrants ==
  ASSUME NEW r \in Address, NEW d \in 0 .. Depth
  PROVE  /\ Wrap(r + d) \in Address
         /\ Wrap(r + d) = r <=> d = 0 \/ d = Depth
         /\ SetStatus(Wrap(r + d), r) => 2 * d > Depth
         /\ RstStatus(Wrap(r + d), r) => 2 * d < Depth
         /\ 4 * d = Depth => RstStatus(Wrap(r + d), r)
         /\ 4 * d = 3 * Depth => SetStatus(Wrap(r + d), r)
<1>1. Depth \in Nat /\ Depth >= 4
  BY DepthInQuarters
<1>2. CASE r + d < Depth
  BY <1>1, <1>2 DEF Wrap, Address, SetStatus, RstStatus, UpperBit, NextBit
<1>3. CASE r + d >= Depth
  BY <1>1, <1>3 DEF Wrap, Address, SetStatus, RstStatus, UpperBit, NextBit
<1>4. r + d < Depth \/ r + d >= Depth
  BY <1>1 DEF Address
<1>5. QED
  BY <1>2, <1>3, <1>4

\* The latch keeps its bounds when the distance moves by at most one.
LEMMA LatchStep ==
  ASSUME NEW r \in Address, NEW d \in 0 .. Depth, NEW e \in 0 .. Depth, NEW s \in BOOLEAN,
         d - e \in {-1, 0, 1},
         s => 4 * e > Depth,
         ~s => 4 * e < 3 * Depth
  PROVE  /\ Latch(Wrap(r + d), r, s) \in BOOLEAN
         /\ Latch(Wrap(r + d), r, s) => 4 * d > Depth
         /\ ~Latch(Wrap(r + d), r, s) => 4 * d < 3 * Depth
<1> DEFINE rst == RstStatus(Wrap(r + d), r)
           set == SetStatus(Wrap(r + d), r)
<1>1. /\ set => 2 * d > Depth
      /\ rst => 2 * d < Depth
      /\ 4 * d = Depth => rst
      /\ 4 * d = 3 * Depth => set
  BY Quadrants
<1>2. Depth \in Nat /\ Depth >= 4 /\ d \in Nat /\ e \in Nat
  BY DepthInQuarters
<1>3. Latch(Wrap(r + d), r, s) <=> ~rst /\ (set \/ s)
  BY DEF Latch
<1>4. Latch(Wrap(r + d), r, s) \in BOOLEAN
  BY Zenon DEF Latch
<1>5. CASE rst
  BY <1>1, <1>2, <1>3, <1>4, <1>5
<1>6. CASE ~rst /\ set
  BY <1>1, <1>2, <1>3, <1>4, <1>6
<1>7. CASE ~rst /\ ~set
  <2>1. Latch(Wrap(r + d), r, s) <=> s
    BY <1>3, <1>7
  <2>2. ASSUME s PROVE 4 * d > Depth
    <3>1. 4 * e >= Depth + 4
      BY <2>2, <1>2, DepthInQuarters
    <3>2. 4 * d # Depth
      BY <1>1, <1>7
    <3>3. QED
      BY <3>1, <3>2, <1>2
  <2>3. ASSUME ~s PROVE 4 * d < 3 * Depth
    <3>1. 4 * e + 4 <= 3 * Depth
      BY <2>3, <1>2, DepthInQuarters
    <3>2. 4 * d # 3 * Depth
      BY <1>1, <1>7
    <3>3. QED
      BY <3>1, <3>2, <1>2
  <2>4. QED
    BY <2>1, <2>2, <2>3, <1>4
<1>8. QED
  BY <1>5, <1>6, <1>7

\* The FIFO is empty after a reset.
LEMMA FifoInit == AFifoInit => FifoInv
<1> SUFFICES ASSUME AFifoInit PROVE FifoInv
  OBVIOUS
<1>1. Depth \in Nat /\ Depth >= 4
  BY DepthInQuarters
<1>2. Between = 0 /\ written = 0 /\ taken = 0
  BY DEF AFifoInit, Between, WordsIn, WordsOut, Later
<1>3. wrPtr = 1 /\ rdPtr = 1 /\ wrBin = 1 /\ rdBin = 1 /\ 1 \in Address
  BY <1>1 DEF AFifoInit, Address
<1>4. status = FALSE /\ full = FALSE /\ empty = TRUE
  BY Zenon DEF AFifoInit
<1>5. Ranges
  <2>1. status \in BOOLEAN /\ full \in BOOLEAN /\ empty \in BOOLEAN
    BY <1>4, Zenon
  <2>2. QED
    BY <1>2, <1>3, <2>1 DEF Ranges
<1>6. CountersAgree
  BY <1>2, <1>3 DEF CountersAgree
<1>7. PointersApart
  BY <1>1, <1>2, <1>3 DEF PointersApart, Wrap
<1>8. LatchBounds
  BY <1>1, <1>2, <1>4 DEF LatchBounds
<1>9. FlagsGuard
  BY <1>1, <1>2, <1>4 DEF FlagsGuard
<1>10. QED
  BY <1>5, <1>6, <1>7, <1>8, <1>9 DEF FifoInv

\* A pointer moves to the next address, except for the first enable after a
\* reset, and so does the count of its words.
LEMMA Moves ==
  ASSUME FifoInv, NEW w \in BOOLEAN, NEW r \in BOOLEAN, NEW we \in BOOLEAN, NEW re \in BOOLEAN,
         Edge(w, r, we, re)
  PROVE  /\ \/ wrPtr' = wrPtr /\ WordsIn' = WordsIn
            \/ wrPtr' = Succ(wrPtr) /\ WordsIn' = WordsIn + 1 /\ Between # Depth
         /\ \/ rdPtr' = rdPtr /\ WordsOut' = WordsOut
            \/ rdPtr' = Succ(rdPtr) /\ WordsOut' = WordsOut + 1 /\ Between # 0
         /\ written' \in Nat /\ taken' \in Nat
         /\ CountersAgree'
<1> DEFINE wEn == w /\ we /\ ~full
           rEn == r /\ re /\ ~empty
<1>1. /\ wEn => wrBin' = Succ(wrBin) /\ wrPtr' = wrBin /\ written' = written + 1
      /\ ~wEn => wrBin' = wrBin /\ wrPtr' = wrPtr /\ written' = written
  BY DEF Edge, Accepts, Count, Point, AFifoHistory
<1>2. /\ rEn => rdBin' = Succ(rdBin) /\ rdPtr' = rdBin /\ taken' = taken + 1
      /\ ~rEn => rdBin' = rdBin /\ rdPtr' = rdPtr /\ taken' = taken
  BY DEF Edge, Gives, Count, Point, AFifoHistory
<1>3. written \in Nat /\ taken \in Nat /\ CountersAgree
  BY DEF FifoInv, Ranges
<1>4. wEn => Between # Depth
  BY DEF FifoInv, FlagsGuard
<1>5. rEn => Between # 0
  BY DEF FifoInv, FlagsGuard
<1>6. written = 0 => Between = 0
  BY <1>3 DEF CountersAgree, Between, WordsIn, WordsOut, Later
<1>7. Depth >= 4 /\ Depth \in Nat
  BY DepthInQuarters
<1>8. \/ wrPtr' = wrPtr /\ WordsIn' = WordsIn
      \/ wrPtr' = Succ(wrPtr) /\ WordsIn' = WordsIn + 1 /\ Between # Depth
  BY <1>1, <1>3, <1>4 DEF CountersAgree, WordsIn, Later
<1>9. \/ rdPtr' = rdPtr /\ WordsOut' = WordsOut
      \/ rdPtr' = Succ(rdPtr) /\ WordsOut' = WordsOut + 1 /\ Between # 0
  BY <1>2, <1>3, <1>5 DEF CountersAgree, WordsOut, Later
<1>10. written' \in Nat /\ taken' \in Nat
  BY <1>1, <1>2, <1>3
<1>11. /\ wrBin' = (IF written' = 0 THEN 1 ELSE Succ(wrPtr'))
       /\ rdBin' = (IF taken' = 0 THEN 1 ELSE Succ(rdPtr'))
  BY <1>1, <1>2, <1>3 DEF CountersAgree
<1>12. /\ written' = 0 => wrPtr' = 1 /\ taken' = 0
       /\ taken' = 0 => rdPtr' = 1
  BY <1>1, <1>2, <1>3, <1>5, <1>6 DEF CountersAgree
<1>13. QED
  BY <1>8, <1>9, <1>10, <1>11, <1>12 DEF CountersAgree

\* An edge of either clock, or of both, keeps the pointers' invariant.
LEMMA EdgeKeepsFifoInv ==
  ASSUME FifoInv, NEW w \in BOOLEAN, NEW r \in BOOLEAN, NEW we \in BOOLEAN, NEW re \in BOOLEAN,
         Edge(w, r, we, re)
  PROVE  FifoInv'
<1> DEFINE b == Between
<1>1. Depth \in Nat /\ Depth >= 4
  BY DepthInQuarters
<1>2. /\ \/ wrPtr' = wrPtr /\ WordsIn' = WordsIn
         \/ wrPtr' = Succ(wrPtr) /\ WordsIn' = WordsIn + 1 /\ b # Depth
      /\ \/ rdPtr' = rdPtr /\ WordsOut' = WordsOut
         \/ rdPtr' = Succ(rdPtr) /\ WordsOut' = WordsOut + 1 /\ b # 0
      /\ written' \in Nat /\ taken' \in Nat
      /\ CountersAgree'
  BY Moves
<1>3. /\ wrPtr \in Address /\ rdPtr \in Address /\ b \in 0 .. Depth
      /\ wrPtr = Wrap(rdPtr + b)
      /\ WordsIn \in Int /\ WordsOut \in Int /\ b = WordsIn - WordsOut
  BY DEF FifoInv, Ranges, PointersApart, Between, WordsIn, WordsOut, Later
<1>4. b' = WordsIn' - WordsOut'
  BY DEF Between
<1>5. /\ b' \in 0 .. Depth /\ b' - b \in {-1, 0, 1}
      /\ rdPtr' \in Address /\ wrPtr' = Wrap(rdPtr' + b')
  <2>1. CASE wrPtr' = wrPtr /\ WordsIn' = WordsIn /\ rdPtr' = rdPtr /\ WordsOut' = WordsOut
    BY <2>1, <1>1, <1>3, <1>4
  <2>2. CASE /\ wrPtr' = Succ(wrPtr) /\ WordsIn' = WordsIn + 1 /\ b # Depth
             /\ rdPtr' = rdPtr /\ WordsOut' = WordsOut
    BY <2>2, <1>1, <1>3, <1>4 DEF Wrap, Succ, Address
  <2>3. CASE /\ wrPtr' = wrPtr /\ WordsIn' = WordsIn
             /\ rdPtr' = Succ(rdPtr) /\ WordsOut' = WordsOut + 1 /\ b # 0
    BY <2>3, <1>1, <1>3, <1>4 DEF Wrap, Succ, Address
  <2>4. CASE /\ wrPtr' = Succ(wrPtr) /\ WordsIn' = WordsIn + 1 /\ b # Depth
             /\ rdPtr' = Succ(rdPtr) /\ WordsOut' = WordsOut + 1 /\ b # 0
    BY <2>4, <1>1, <1>3, <1>4 DEF Wrap, Succ, Address
  <2>5. QED
    BY <2>1, <2>2, <2>3, <2>4, <1>2
<1>6. wrPtr' \in Address /\ wrBin' \in Address /\ rdBin' \in Address
  <2>1. wrPtr' \in Address
    BY <1>5, Quadrants
  <2>2. \A p \in Address : Succ(p) \in Address
    BY <1>1 DEF Succ, Address
  <2>3. 1 \in Address
    BY <1>1 DEF Address
  <2>4. wrBin' \in Address
    BY <1>2, <2>1, <2>2, <2>3 DEF CountersAgree
  <2>5. rdBin' \in Address
    BY <1>2, <1>5, <2>2, <2>3 DEF CountersAgree
  <2>6. QED
    BY <2>1, <2>4, <2>5
<1>7. PointersApart'
  BY <1>5 DEF PointersApart
<1>8. status' = Latch(Wrap(rdPtr' + b'), rdPtr', status)
  BY <1>5 DEF Edge
<1>9. status \in BOOLEAN /\ (status => 4 * b > Depth) /\ (~status => 4 * b < 3 * Depth)
  BY DEF FifoInv, Ranges, LatchBounds
<1>10. status' \in BOOLEAN /\ LatchBounds'
  <2> DEFINE latch == Latch(Wrap(rdPtr' + b'), rdPtr', status)
  <2>1. /\ latch \in BOOLEAN
        /\ latch => 4 * b' > Depth
        /\ ~latch => 4 * b' < 3 * Depth
    <3>1. rdPtr' \in Address /\ b' \in 0 .. Depth /\ b \in 0 .. Depth /\ b' - b \in {-1, 0, 1}
      BY <1>3, <1>5
    <3> HIDE DEF b
    <3>2. QED
      BY <3>1, <1>9, LatchStep, Zenon
  <2> HIDE DEF latch
  <2>2. status' = latch
    BY <1>8, Zenon DEF latch
  <2>3. status' \in BOOLEAN
    BY <2>1, <2>2, Zenon
  <2>4. status' => 4 * b' > Depth
    BY <2>1, <2>2, Zenon
  <2>5. ~status' => 4 * b' < 3 * Depth
    BY <2>1, <2>2, Zenon
  <2>6. QED
    BY <2>3, <2>4, <2>5, Zenon DEF LatchBounds
<1>11. wrPtr' = rdPtr' <=> b' = 0 \/ b' = Depth
  BY <1>5, Quadrants
<1>12. /\ full' = ((status' /\ wrPtr' = rdPtr') \/ (full /\ (~w \/ PresetFull)))
       /\ empty' = ((~status' /\ wrPtr' = rdPtr') \/ (empty /\ (~r \/ PresetEmpty)))
  <2>1. /\ full' = (PresetFull' \/ (full /\ (~w \/ PresetFull)))
        /\ empty' = (PresetEmpty' \/ (empty /\ (~r \/ PresetEmpty)))
    BY Zenon DEF Edge
  <2>2. /\ PresetFull' <=> status' /\ wrPtr' = rdPtr'
        /\ PresetEmpty' <=> ~status' /\ wrPtr' = rdPtr'
    BY Zenon DEF PresetFull, PresetEmpty
  <2> QED
    BY <2>1, <2>2, Zenon
<1>13. full' \in BOOLEAN /\ empty' \in BOOLEAN
  BY <1>12, Zenon
<1>14. Ranges'
  BY <1>2, <1>5, <1>6, <1>10, <1>13 DEF Ranges
<1>15. b' = Depth => status'
  BY <1>1, <1>5, <1>10 DEF LatchBounds
<1>16. b' = 0 => ~status'
  BY <1>1, <1>5, <1>10 DEF LatchBounds
<1>17. FlagsGuard'
  BY <1>11, <1>12, <1>15, <1>16 DEF FlagsGuard
<1>18. QED
  BY <1>2, <1>7, <1>10, <1>14, <1>17 DEF FifoInv

\* The distance of the pointers, the latch and the flags belong together in
\* every reachable state, for every depth.
THEOREM FifoInvariant == AFifoSpec => []FifoInv
<1>1. FifoInv /\ [AFifoNext]_aFifoVars => FifoInv'
  <2> SUFFICES ASSUME FifoInv, [AFifoNext]_aFifoVars PROVE FifoInv'
    OBVIOUS
  <2>1. CASE WriteEdge
    BY <2>1, EdgeKeepsFifoInv DEF WriteEdge
  <2>2. CASE ReadEdge
    BY <2>2, EdgeKeepsFifoInv DEF ReadEdge
  <2>3. CASE BothEdges
    BY <2>3, EdgeKeepsFifoInv DEF BothEdges
  <2>4. CASE UNCHANGED aFifoVars
    BY <2>4 DEF aFifoVars, counters, history, FifoInv, Ranges, CountersAgree, PointersApart,
                LatchBounds, FlagsGuard, Between, WordsIn, WordsOut
  <2>5. QED
    BY <2>1, <2>2, <2>3, <2>4 DEF AFifoNext
<1>2. QED
  BY FifoInit, <1>1, PTL DEF AFifoSpec

\* The latch tells a full FIFO from an empty one wherever the pointers meet.
THEOREM StatusAlwaysTells == AFifoSpec => []StatusTellsFull
<1>1. FifoInv => StatusTellsFull
  <2> SUFFICES ASSUME FifoInv, wrPtr = rdPtr
               PROVE  status <=> Later(written, 1) = Later(taken, 1) + Depth
    BY DEF StatusTellsFull
  <2>1. /\ Between \in 0 .. Depth /\ rdPtr \in Address /\ wrPtr = Wrap(rdPtr + Between)
        /\ (status => 4 * Between > Depth) /\ (~status => 4 * Between < 3 * Depth)
    BY DEF FifoInv, Ranges, PointersApart, LatchBounds
  <2>2. Between = 0 \/ Between = Depth
    BY <2>1, Quadrants
  <2>3. WordsIn \in Int /\ WordsOut \in Int
    BY DEF FifoInv, Ranges, WordsIn, WordsOut, Later
  <2>4. Between = Depth <=> WordsIn = WordsOut + Depth
    BY <2>3, DepthInQuarters DEF Between
  <2>5. status <=> Between = Depth
    BY <2>1, <2>2, DepthInQuarters
  <2>6. QED
    BY <2>4, <2>5 DEF WordsIn, WordsOut
<1>2. QED
  BY FifoInvariant, <1>1, PTL

\* No overflow and no underflow, whatever the two clocks do.
THEOREM FlagsComeInTime == AFifoSpec => []FlagsInTime
<1>1. FifoInv => FlagsInTime
  <2> SUFFICES ASSUME FifoInv PROVE FlagsInTime
    OBVIOUS
  <2>1. WordsIn \in Int /\ WordsOut \in Int /\ Depth \in Nat
    BY DepthInQuarters DEF FifoInv, Ranges, WordsIn, WordsOut, Later
  <2>2. Between \in 0 .. Depth /\ (Between = Depth => full) /\ (Between = 0 => empty)
    BY DEF FifoInv, PointersApart, FlagsGuard
  <2>3. /\ WordsOut <= WordsIn /\ WordsIn <= WordsOut + Depth
        /\ WordsIn = WordsOut + Depth => full
        /\ WordsIn = WordsOut => empty
    BY <2>1, <2>2 DEF Between
  <2>4. QED
    BY <2>3 DEF FlagsInTime, WordsIn, WordsOut
<1>2. QED
  BY FifoInvariant, <1>1, PTL

-----------------------------------------------------------------------------
(* The words: which address holds which, and what a read finds there. *)

\* The address d places before p.
Back(p, d) == IF d <= p THEN p - d ELSE (p + Depth) - d

\* The last Depth words are behind the writing pointer, each at its place;
\* the first one is at the pointer, and the second on top of it.
MemoryHolds ==
  /\ mem \in [Address -> Nat]
  /\ \A d \in 1 .. Depth : d < WordsIn => mem[Back(wrPtr, d)] = (WordsIn + 1) - d
  /\ written <= 1 => mem[wrPtr] = written

\* At rest, the reading port has looked up its pointer, and then the memory.
PortsSettle ==
  /\ settled \in 0 .. 2
  /\ rdAddr \in Address
  /\ settled >= 1 => rdAddr = rdPtr
  /\ settled = 2 => dataOut = mem[rdAddr]

WordsInv == FifoInv /\ MemoryHolds /\ PortsSettle

\* The word that a read under way fetches.
FetchedWord == Later(fetching, 2)

\* The word is in the memory and stays there until the next edge of RClk: the
\* write that could overtake it finds the FIFO full, or has gone by.
FetchSafe ==
  /\ wrEdges \in 0 .. 1
  /\ fetching \in Nat
  /\ fetching # 0 =>
       /\ FetchedWord <= written /\ written < FetchedWord + Depth
       /\ rdAddr = Back(wrPtr, (WordsIn + 1) - FetchedWord)
       /\ written + 1 = FetchedWord + Depth => full \/ wrEdges = 1
  /\ ReadsFollowWrites

\* d places before p, on the circle of addresses.
LEMMA Backs ==
  ASSUME NEW p \in Address, NEW d \in 0 .. Depth
  PROVE  /\ Back(p, d) \in Address
         /\ d \in 1 .. Depth - 1 => Back(p, d) # p
         /\ d # Depth => Back(Succ(p), d + 1) = Back(p, d)
         /\ Back(p, 0) = p
         /\ Back(Wrap(p + d), d) = p
BY DepthInQuarters DEF Back, Succ, Address, Wrap

\* What an edge does, given what it accepts.
LEMMA EdgeEffects ==
  ASSUME NEW w \in BOOLEAN, NEW r \in BOOLEAN, NEW we \in BOOLEAN, NEW re \in BOOLEAN,
         Edge(w, r, we, re)
  PROVE  \E wEn, rEn \in BOOLEAN :
           /\ wEn => w /\ ~full
           /\ rEn => r /\ ~empty
           /\ mem' = IF wEn THEN [mem EXCEPT ![wrPtr] = written + 1] ELSE mem
           /\ rdAddr' = IF r THEN rdPtr ELSE rdAddr
           /\ dataOut' = IF r THEN mem[rdAddr] ELSE dataOut
           /\ written' = IF wEn THEN written + 1 ELSE written
           /\ taken' = IF rEn THEN taken + 1 ELSE taken
           /\ got' = IF r THEN fetching ELSE got
           /\ fetching' = IF rEn THEN taken + 1 ELSE IF r THEN 0 ELSE fetching
           /\ settled' = IF wEn \/ rEn THEN 0 ELSE IF r /\ settled < 2 THEN settled + 1 ELSE settled
           /\ wrEdges' = IF r THEN (IF w THEN 1 ELSE 0) ELSE wrEdges + 1
           /\ full /\ ~w => full'
           /\ ~rEn => rdPtr' = rdPtr
           /\ ~wEn => wrPtr' = wrPtr
<1> DEFINE wEn == w /\ Accepts(we)
           rEn == r /\ Gives(re)
<1>1. wEn \in BOOLEAN /\ rEn \in BOOLEAN
  BY Zenon DEF Accepts, Gives
<1>2. (wEn => w /\ ~full) /\ (rEn => r /\ ~empty)
  BY DEF Accepts, Gives
<1>3. /\ Ports(w, wEn, r) /\ AFifoHistory(w, wEn, r, rEn)
      /\ full' = (PresetFull' \/ (full /\ (~w \/ PresetFull)))
      /\ wrPtr' = Point(wrPtr, wrBin, wEn) /\ rdPtr' = Point(rdPtr, rdBin, rEn)
  BY Zenon DEF Edge
<1>4. full /\ ~w => full'
  BY <1>3, Zenon
<1>5. (~rEn => rdPtr' = rdPtr) /\ (~wEn => wrPtr' = wrPtr)
  BY <1>3 DEF Point
<1> HIDE DEF wEn, rEn
<1> QED BY <1>1, <1>2, <1>3, <1>4, <1>5 DEF Ports, AFifoHistory

\* The pointers, the words and the flags before an edge, in numbers.
LEMMA InNumbers ==
  ASSUME FifoInv
  PROVE  /\ written \in Nat /\ taken \in Nat /\ Depth \in Nat /\ Depth >= 4
         /\ wrPtr \in Address /\ rdPtr \in Address
         /\ WordsIn \in Nat /\ WordsOut \in Nat /\ WordsIn - WordsOut \in 0 .. Depth
         /\ WordsIn = (IF written = 0 THEN 1 ELSE written)
         /\ WordsOut = (IF taken = 0 THEN 1 ELSE taken)
         /\ rdPtr = Back(wrPtr, WordsIn - WordsOut)
         /\ WordsIn - WordsOut = Depth => full
         /\ WordsIn - WordsOut = 0 => empty
         /\ written = 0 => taken = 0
<1>1. written \in Nat /\ taken \in Nat /\ wrPtr \in Address /\ rdPtr \in Address
  BY DEF FifoInv, Ranges
<1>2. Between \in 0 .. Depth /\ wrPtr = Wrap(rdPtr + Between)
  BY DEF FifoInv, PointersApart
<1>3. rdPtr = Back(wrPtr, Between)
  BY <1>1, <1>2, Backs
<1>4. /\ WordsIn \in Nat /\ WordsOut \in Nat
      /\ WordsIn = (IF written = 0 THEN 1 ELSE written)
      /\ WordsOut = (IF taken = 0 THEN 1 ELSE taken)
  BY <1>1 DEF WordsIn, WordsOut, Later
<1> QED BY <1>1, <1>2, <1>3, <1>4, DepthInQuarters
           DEF Between, FifoInv, FlagsGuard, CountersAgree

\* What a write does to the writing pointer and the words behind it.
LEMMA WriteMoves ==
  ASSUME FifoInv, NEW w \in BOOLEAN, NEW r \in BOOLEAN, NEW we \in BOOLEAN, NEW re \in BOOLEAN,
         Edge(w, r, we, re)
  PROVE  /\ written' = written => wrPtr' = wrPtr /\ WordsIn' = WordsIn
         /\ written' = written + 1 =>
              \/ written = 0 /\ wrPtr' = wrPtr /\ WordsIn' = WordsIn
              \/ written # 0 /\ wrPtr' = Succ(wrPtr) /\ WordsIn' = WordsIn + 1
         /\ taken' = taken => rdPtr' = rdPtr
<1>1. written \in Nat /\ taken \in Nat /\ CountersAgree
  BY DEF FifoInv, Ranges
<1>2. /\ Accepts(we) /\ w => wrPtr' = wrBin /\ written' = written + 1
      /\ ~(Accepts(we) /\ w) => wrPtr' = wrPtr /\ written' = written
      /\ Gives(re) /\ r => taken' = taken + 1
      /\ ~(Gives(re) /\ r) => rdPtr' = rdPtr
  BY DEF Edge, Point, AFifoHistory
<1> QED BY <1>1, <1>2 DEF CountersAgree, WordsIn, Later

\* An edge keeps the words where they belong.
LEMMA EdgeKeepsMemory ==
  ASSUME WordsInv, NEW w \in BOOLEAN, NEW r \in BOOLEAN, NEW we \in BOOLEAN, NEW re \in BOOLEAN,
         Edge(w, r, we, re)
  PROVE  MemoryHolds'
<1>1. FifoInv /\ MemoryHolds
  BY DEF WordsInv
<1>2. /\ written \in Nat /\ Depth \in Nat /\ Depth >= 4 /\ wrPtr \in Address
      /\ WordsIn \in Nat /\ WordsIn = (IF written = 0 THEN 1 ELSE written)
      /\ mem \in [Address -> Nat]
  BY <1>1, InNumbers DEF MemoryHolds
<1>3. CASE mem' = mem /\ written' = written
  <2>1. wrPtr' = wrPtr /\ WordsIn' = WordsIn
    BY <1>1, <1>3, WriteMoves
  <2> QED BY <1>1, <1>3, <2>1 DEF MemoryHolds
<1>4. CASE mem' = [mem EXCEPT ![wrPtr] = written + 1] /\ written' = written + 1
  <2>1. \/ written = 0 /\ wrPtr' = wrPtr /\ WordsIn' = WordsIn
        \/ written # 0 /\ wrPtr' = Succ(wrPtr) /\ WordsIn' = WordsIn + 1
    BY <1>1, <1>2, <1>4, WriteMoves
  <2>2. /\ mem' \in [Address -> Nat] /\ mem'[wrPtr] = written + 1
        /\ \A a \in Address : a # wrPtr => mem'[a] = mem[a]
    BY <1>2, <1>4
  <2>3. CASE written = 0 /\ wrPtr' = wrPtr /\ WordsIn' = WordsIn
    <3>1. ~ \E d \in 1 .. Depth : d < WordsIn'
      BY <2>3, <1>2
    <3> QED BY <2>2, <2>3, <3>1, <1>2, <1>4 DEF MemoryHolds
  <2>4. CASE written # 0 /\ wrPtr' = Succ(wrPtr) /\ WordsIn' = WordsIn + 1
    <3>1. ASSUME NEW d \in 1 .. Depth, d < WordsIn'
          PROVE  mem'[Back(wrPtr', d)] = (WordsIn' + 1) - d
      <4>1. d - 1 \in 0 .. Depth - 1 /\ (d - 1) + 1 = d /\ d - 1 # Depth /\ d - 1 \in 0 .. Depth
        BY <1>2
      <4>2. Back(wrPtr', d) = Back(wrPtr, d - 1) /\ Back(wrPtr, d - 1) \in Address
        BY <4>1, <2>4, <1>2, Backs
      <4>3. CASE d = 1
        <5>1. Back(wrPtr', d) = wrPtr
          BY <4>2, <4>3, <1>2, Backs
        <5> QED BY <5>1, <4>3, <2>2, <2>4, <1>2
      <4>4. CASE d # 1
        <5>1. d - 1 \in 1 .. Depth /\ d - 1 \in 1 .. Depth - 1 /\ d - 1 < WordsIn
          BY <3>1, <4>4, <2>4, <1>2
        <5>2. Back(wrPtr, d - 1) # wrPtr
          BY <5>1, <4>1, <1>2, Backs
        <5>3. mem[Back(wrPtr, d - 1)] = (WordsIn + 1) - (d - 1)
          BY <5>1, <1>1 DEF MemoryHolds
        <5>4. (WordsIn + 1) - (d - 1) = (WordsIn' + 1) - d
          BY <2>4, <1>2
        <5> QED BY <4>2, <5>2, <5>3, <5>4, <2>2
      <4> QED BY <4>3, <4>4
    <3>2. ~ written' <= 1
      BY <2>4, <1>2, <1>4
    <3> QED BY <2>2, <3>1, <3>2 DEF MemoryHolds
  <2> QED BY <2>1, <2>3, <2>4
<1> QED BY <1>3, <1>4, EdgeEffects

\* An edge keeps what the reading port has looked up.
LEMMA EdgeKeepsPorts ==
  ASSUME WordsInv, NEW w \in BOOLEAN, NEW r \in BOOLEAN, NEW we \in BOOLEAN, NEW re \in BOOLEAN,
         Edge(w, r, we, re)
  PROVE  PortsSettle'
<1>1. FifoInv /\ PortsSettle /\ rdPtr \in Address
  BY InNumbers DEF WordsInv
<1>2. PICK wEn \in BOOLEAN, rEn \in BOOLEAN :
        /\ mem' = IF wEn THEN [mem EXCEPT ![wrPtr] = written + 1] ELSE mem
        /\ rdAddr' = IF r THEN rdPtr ELSE rdAddr
        /\ dataOut' = IF r THEN mem[rdAddr] ELSE dataOut
        /\ settled' = IF wEn \/ rEn THEN 0 ELSE IF r /\ settled < 2 THEN settled + 1 ELSE settled
        /\ ~rEn => rdPtr' = rdPtr
  BY EdgeEffects
<1>3. rdAddr' \in Address
  BY <1>1, <1>2 DEF PortsSettle
<1>4. CASE wEn \/ rEn
  <2>1. settled' = 0
    BY <1>2, <1>4
  <2> QED BY <1>3, <2>1 DEF PortsSettle
<1>5. CASE ~wEn /\ ~rEn
  BY <1>1, <1>2, <1>3, <1>5 DEF PortsSettle
<1> QED BY <1>4, <1>5

\* No word is there after a reset.
LEMMA WordsInit == AFifoInit => WordsInv
<1> SUFFICES ASSUME AFifoInit PROVE WordsInv
  OBVIOUS
<1>1. FifoInv
  BY FifoInit
<1>2. /\ mem = [a \in Address |-> 0] /\ written = 0 /\ wrPtr = 1 /\ 1 \in Address
      /\ settled = 0 /\ rdAddr = 1
  BY DepthInQuarters DEF AFifoInit, Address
<1>3. MemoryHolds
  <2>1. WordsIn = 1
    BY <1>2 DEF WordsIn, Later
  <2>2. mem \in [Address -> Nat] /\ mem[wrPtr] = 0
    BY <1>2
  <2> QED BY <1>2, <2>1, <2>2, DepthInQuarters DEF MemoryHolds
<1>4. PortsSettle
  BY <1>2 DEF PortsSettle
<1> QED BY <1>1, <1>3, <1>4 DEF WordsInv

\* An edge keeps all of it.
LEMMA EdgeKeepsWords ==
  ASSUME WordsInv, NEW w \in BOOLEAN, NEW r \in BOOLEAN, NEW we \in BOOLEAN, NEW re \in BOOLEAN,
         Edge(w, r, we, re)
  PROVE  WordsInv'
BY EdgeKeepsFifoInv, EdgeKeepsMemory, EdgeKeepsPorts DEF WordsInv

\* Where every word is, and what the reading port shows, for every depth.
THEOREM WordsInvariant == AFifoSpec => []WordsInv
<1>1. WordsInv /\ [AFifoNext]_aFifoVars => WordsInv'
  <2> SUFFICES ASSUME WordsInv, [AFifoNext]_aFifoVars PROVE WordsInv'
    OBVIOUS
  <2>1. CASE WriteEdge
    BY <2>1, EdgeKeepsWords DEF WriteEdge
  <2>2. CASE ReadEdge
    BY <2>2, EdgeKeepsWords DEF ReadEdge
  <2>3. CASE BothEdges
    BY <2>3, EdgeKeepsWords DEF BothEdges
  <2>4. CASE UNCHANGED aFifoVars
    BY <2>4 DEF aFifoVars, counters, history, WordsInv, MemoryHolds, PortsSettle, FifoInv, Ranges,
       CountersAgree, PointersApart, LatchBounds, FlagsGuard, Between, WordsIn, WordsOut
  <2> QED BY <2>1, <2>2, <2>3, <2>4 DEF AFifoNext
<1> QED BY WordsInit, <1>1, PTL DEF AFifoSpec

\* What the reading pointer points at.
LEMMA AtPointer ==
  ASSUME WordsInv, taken >= 2 => written > taken
  PROVE  mem[rdPtr] = Shown(written, taken)
<1>1. FifoInv /\ MemoryHolds
  BY DEF WordsInv
<1>2. /\ written \in Nat /\ taken \in Nat /\ Depth \in Nat /\ wrPtr \in Address
      /\ WordsIn \in Nat /\ WordsOut \in Nat /\ WordsIn - WordsOut \in 0 .. Depth
      /\ WordsIn = (IF written = 0 THEN 1 ELSE written)
      /\ WordsOut = (IF taken = 0 THEN 1 ELSE taken)
      /\ rdPtr = Back(wrPtr, WordsIn - WordsOut)
  BY <1>1, InNumbers
<1>3. CASE WordsIn = WordsOut
  <2>1. rdPtr = wrPtr /\ written <= 1 /\ taken <= 1
    BY <1>2, <1>3, Backs
  <2>2. mem[rdPtr] = written
    BY <1>1, <2>1 DEF MemoryHolds
  <2> QED BY <1>2, <2>1, <2>2 DEF Shown
<1>4. CASE WordsIn # WordsOut
  <2>1. WordsIn - WordsOut \in 1 .. Depth /\ WordsIn - WordsOut < WordsIn
    BY <1>2, <1>4
  <2>2. mem[rdPtr] = (WordsIn + 1) - (WordsIn - WordsOut)
    BY <1>1, <1>2, <2>1 DEF MemoryHolds
  <2>3. mem[rdPtr] = WordsOut + 1 /\ written >= 2
    BY <1>2, <1>4, <2>2
  <2> QED BY <1>2, <2>3 DEF Shown
<1> QED BY <1>3, <1>4

\* With the ports at rest the output is the word at the reading pointer, for
\* every depth and whatever the clocks.
THEOREM OutputAlwaysShowsNext == AFifoSpec => []OutputShowsNext
<1>1. WordsInv => OutputShowsNext
  BY AtPointer DEF WordsInv, PortsSettle, OutputShowsNext
<1> QED BY <1>1, WordsInvariant, PTL

\* No read is under way after a reset.
LEMMA FetchInit == AFifoInit => FetchSafe
BY DEF AFifoInit, FetchSafe, ReadsFollowWrites

\* A read under way is safe if the writing port has no second edge before the
\* reading port's next one.
LEMMA EdgeKeepsFetch ==
  ASSUME MaxWrEdges = 1, WordsInv, FetchSafe,
         NEW w \in BOOLEAN, NEW r \in BOOLEAN, NEW we \in BOOLEAN, NEW re \in BOOLEAN,
         Edge(w, r, we, re), w \/ r, r \/ wrEdges < MaxWrEdges
  PROVE  FetchSafe'
<1>1. FifoInv /\ MemoryHolds
  BY DEF WordsInv
<1>2. /\ written \in Nat /\ taken \in Nat /\ Depth \in Nat /\ Depth >= 4 /\ wrPtr \in Address
      /\ WordsIn \in Nat /\ WordsOut \in Nat /\ WordsIn - WordsOut \in 0 .. Depth
      /\ WordsIn = (IF written = 0 THEN 1 ELSE written)
      /\ WordsOut = (IF taken = 0 THEN 1 ELSE taken)
      /\ rdPtr = Back(wrPtr, WordsIn - WordsOut)
      /\ WordsIn - WordsOut = Depth => full
      /\ WordsIn - WordsOut = 0 => empty
  BY <1>1, InNumbers
<1>3. PICK wEn \in BOOLEAN, rEn \in BOOLEAN :
        /\ wEn => w /\ ~full
        /\ rEn => r /\ ~empty
        /\ rdAddr' = IF r THEN rdPtr ELSE rdAddr
        /\ dataOut' = IF r THEN mem[rdAddr] ELSE dataOut
        /\ written' = IF wEn THEN written + 1 ELSE written
        /\ taken' = IF rEn THEN taken + 1 ELSE taken
        /\ got' = IF r THEN fetching ELSE got
        /\ fetching' = IF rEn THEN taken + 1 ELSE IF r THEN 0 ELSE fetching
        /\ wrEdges' = IF r THEN (IF w THEN 1 ELSE 0) ELSE wrEdges + 1
        /\ full /\ ~w => full'
  BY EdgeEffects, SMTT(30)
<1>4. /\ ~wEn => wrPtr' = wrPtr /\ WordsIn' = WordsIn
      /\ wEn => \/ written = 0 /\ wrPtr' = wrPtr /\ WordsIn' = WordsIn
                \/ written # 0 /\ wrPtr' = Succ(wrPtr) /\ WordsIn' = WordsIn + 1
  BY <1>1, <1>3, WriteMoves
<1>5. wrEdges' \in 0 .. 1
  BY <1>3 DEF FetchSafe
<1>6. fetching' \in Nat
  BY <1>2, <1>3 DEF FetchSafe
<1>7. ReadsFollowWrites'
  <2>1. CASE ~r
    BY <2>1, <1>3 DEF FetchSafe, ReadsFollowWrites
  <2>2. CASE r /\ fetching # 0
    <3>1. /\ FetchedWord <= written /\ written < FetchedWord + Depth /\ FetchedWord \in Nat /\ FetchedWord >= 2
          /\ rdAddr = Back(wrPtr, (WordsIn + 1) - FetchedWord)
      BY <2>2 DEF FetchSafe, FetchedWord, Later
    <3>2. (WordsIn + 1) - FetchedWord \in 1 .. Depth /\ (WordsIn + 1) - FetchedWord < WordsIn
      BY <3>1, <1>2
    <3>3. mem[rdAddr] = (WordsIn + 1) - ((WordsIn + 1) - FetchedWord)
      BY <3>1, <3>2, <1>1 DEF MemoryHolds
    <3>4. mem[rdAddr] = FetchedWord
      BY <3>1, <3>3, <1>2
    <3> QED BY <2>2, <3>4, <1>3 DEF ReadsFollowWrites, FetchedWord
  <2>3. CASE r /\ fetching = 0
    BY <2>3, <1>3 DEF ReadsFollowWrites
  <2> QED BY <2>1, <2>2, <2>3
<1>8. ASSUME fetching' # 0
      PROVE  /\ FetchedWord' <= written' /\ written' < FetchedWord' + Depth
             /\ rdAddr' = Back(wrPtr', (WordsIn' + 1) - FetchedWord')
             /\ written' + 1 = FetchedWord' + Depth => full' \/ wrEdges' = 1
  \* Its place behind the pointer, before the edge and after it.
  <2> DEFINE F == Later(fetching', 2)
             d == (WordsIn + 1) - F
  <2>1. F \in Nat /\ FetchedWord' = F
    BY <1>6 DEF FetchedWord, Later
  <2>2. /\ F <= written /\ written < F + Depth /\ rdAddr' = Back(wrPtr, d)
        /\ written + 1 = F + Depth => ~wEn /\ (full' \/ wrEdges' = 1)
    <3>1. CASE rEn
      <4>1. F = WordsOut + 1 /\ WordsIn - WordsOut # 0 /\ rdAddr' = rdPtr /\ r
        BY <3>1, <1>2, <1>3 DEF Later
      <4>2. d = WordsIn - WordsOut /\ F <= written /\ written < F + Depth
        BY <4>1, <1>2
      <4>3. written + 1 = F + Depth => full
        BY <4>1, <1>2
      <4> QED BY <4>1, <4>2, <4>3, <1>2, <1>3
    <3>2. CASE ~rEn
      <4>1. ~r /\ w /\ fetching' = fetching /\ rdAddr' = rdAddr /\ wrEdges = 0 /\ wrEdges' = 1
        BY <3>2, <1>3, <1>8 DEF FetchSafe
      <4>2. F = FetchedWord /\ fetching # 0
        BY <4>1, <1>8 DEF FetchedWord
      <4> QED BY <4>1, <4>2, <1>3 DEF FetchSafe
    <3> QED BY <3>1, <3>2
  <2>3. d \in 1 .. Depth
    BY <2>1, <2>2, <1>2
  <2>4. CASE ~wEn
    BY <2>1, <2>2, <2>4, <1>3, <1>4
  <2>5. CASE wEn
    <3>1. written' = written + 1 /\ written # 0 /\ wrPtr' = Succ(wrPtr) /\ WordsIn' = WordsIn + 1
      BY <2>1, <2>2, <2>5, <1>2, <1>3, <1>4 DEF Later
    <3>2. d # Depth /\ (WordsIn' + 1) - F = d + 1
      BY <2>1, <2>2, <2>5, <3>1, <1>2
    <3>3. Back(wrPtr', d + 1) = Back(wrPtr, d)
      BY <2>3, <3>1, <3>2, <1>2, Backs
    <3>4. wrEdges' = 1
      BY <2>5, <1>3, <1>5 DEF FetchSafe
    <3>5. F <= written' /\ written' < F + Depth
      BY <2>1, <2>2, <2>5, <3>1, <1>2
    <3> QED BY <2>1, <2>2, <3>2, <3>3, <3>4, <3>5
  <2> QED BY <2>4, <2>5
<1> QED BY <1>5, <1>6, <1>7, <1>8 DEF FetchSafe

\* From the second word on the n-th read gives the n-th word, for every
\* depth, when WClk has at most one edge between two of RClk.
THEOREM ReadsAlwaysFollowWrites ==
  ASSUME MaxWrEdges = 1
  PROVE  AFifoSpec => []ReadsFollowWrites
<1>1. WordsInv /\ FetchSafe /\ [AFifoNext]_aFifoVars => FetchSafe'
  <2> SUFFICES ASSUME WordsInv, FetchSafe, [AFifoNext]_aFifoVars PROVE FetchSafe'
    OBVIOUS
  <2>1. CASE WriteEdge
    BY <2>1, EdgeKeepsFetch DEF WriteEdge
  <2>2. CASE ReadEdge
    BY <2>2, EdgeKeepsFetch DEF ReadEdge
  <2>3. CASE BothEdges
    BY <2>3, EdgeKeepsFetch DEF BothEdges
  <2>4. CASE UNCHANGED aFifoVars
    BY <2>4 DEF aFifoVars, counters, history, FetchSafe, FetchedWord, WordsIn, ReadsFollowWrites
  <2> QED BY <2>1, <2>2, <2>3, <2>4 DEF AFifoNext
<1>2. FetchSafe => ReadsFollowWrites
  BY DEF FetchSafe
<1> QED BY FetchInit, WordsInvariant, <1>1, <1>2, PTL DEF AFifoSpec

-----------------------------------------------------------------------------
(***************************************************************************)
(* The sender.  First its invariant: the registers of the transmitter.     *)
(***************************************************************************)
Answering == {"SEND_RADAR_PREAMBLE0", "SEND_RADAR_PREAMBLE1", "SEND_RADAR_STATE0",
              "SEND_RADAR_STATE1", "SEND_RADAR_STATE_NUM0", "SEND_RADAR_STATE_NUM1",
              "SEND_RADAR_STATE_ZEROS"}
CrcStates == {"PUSHCRC1", "PUSHCRC2", "PUSHCRC3", "PUSHCRC4",
              "PUSHCRC5", "PUSHCRC6", "PUSHCRC7", "PUSHCRC8"}
Header    == {"PREAMBLE1", "PREAMBLE2", "DESCR_MAC1", "DESCR_MAC2",
              "DESCR_POS1", "DESCR_POS2", "DESCR_POS3"}
Sending   == Header \cup {"DESCR_POS4", "READ_DATA"} \cup CrcStates
Resting   == {"STARTING", "WAITING", "DELAYING"}

\* Nibbles of the data frame that have left, negative before it starts.
PhaseOf(t) ==
  CASE t.stm = "PREAMBLE1" -> 2 * t.cnt_mac
    [] t.stm = "PREAMBLE2" -> 2 * t.cnt_mac + 1
    [] t.stm = "DESCR_MAC1" -> 2 * PRMBLE_LEN + 2 * t.cnt_mac
    [] t.stm = "DESCR_MAC2" -> 2 * PRMBLE_LEN + 2 * t.cnt_mac + 1
    [] t.stm = "DESCR_POS1" -> HeadLen - 4
    [] t.stm = "DESCR_POS2" -> HeadLen - 3
    [] t.stm = "DESCR_POS3" -> HeadLen - 2
    [] t.stm = "DESCR_POS4" -> HeadLen - 1
    [] t.stm = "READ_DATA" -> HeadLen + t.read_cnt
    [] t.stm = "PUSHCRC8" -> HeadLen + DataLen
    [] t.stm = "PUSHCRC7" -> HeadLen + DataLen + 1
    [] t.stm = "PUSHCRC6" -> HeadLen + DataLen + 2
    [] t.stm = "PUSHCRC5" -> HeadLen + DataLen + 3
    [] t.stm = "PUSHCRC4" -> HeadLen + DataLen + 4
    [] t.stm = "PUSHCRC3" -> HeadLen + DataLen + 5
    [] t.stm = "PUSHCRC2" -> HeadLen + DataLen + 6
    [] t.stm = "PUSHCRC1" -> HeadLen + DataLen + 7
    [] t.stm = "DELAYING" -> 0 - t.delay_cnt - 2
    [] OTHER -> -1

\* Nibbles of the answer to a status request that have left.
AnsweredOf(t) ==
  CASE t.stm = "SEND_RADAR_PREAMBLE0" -> 2 * t.cnt_mac
    [] t.stm = "SEND_RADAR_PREAMBLE1" -> 2 * t.cnt_mac + 1
    [] t.stm = "SEND_RADAR_STATE0" -> 2 * PRMBLE_LEN + 2 * t.outrd_cnt
    [] t.stm = "SEND_RADAR_STATE1" -> 2 * PRMBLE_LEN + 2 * t.outrd_cnt + 1
    [] t.stm = "SEND_RADAR_STATE_NUM0" -> 2 * PRMBLE_LEN + 2 * RADAR_STATUS_LEN
    [] t.stm = "SEND_RADAR_STATE_NUM1" -> 2 * PRMBLE_LEN + 2 * RADAR_STATUS_LEN + 1
    [] t.stm = "SEND_RADAR_STATE_ZEROS" ->
         2 * PRMBLE_LEN + 2 * RADAR_STATUS_LEN + 2 + t.outrd_cnt
    [] OTHER -> AnswerLen

TxRecord(t) ==
  t = [stm |-> t.stm, cnt_mac |-> t.cnt_mac, outrd_cnt |-> t.outrd_cnt,
        read_cnt |-> t.read_cnt, frame_num |-> t.frame_num, delay_cnt |-> t.delay_cnt,
        rd_data |-> t.rd_data, rd_exp |-> t.rd_exp, rd_direct |-> t.rd_direct,
        dv |-> t.dv, out |-> t.out, sig_dir |-> t.sig_dir, crc |-> t.crc,
        request_number |-> t.request_number]

TxType(t) ==
  /\ TxRecord(t)
  /\ t.stm \in {"WAITING_REQUEST"} \cup Answering \cup Resting \cup Sending
  /\ t.cnt_mac \in Nat /\ t.outrd_cnt \in Nat /\ t.read_cnt \in Nat
  /\ t.frame_num \in Nat /\ t.delay_cnt \in Nat
  /\ t.rd_data \in BOOLEAN /\ t.rd_exp \in BOOLEAN /\ t.rd_direct \in BOOLEAN
  /\ t.dv \in BOOLEAN

\* The counters are within their tables.
TxCounts(t) ==
  /\ t.stm \in {"PREAMBLE1", "PREAMBLE2", "SEND_RADAR_PREAMBLE0", "SEND_RADAR_PREAMBLE1"}
       => t.cnt_mac < PRMBLE_LEN
  /\ t.stm \in {"DESCR_MAC1", "DESCR_MAC2"} => t.cnt_mac < HEADER_LEN
  /\ t.stm \in Header \cup {"DESCR_POS4"} => t.read_cnt = 0
  /\ t.stm = "READ_DATA" => t.read_cnt < DataLen
  /\ t.stm = "DELAYING" => t.delay_cnt <= DelayMax
  /\ t.stm \in {"SEND_RADAR_PREAMBLE0", "SEND_RADAR_PREAMBLE1", "SEND_RADAR_STATE_NUM0",
                 "SEND_RADAR_STATE_NUM1"} => t.outrd_cnt = 0
  /\ t.stm \in {"SEND_RADAR_STATE0", "SEND_RADAR_STATE1"} => t.outrd_cnt < RADAR_STATUS_LEN
  /\ t.stm = "SEND_RADAR_STATE_ZEROS" => t.outrd_cnt < 2 * ZEROS_LEN

\* The frames of a sweep are numbered 0 to 3; the number is renewed in the header.
TxNumber(t) ==
  /\ t.stm \in Header => t.frame_num \in 0 .. 3
  /\ t.stm \in Sending \ Header => t.frame_num \in 1 .. 4
  /\ t.stm \in {"WAITING", "DELAYING"} => t.frame_num \in 1 .. 3
  /\ t.stm = "STARTING" => t.frame_num \in {0, 4} \/ ~t.dv

\* What the transmitter asks of the memories, and when.
TxAsks(t) ==
  /\ t.rd_data <=> /\ t.stm \in Sending
                           /\ \/ PhaseOf(t) = HeadLen - 4
                              \/ HeadLen <= PhaseOf(t) /\ PhaseOf(t) <= HeadLen + DataLen - 2
  /\ t.rd_exp <=> t.stm = "PREAMBLE1" /\ t.cnt_mac = 0 /\ t.frame_num = 0
  /\ t.rd_direct <=> t.stm = "PREAMBLE1" /\ t.cnt_mac = 0 /\ t.frame_num = 0

\* The output is valid within the frames only.
TxValid(t) ==
  /\ t.stm \in Sending => (t.dv <=> PhaseOf(t) # 0)
  /\ t.stm \in Answering => (t.dv <=> AnsweredOf(t) # 0)
  /\ t.stm = "WAITING" => ~t.dv
  /\ t.stm = "DELAYING" => (t.dv <=> t.delay_cnt = DelayMax)
  /\ t.stm = "STARTING" /\ t.dv => t.frame_num = 4
  /\ t.stm \in {"STARTING", "DELAYING"} /\ t.dv => t.out = <<"crc", 1, t.crc>>
  /\ t.stm = "WAITING_REQUEST" /\ t.dv => t.out = <<"zero">>

TxGood(t) == TxType(t) /\ TxCounts(t) /\ TxNumber(t) /\ TxAsks(t) /\ TxValid(t)

TxInv == TxGood(tx)
Phase == PhaseOf(tx)
Answered == AnsweredOf(tx)

-----------------------------------------------------------------------------
(***************************************************************************)
(* The source and the receiver.                                            *)
(***************************************************************************)
SourceInv ==
  /\ sweep \in 0 .. MaxSweeps /\ nextWord \in 1 .. SweepWords + 1 /\ since \in 1 .. SweepGap
  /\ sweep = 0 => nextWord = SweepWords + 1 /\ since = SweepGap
  /\ dataMux = IF nextWord > 1 /\ since = 1 THEN <<sweep, nextWord - 1>> ELSE NoWord
  /\ dirIn = sweep
  /\ expIn = IF sweep > 0 /\ nextWord = 1 THEN sweep - 1 ELSE sweep

RxInv ==
  /\ requests \in Nat
  /\ DOMAIN rx = {"new", "type", "no", "left"}
  /\ rx.new \in BOOLEAN /\ rx.type \in {0, 1, 2} /\ rx.no \in Nat /\ rx.left \in 0 .. RequestGap
  /\ rx.new => rx.left + 1 >= RequestGap
  /\ rx.left = RequestGap => rx.new

\* The frame on the wire ends with the symbol that is there now.
FrameInv ==
  /\ Len(frame) \in Nat /\ frame = [k \in 1 .. Len(frame) |-> frame[k]]
  /\ tx.dv => Len(frame) > 0 /\ frame[Len(frame)] = tx.out

-----------------------------------------------------------------------------
(***************************************************************************)
(* The pace.                                                               *)
(***************************************************************************)
\* Edges since the first word of the sweep, counted as if the words came as
\* fast as they may.
Clock ==
  (nextWord - 2) * WordGap
    + (IF nextWord <= SweepWords /\ since > WordGap THEN WordGap ELSE since)

\* Words of the sweep that came to the memory.
Came == nextWord - 1 - (IF dataMux = NoWord THEN 0 ELSE 1)

\* Data frames that left the state machine.
Done == sentFrames + (IF tx.dv /\ tx.stm \in {"STARTING", "DELAYING"} THEN 1 ELSE 0)

\* Frames of the sweep that are done; before a sweep, those of the last one.
Index == Done - 4 * (sweep - 1)

\* Nibbles of the frame that were read, and words of the sweep that were.
FetchedAt(p) ==
  IF p <= HeadLen - 4 THEN 0
  ELSE IF p <= HeadLen THEN 1
  ELSE IF p < HeadLen + DataLen THEN p - HeadLen + 1
  ELSE DataLen
Fetched == FetchedAt(Phase)
Taken == Index * FrameWords + Fetched \div 4

\* Words that came at the edge before, and are not in the copy of the count.
Fresh == IF nextWord > 1 /\ since = 2 THEN 1 ELSE 0

MemoryType ==
  /\ words \in Seq(Nat \X Nat) /\ Len(words) <= FifoWords
  /\ part \in 0 .. 3 /\ readCount \in Nat /\ emptyWas \in BOOLEAN /\ sentFrames \in Nat

NotYet ==
  /\ sentFrames = 0 /\ part = 0
  /\ sweep = 0 => words = <<>>
  /\ sweep = 1 => Len(words) = Came \/ Len(words) = FifoWords
  /\ sweep > 1 => Len(words) = FifoWords
  /\ rx.new /\ rx.type = 1 =>
       /\ sweep <= 1
       /\ sweep = 1 => /\ Len(words) = Came
                       /\ Clock <= Window * WordGap + 2 + (RequestGap - rx.left)

InTime ==
  /\ Index \in 0 .. 4
  /\ tx.stm \in Header \cup {"WAITING", "DELAYING"} => Index = tx.frame_num
  /\ tx.stm \in Sending \ Header => Index = tx.frame_num - 1
  /\ tx.stm = "STARTING" => Index \in {0, 4}
  /\ Index < 4 => Clock <= Start(Index) + Phase
  /\ Len(words) = Came - Taken
  /\ part = Fetched % 4
  /\ tx.stm \in {"STARTING", "WAITING"} => readCount = 4 * (Len(words) - Fresh) /\ (emptyWas <=> readCount = 0)
  /\ tx.stm \in Sending => Came >= (Index + 1) * FrameWords

PaceInv == /\ MemoryType
           /\ ~Streaming => NotYet
           /\ Streaming => InTime
-----------------------------------------------------------------------------
\* The words wait in the order of the sweep, and the output shows the last nibble read.
Contents ==
  /\ Streaming => \A k \in 1 .. Len(words) : words[k] = <<sweep, Taken + k>>
  /\ ~Streaming /\ sweep = 1 => \A k \in 1 .. Len(words) : words[k] = <<1, k>>
  /\ tx.stm \in Sending /\ Fetched > 0 => q = <<"nib", sweep, Index * DataLen + Fetched>>

\* The direction and the exponent that are shown are those of the sweep.
Labels ==
  /\ expOut \in Nat /\ dirOut = expOut
  /\ ~Streaming => expOut = 0
  /\ tx.stm = "STARTING" \/ (tx.stm \in Sending /\ Phase = 0 /\ Index = 0)
        => expOut = Later(sweep - (IF Index = 4 THEN 1 ELSE 2), 0)
  /\ tx.stm \in {"DELAYING", "WAITING"} \/ (tx.stm \in Sending /\ ~(Phase = 0 /\ Index = 0))
       => expOut = sweep - 1
  /\ tx.stm \in Sending /\ Phase >= 2 => expReg = sweep /\ dirReg = sweep
  /\ tx.stm \in Sending /\ Phase >= HeadLen - 4 => tx.sig_dir = sweep

\* The symbols of a frame, of what its checksum covers, and of an answer.
CoveredLen == HeadLen + DataLen - 2 * PRMBLE_LEN

CoveredAt(s, n, k) ==
  IF k <= 2 * HEADER_LEN THEN <<"mac", (k - 1) \div 2, (k - 1) % 2>>
  ELSE IF k = 2 * HEADER_LEN + 1 THEN <<"dir", s>>
  ELSE IF k = 2 * HEADER_LEN + 2 THEN <<"num", n>>
  ELSE IF k = 2 * HEADER_LEN + 3 THEN <<"exp", s, 0>>
  ELSE IF k = 2 * HEADER_LEN + 4 THEN <<"exp", s, 1>>
  ELSE <<"nib", s, n * DataLen + (k - (2 * HEADER_LEN + 4))>>

FrameAt(s, n, k) ==
  IF k <= 2 * PRMBLE_LEN THEN <<"pre", (k - 1) \div 2, (k - 1) % 2>>
  ELSE IF k <= HeadLen + DataLen THEN CoveredAt(s, n, k - 2 * PRMBLE_LEN)
  ELSE <<"crc", 9 - (k - (HeadLen + DataLen)), Covered(s, n)>>

AnswerAt(no, k) ==
  IF k <= 2 * PRMBLE_LEN THEN <<"pre", (k - 1) \div 2, (k - 1) % 2>>
  ELSE IF k <= 2 * PRMBLE_LEN + 2 * RADAR_STATUS_LEN
  THEN <<"state", (k - 2 * PRMBLE_LEN - 1) \div 2, (k - 2 * PRMBLE_LEN - 1) % 2>>
  ELSE IF k <= 2 * PRMBLE_LEN + 2 * RADAR_STATUS_LEN + 2
  THEN <<"no", no, k - (2 * PRMBLE_LEN + 2 * RADAR_STATUS_LEN) - 1>>
  ELSE <<"zero">>

\* Nibbles in the checksum after p nibbles of the frame.
CrcLen(p) ==
  IF p <= 2 * PRMBLE_LEN THEN 0 ELSE IF p <= HeadLen + DataLen THEN p - 2 * PRMBLE_LEN ELSE CoveredLen

Drawn ==
  /\ tx.stm \in Sending /\ Phase >= 1 =>
       frame = [k \in 1 .. Phase |-> FrameAt(sweep, Index, k)]
  /\ tx.stm \in {"STARTING", "DELAYING"} /\ tx.dv =>
       frame = DataFrame(sentFrames \div Frames + 1, sentFrames % Frames)
  /\ tx.stm \in Sending => tx.crc = [k \in 1 .. CrcLen(Phase) |-> CoveredAt(sweep, Index, k)]
  /\ tx.stm \in Answering /\ Answered >= 1 =>
       frame = [k \in 1 .. Answered |-> AnswerAt(tx.request_number, k)]
  /\ tx.stm = "WAITING_REQUEST" /\ tx.dv => frame = StatusFrame(tx.request_number)

IdleInv ==
  /\ idle \in 0 .. MinIdle /\ (tx.dv => idle = 0)
  /\ idle < MinIdle =>
       /\ tx.stm = "DELAYING" => idle >= DelayMax - tx.delay_cnt
       /\ tx.stm = "WAITING" => idle > DelayMax
       /\ tx.stm = "STARTING" /\ Index = 0 => idle >= Clock + WordGap - 1
       /\ tx.stm = "WAITING_REQUEST" => idle + rx.left + 1 >= MinIdle /\ ~rx.new
       /\ tx.stm \in Sending \cup Answering => tx.dv
  /\ tx.stm \in Answering => rx.left + Answered = RequestGap - 1 /\ (Answered > 0 => ~rx.new)
  /\ tx.stm = "WAITING_REQUEST" /\ rx.new /\ rx.type # 2 => rx.left = RequestGap

-----------------------------------------------------------------------------
(***************************************************************************)
(* The constants, and the states of the transmitter as numbers.            *)
(***************************************************************************)
\* The constants as numbers: four words make no difference to the parity of a frame.
LEMMA Lengths ==
  /\ PRMBLE_LEN \in Nat /\ PRMBLE_LEN >= 1 /\ HEADER_LEN \in Nat /\ HEADER_LEN >= 1
  /\ RADAR_STATUS_LEN \in Nat /\ RADAR_STATUS_LEN >= 1 /\ ZEROS_LEN \in Nat /\ ZEROS_LEN >= 1
  /\ FrameWords \in Nat /\ FrameWords >= 1 /\ DATAFRAME_LEN = 2 * FrameWords
  /\ DataLen = 4 * FrameWords /\ SweepWords = 4 * FrameWords /\ FifoWords = 2 * FrameWords
  /\ HeadLen \in Nat /\ HeadLen = 2 * PRMBLE_LEN + 2 * HEADER_LEN + 4
  /\ FrameLen = HeadLen + DataLen + 8
  /\ AnswerLen = 2 * PRMBLE_LEN + 2 * RADAR_STATUS_LEN + 2 + 2 * ZEROS_LEN
  /\ DelayMax \in Nat /\ WordGap \in Nat /\ SweepGap \in Nat /\ MinIdle \in Nat
  /\ RequestGap \in Nat /\ Window \in Nat /\ MaxSweeps \in Nat /\ MaxRequests \in Nat
  BY SenderAssumption DEF FrameWords, DataLen, SweepWords, Frames, HeadLen, FrameLen, AnswerLen

\* How far the frame is in each state.
LEMMA PhaseIs ==
  \A t :
    /\ t.stm = "PREAMBLE1" => PhaseOf(t) = 2 * t.cnt_mac
    /\ t.stm = "PREAMBLE2" => PhaseOf(t) = 2 * t.cnt_mac + 1
    /\ t.stm = "DESCR_MAC1" => PhaseOf(t) = 2 * PRMBLE_LEN + 2 * t.cnt_mac
    /\ t.stm = "DESCR_MAC2" => PhaseOf(t) = 2 * PRMBLE_LEN + 2 * t.cnt_mac + 1
    /\ t.stm = "DESCR_POS1" => PhaseOf(t) = HeadLen - 4
    /\ t.stm = "DESCR_POS2" => PhaseOf(t) = HeadLen - 3
    /\ t.stm = "DESCR_POS3" => PhaseOf(t) = HeadLen - 2
    /\ t.stm = "DESCR_POS4" => PhaseOf(t) = HeadLen - 1
    /\ t.stm = "READ_DATA" => PhaseOf(t) = HeadLen + t.read_cnt
    /\ t.stm = "PUSHCRC8" => PhaseOf(t) = HeadLen + DataLen
    /\ t.stm = "PUSHCRC7" => PhaseOf(t) = HeadLen + DataLen + 1
    /\ t.stm = "PUSHCRC6" => PhaseOf(t) = HeadLen + DataLen + 2
    /\ t.stm = "PUSHCRC5" => PhaseOf(t) = HeadLen + DataLen + 3
    /\ t.stm = "PUSHCRC4" => PhaseOf(t) = HeadLen + DataLen + 4
    /\ t.stm = "PUSHCRC3" => PhaseOf(t) = HeadLen + DataLen + 5
    /\ t.stm = "PUSHCRC2" => PhaseOf(t) = HeadLen + DataLen + 6
    /\ t.stm = "PUSHCRC1" => PhaseOf(t) = HeadLen + DataLen + 7
    /\ t.stm = "DELAYING" => PhaseOf(t) = 0 - t.delay_cnt - 2
    /\ t.stm \in {"STARTING", "WAITING", "WAITING_REQUEST"} \cup Answering => PhaseOf(t) = -1
  BY DEF PhaseOf, Answering

\* How far the answer is in each state.
LEMMA AnsweredIs ==
  \A t :
    /\ t.stm = "SEND_RADAR_PREAMBLE0" => AnsweredOf(t) = 2 * t.cnt_mac
    /\ t.stm = "SEND_RADAR_PREAMBLE1" => AnsweredOf(t) = 2 * t.cnt_mac + 1
    /\ t.stm = "SEND_RADAR_STATE0" => AnsweredOf(t) = 2 * PRMBLE_LEN + 2 * t.outrd_cnt
    /\ t.stm = "SEND_RADAR_STATE1" => AnsweredOf(t) = 2 * PRMBLE_LEN + 2 * t.outrd_cnt + 1
    /\ t.stm = "SEND_RADAR_STATE_NUM0" => AnsweredOf(t) = 2 * PRMBLE_LEN + 2 * RADAR_STATUS_LEN
    /\ t.stm = "SEND_RADAR_STATE_NUM1" =>
         AnsweredOf(t) = 2 * PRMBLE_LEN + 2 * RADAR_STATUS_LEN + 1
    /\ t.stm = "SEND_RADAR_STATE_ZEROS" =>
         AnsweredOf(t) = 2 * PRMBLE_LEN + 2 * RADAR_STATUS_LEN + 2 + t.outrd_cnt
    /\ t.stm \in {"WAITING_REQUEST"} \cup Resting \cup Sending => AnsweredOf(t) = AnswerLen
  BY DEF AnsweredOf, Sending, Resting, Header, CrcStates

-----------------------------------------------------------------------------
(***************************************************************************)
(* The steps of the transmitter.                                           *)
(***************************************************************************)
\* A byte is two nibbles.
LEMMA Halves ==
  \A a \in Nat : /\ (2 * a) \div 2 = a /\ (2 * a) % 2 = 0
                  /\ (2 * a + 1) \div 2 = a /\ (2 * a + 1) % 2 = 1
  OBVIOUS

\* The symbol that leaves next, from the registers, the memory's output and
\* the exponent.
SymbolOf(t, p, exp, nibble) ==
  IF p < 2 * PRMBLE_LEN THEN <<"pre", p \div 2, p % 2>>
  ELSE IF p < HeadLen - 4
  THEN <<"mac", (p - 2 * PRMBLE_LEN) \div 2, (p - 2 * PRMBLE_LEN) % 2>>
  ELSE IF p = HeadLen - 4 THEN <<"dir", t.sig_dir>>
  ELSE IF p = HeadLen - 3 THEN <<"num", t.frame_num>>
  ELSE IF p = HeadLen - 2 THEN <<"exp", exp, 0>>
  ELSE IF p = HeadLen - 1 THEN <<"exp", exp, 1>>
  ELSE IF p < HeadLen + DataLen THEN nibble
  ELSE <<"crc", FrameLen - p, t.crc>>

\* A nibble of a data frame leaves.
Nibbled(t, p, u, r, exp, dir, nibble, c) ==
  /\ t.stm \in Sending /\ u.dv /\ u.request_number = t.request_number
  /\ p \in 0 .. FrameLen - 1
  /\ p < FrameLen - 1 => u.stm \in Sending /\ r = p + 1
  /\ p = FrameLen - 1 =>
       IF t.frame_num = 4 THEN u.stm = "STARTING"
       ELSE u.stm = "DELAYING" /\ u.delay_cnt = DelayMax
  /\ u.out = SymbolOf(t, p, exp, nibble)
  /\ u.frame_num = (IF p = HeadLen - 2 THEN t.frame_num + 1 ELSE t.frame_num)
  /\ u.sig_dir = (IF p = HeadLen - 5 THEN dir ELSE t.sig_dir)
  /\ u.crc = (IF 2 * PRMBLE_LEN <= p /\ p < HeadLen + DataLen THEN c ELSE t.crc)

SendsNibble ==
  Nibbled(tx, Phase, tx', Phase', expReg, dirReg, q, Append(tx.crc, tx'.out))

\* A nibble of the preamble leaves, outside of the checksum.
LEMMA PreambleStep == ASSUME TxInv, Preamble PROVE TxInv' /\ SendsNibble
<1> DEFINE t == tx
           u == tx'
           p == PhaseOf(t)
           r == PhaseOf(u)
           c == Append(t.crc, u.out)
<1>1. TxType(t)
  BY DEF TxInv, TxGood
<1> SUFFICES TxGood(u) /\ Nibbled(t, p, u, r, expReg, dirReg, q, c)
  BY DEF TxInv, SendsNibble, Phase
<1>2. CASE t.stm = "PREAMBLE1"
  <2> DEFINE s == <<"pre", t.cnt_mac, 0>>
  <2>1. /\ t.frame_num \in 0 .. 3 /\ t.read_cnt = 0 /\ t.cnt_mac \in Nat
        /\ t.cnt_mac < PRMBLE_LEN
    BY <1>1, <1>2, Lengths DEF TxInv, TxGood, TxType, TxCounts, TxNumber, Header, t
  <2>2. /\ TxRecord(u) /\ u.stm = "PREAMBLE2" /\ u.cnt_mac = t.cnt_mac
        /\ u.outrd_cnt = t.outrd_cnt /\ u.read_cnt = t.read_cnt /\ u.frame_num = t.frame_num
        /\ u.delay_cnt = t.delay_cnt /\ ~u.rd_data /\ ~u.rd_exp /\ ~u.rd_direct /\ u.dv
        /\ u.out = s /\ u.sig_dir = t.sig_dir /\ u.crc = t.crc
        /\ u.request_number = t.request_number /\ u.rd_data \in BOOLEAN
        /\ u.rd_exp \in BOOLEAN /\ u.rd_direct \in BOOLEAN /\ u.dv \in BOOLEAN
    BY <1>1, <1>2, <2>1 DEF Preamble, Byte, Half, TxType, TxRecord
  <2> HIDE DEF t, u, c
  <2>3. p = 2 * t.cnt_mac /\ r = p + 1
    BY <1>2, <2>1, <2>2, PhaseIs, Lengths
  <2>4. TxType(u) /\ TxCounts(u) /\ TxNumber(u)
    <3>1. TxType(u)
      BY <1>1, <2>1, <2>2, Lengths DEF TxType, Sending, Header
    <3>2. TxCounts(u)
      BY <1>1, <2>1, <2>2, Lengths DEF TxCounts, Sending, Header
    <3>3. TxNumber(u)
      BY <1>1, <2>1, <2>2 DEF TxNumber, Sending, Header
    <3> QED
      BY <3>1, <3>2, <3>3
  <2>5. /\ p \in 0 .. 2 * PRMBLE_LEN - 2 /\ p \div 2 = t.cnt_mac /\ p % 2 = 0
    <3>1. /\ p \in 0 .. 2 * PRMBLE_LEN - 2 /\ p = 2 * t.cnt_mac
      BY <2>1, <2>3, Lengths
    <3> HIDE DEF p
    <3> QED
      BY <2>1, <3>1, Halves
  <2>6. ~t.rd_data
    BY <1>2, <2>1, <2>5, Lengths DEF TxInv, TxGood, TxAsks, Sending, Header, t
  <2> HIDE DEF p, r
  <2>7. TxAsks(u)
    BY <2>1, <2>2, <2>3, <2>5, <2>6, Lengths DEF TxAsks, Sending, Header, r
  <2>8. TxValid(u)
    BY <2>1, <2>2, <2>3, <2>5, Lengths DEF TxValid, Sending, Header, Answering, r
  <2>9. SymbolOf(t, p, expReg, q) = s
    BY <2>5, Lengths DEF SymbolOf
  <2>10. t.stm \in Sending /\ u.stm \in Sending
    BY <1>2, <2>1, <2>2 DEF Sending, Header
  <2>11. /\ p # HeadLen - 5 /\ p # HeadLen - 2 /\ p # FrameLen - 1
         /\ p \in 0 .. FrameLen - 1 /\ ~(2 * PRMBLE_LEN <= p)
    BY <2>1, <2>3, <2>5, Lengths
  <2>12. Nibbled(t, p, u, r, expReg, dirReg, q, c)
    BY <2>1, <2>2, <2>3, <2>9, <2>10, <2>11 DEF Nibbled
  <2> QED
    BY <2>4, <2>7, <2>8, <2>12 DEF TxGood, p, r
<1>3. CASE t.stm = "PREAMBLE2" /\ t.cnt_mac < PRMBLE_LEN - 1
  <2> DEFINE s == <<"pre", t.cnt_mac, 1>>
  <2>1. /\ t.frame_num \in 0 .. 3 /\ t.read_cnt = 0 /\ t.cnt_mac \in Nat
        /\ t.cnt_mac < PRMBLE_LEN /\ t.cnt_mac + 1 < PRMBLE_LEN /\ ~t.rd_exp
    BY <1>1, <1>3, Lengths DEF TxInv, TxGood, TxType, TxCounts, TxNumber, Header, TxAsks, t
  <2>2. /\ TxRecord(u) /\ u.stm = "PREAMBLE1" /\ u.cnt_mac = t.cnt_mac + 1
        /\ u.outrd_cnt = t.outrd_cnt /\ u.read_cnt = t.read_cnt /\ u.frame_num = t.frame_num
        /\ u.delay_cnt = t.delay_cnt /\ ~u.rd_data /\ u.rd_exp = t.rd_exp /\ ~u.rd_direct
        /\ u.dv /\ u.out = s /\ u.sig_dir = t.sig_dir /\ u.crc = t.crc
        /\ u.request_number = t.request_number /\ u.rd_data \in BOOLEAN
        /\ u.rd_direct \in BOOLEAN /\ u.dv \in BOOLEAN
    BY <1>1, <1>3, <2>1 DEF Preamble, Byte, Half, TxType, TxRecord
  <2> HIDE DEF t, u, c
  <2>3. p = 2 * t.cnt_mac + 1 /\ r = p + 1
    BY <1>3, <2>1, <2>2, PhaseIs, Lengths
  <2>4. TxType(u) /\ TxCounts(u) /\ TxNumber(u)
    <3>1. TxType(u)
      BY <1>1, <2>1, <2>2, Lengths DEF TxType, Sending, Header
    <3>2. TxCounts(u)
      BY <1>1, <2>1, <2>2, Lengths DEF TxCounts, Sending, Header
    <3>3. TxNumber(u)
      BY <1>1, <2>1, <2>2 DEF TxNumber, Sending, Header
    <3> QED
      BY <3>1, <3>2, <3>3
  <2>5. /\ p \in 0 .. 2 * PRMBLE_LEN - 1 /\ p \div 2 = t.cnt_mac /\ p % 2 = 1
    <3>1. /\ p \in 0 .. 2 * PRMBLE_LEN - 1 /\ p = 2 * t.cnt_mac + 1
      BY <2>1, <2>3, Lengths
    <3> HIDE DEF p
    <3> QED
      BY <2>1, <3>1, Halves
  <2>6. ~t.rd_data /\ ~t.rd_exp /\ ~t.rd_direct
    BY <1>3, <2>1, <2>5, Lengths DEF TxInv, TxGood, TxAsks, Sending, Header, t
  <2> HIDE DEF p, r
  <2>7. TxAsks(u)
    BY <2>1, <2>2, <2>3, <2>5, <2>6, Lengths DEF TxAsks, Sending, Header, r
  <2>8. TxValid(u)
    BY <2>1, <2>2, <2>3, <2>5, Lengths DEF TxValid, Sending, Header, Answering, r
  <2>9. SymbolOf(t, p, expReg, q) = s
    BY <2>5, Lengths DEF SymbolOf
  <2>10. t.stm \in Sending /\ u.stm \in Sending
    BY <1>3, <2>1, <2>2 DEF Sending, Header
  <2>11. /\ p # HeadLen - 5 /\ p # HeadLen - 2 /\ p # FrameLen - 1
         /\ p \in 0 .. FrameLen - 1 /\ ~(2 * PRMBLE_LEN <= p)
    BY <2>1, <2>3, <2>5, Lengths
  <2>12. Nibbled(t, p, u, r, expReg, dirReg, q, c)
    BY <2>1, <2>2, <2>3, <2>9, <2>10, <2>11 DEF Nibbled
  <2> QED
    BY <2>4, <2>7, <2>8, <2>12 DEF TxGood, p, r
<1>4. CASE t.stm = "PREAMBLE2" /\ ~(t.cnt_mac < PRMBLE_LEN - 1)
  <2> DEFINE s == <<"pre", t.cnt_mac, 1>>
  <2>1. /\ t.frame_num \in 0 .. 3 /\ t.read_cnt = 0 /\ t.cnt_mac \in Nat
        /\ t.cnt_mac < PRMBLE_LEN /\ t.cnt_mac = PRMBLE_LEN - 1 /\ ~t.rd_exp
    BY <1>1, <1>4, Lengths DEF TxInv, TxGood, TxType, TxCounts, TxNumber, Header, TxAsks, t
  <2>2. /\ TxRecord(u) /\ u.stm = "DESCR_MAC1" /\ u.cnt_mac = 0 /\ u.outrd_cnt = t.outrd_cnt
        /\ u.read_cnt = t.read_cnt /\ u.frame_num = t.frame_num /\ u.delay_cnt = t.delay_cnt
        /\ ~u.rd_data /\ u.rd_exp = t.rd_exp /\ ~u.rd_direct /\ u.dv /\ u.out = s
        /\ u.sig_dir = t.sig_dir /\ u.crc = t.crc /\ u.request_number = t.request_number
        /\ u.rd_data \in BOOLEAN /\ u.rd_direct \in BOOLEAN /\ u.dv \in BOOLEAN
    BY <1>1, <1>4, <2>1 DEF Preamble, Byte, Half, TxType, TxRecord
  <2> HIDE DEF t, u, c
  <2>3. p = 2 * t.cnt_mac + 1 /\ r = p + 1
    BY <1>4, <2>1, <2>2, PhaseIs, Lengths
  <2>4. TxType(u) /\ TxCounts(u) /\ TxNumber(u)
    <3>1. TxType(u)
      BY <1>1, <2>1, <2>2, Lengths DEF TxType, Sending, Header
    <3>2. TxCounts(u)
      BY <1>1, <2>1, <2>2, Lengths DEF TxCounts, Sending, Header
    <3>3. TxNumber(u)
      BY <1>1, <2>1, <2>2 DEF TxNumber, Sending, Header
    <3> QED
      BY <3>1, <3>2, <3>3
  <2>5. /\ p = 2 * PRMBLE_LEN - 1 /\ p \div 2 = t.cnt_mac /\ p % 2 = 1
    <3>1. /\ p = 2 * PRMBLE_LEN - 1 /\ p = 2 * t.cnt_mac + 1
      BY <2>1, <2>3, Lengths
    <3> HIDE DEF p
    <3> QED
      BY <2>1, <3>1, Halves
  <2>6. ~t.rd_data /\ ~t.rd_exp /\ ~t.rd_direct
    BY <1>4, <2>1, <2>5, Lengths DEF TxInv, TxGood, TxAsks, Sending, Header, t
  <2> HIDE DEF p, r
  <2>7. TxAsks(u)
    BY <2>1, <2>2, <2>3, <2>5, <2>6, Lengths DEF TxAsks, Sending, Header, r
  <2>8. TxValid(u)
    BY <2>1, <2>2, <2>3, <2>5, Lengths DEF TxValid, Sending, Header, Answering, r
  <2>9. SymbolOf(t, p, expReg, q) = s
    BY <2>5, Lengths DEF SymbolOf
  <2>10. t.stm \in Sending /\ u.stm \in Sending
    BY <1>4, <2>1, <2>2 DEF Sending, Header
  <2>11. /\ p # HeadLen - 5 /\ p # HeadLen - 2 /\ p # FrameLen - 1
         /\ p \in 0 .. FrameLen - 1 /\ ~(2 * PRMBLE_LEN <= p)
    BY <2>1, <2>3, <2>5, Lengths
  <2>12. Nibbled(t, p, u, r, expReg, dirReg, q, c)
    BY <2>1, <2>2, <2>3, <2>9, <2>10, <2>11 DEF Nibbled
  <2> QED
    BY <2>4, <2>7, <2>8, <2>12 DEF TxGood, p, r
<1> QED
  BY <1>2, <1>3, <1>4
    DEF Preamble, TxInv, TxGood, TxCounts, TxType, t

\* A nibble of the header leaves; behind the last one the first sample is asked for.
LEMMA DescrMacStep == ASSUME TxInv, DescrMac PROVE TxInv' /\ SendsNibble
<1> DEFINE t == tx
           u == tx'
           p == PhaseOf(t)
           r == PhaseOf(u)
           c == Append(t.crc, u.out)
<1>1. TxType(t)
  BY DEF TxInv, TxGood
<1> SUFFICES TxGood(u) /\ Nibbled(t, p, u, r, expReg, dirReg, q, c)
  BY DEF TxInv, SendsNibble, Phase
<1>2. CASE t.stm = "DESCR_MAC1"
  <2> DEFINE s == <<"mac", t.cnt_mac, 0>>
  <2>1. /\ t.frame_num \in 0 .. 3 /\ t.read_cnt = 0 /\ t.cnt_mac \in Nat
        /\ t.cnt_mac < HEADER_LEN
    BY <1>1, <1>2, Lengths DEF TxInv, TxGood, TxType, TxCounts, TxNumber, Header, t
  <2>2. /\ TxRecord(u) /\ u.stm = "DESCR_MAC2" /\ u.cnt_mac = t.cnt_mac
        /\ u.outrd_cnt = t.outrd_cnt /\ u.read_cnt = t.read_cnt /\ u.frame_num = t.frame_num
        /\ u.delay_cnt = t.delay_cnt /\ u.rd_data = t.rd_data /\ u.rd_exp = t.rd_exp
        /\ ~u.rd_direct /\ u.dv /\ u.out = s /\ u.sig_dir = t.sig_dir /\ u.crc = c
        /\ u.request_number = t.request_number /\ u.rd_direct \in BOOLEAN
        /\ u.dv \in BOOLEAN
    BY <1>1, <1>2, <2>1 DEF DescrMac, Byte, Send, Half, TxType, TxRecord
  <2> HIDE DEF t, u, c
  <2>3. p = 2 * PRMBLE_LEN + 2 * t.cnt_mac /\ r = p + 1
    BY <1>2, <2>1, <2>2, PhaseIs, Lengths
  <2>4. TxType(u) /\ TxCounts(u) /\ TxNumber(u)
    <3>1. TxType(u)
      BY <1>1, <2>1, <2>2, Lengths DEF TxType, Sending, Header
    <3>2. TxCounts(u)
      BY <1>1, <2>1, <2>2, Lengths DEF TxCounts, Sending, Header
    <3>3. TxNumber(u)
      BY <1>1, <2>1, <2>2 DEF TxNumber, Sending, Header
    <3> QED
      BY <3>1, <3>2, <3>3
  <2>5. /\ p \in 2 * PRMBLE_LEN .. HeadLen - 6 /\ p - 2 * PRMBLE_LEN = 2 * t.cnt_mac
        /\ (p - 2 * PRMBLE_LEN) \div 2 = t.cnt_mac /\ (p - 2 * PRMBLE_LEN) % 2 = 0
    <3>1. /\ p \in 2 * PRMBLE_LEN .. HeadLen - 6 /\ p - 2 * PRMBLE_LEN = 2 * t.cnt_mac
      BY <2>1, <2>3, Lengths
    <3> HIDE DEF p
    <3> QED
      BY <2>1, <3>1, Halves
  <2>6. ~t.rd_data /\ ~t.rd_exp /\ ~t.rd_direct
    BY <1>2, <2>1, <2>5, Lengths DEF TxInv, TxGood, TxAsks, Sending, Header, t
  <2> HIDE DEF p, r
  <2>7. TxAsks(u)
    BY <2>1, <2>2, <2>3, <2>5, <2>6, Lengths DEF TxAsks, Sending, Header, r
  <2>8. TxValid(u)
    BY <2>1, <2>2, <2>3, <2>5, Lengths DEF TxValid, Sending, Header, Answering, r
  <2>9. SymbolOf(t, p, expReg, q) = s
    BY <2>5, Lengths DEF SymbolOf
  <2>10. t.stm \in Sending /\ u.stm \in Sending
    BY <1>2, <2>1, <2>2 DEF Sending, Header
  <2>11. /\ p # HeadLen - 5 /\ p # HeadLen - 2 /\ p # FrameLen - 1
         /\ p \in 0 .. FrameLen - 1 /\ 2 * PRMBLE_LEN <= p /\ p < HeadLen + DataLen
    BY <2>1, <2>3, <2>5, Lengths
  <2>12. Nibbled(t, p, u, r, expReg, dirReg, q, c)
    BY <2>1, <2>2, <2>3, <2>9, <2>10, <2>11 DEF Nibbled
  <2> QED
    BY <2>4, <2>7, <2>8, <2>12 DEF TxGood, p, r
<1>3. CASE t.stm = "DESCR_MAC2" /\ t.cnt_mac < HEADER_LEN - 1
  <2> DEFINE s == <<"mac", t.cnt_mac, 1>>
  <2>1. /\ t.frame_num \in 0 .. 3 /\ t.read_cnt = 0 /\ t.cnt_mac \in Nat
        /\ t.cnt_mac < HEADER_LEN /\ t.cnt_mac + 1 < HEADER_LEN
    BY <1>1, <1>3, Lengths DEF TxInv, TxGood, TxType, TxCounts, TxNumber, Header, t
  <2>2. /\ TxRecord(u) /\ u.stm = "DESCR_MAC1" /\ u.cnt_mac = t.cnt_mac + 1
        /\ u.outrd_cnt = t.outrd_cnt /\ u.read_cnt = t.read_cnt /\ u.frame_num = t.frame_num
        /\ u.delay_cnt = t.delay_cnt /\ u.rd_data = t.rd_data /\ u.rd_exp = t.rd_exp
        /\ u.rd_direct = t.rd_direct /\ u.dv /\ u.out = s /\ u.sig_dir = t.sig_dir
        /\ u.crc = c /\ u.request_number = t.request_number /\ u.dv \in BOOLEAN
    BY <1>1, <1>3, <2>1 DEF DescrMac, Byte, Send, Half, TxType, TxRecord
  <2> HIDE DEF t, u, c
  <2>3. p = 2 * PRMBLE_LEN + 2 * t.cnt_mac + 1 /\ r = p + 1
    BY <1>3, <2>1, <2>2, PhaseIs, Lengths
  <2>4. TxType(u) /\ TxCounts(u) /\ TxNumber(u)
    <3>1. TxType(u)
      BY <1>1, <2>1, <2>2, Lengths DEF TxType, Sending, Header
    <3>2. TxCounts(u)
      BY <1>1, <2>1, <2>2, Lengths DEF TxCounts, Sending, Header
    <3>3. TxNumber(u)
      BY <1>1, <2>1, <2>2 DEF TxNumber, Sending, Header
    <3> QED
      BY <3>1, <3>2, <3>3
  <2>5. /\ p \in 2 * PRMBLE_LEN .. HeadLen - 6 /\ p - 2 * PRMBLE_LEN = 2 * t.cnt_mac + 1
        /\ (p - 2 * PRMBLE_LEN) \div 2 = t.cnt_mac /\ (p - 2 * PRMBLE_LEN) % 2 = 1
    <3>1. /\ p \in 2 * PRMBLE_LEN .. HeadLen - 6 /\ p - 2 * PRMBLE_LEN = 2 * t.cnt_mac + 1
      BY <2>1, <2>3, Lengths
    <3> HIDE DEF p
    <3> QED
      BY <2>1, <3>1, Halves
  <2>6. ~t.rd_data /\ ~t.rd_exp /\ ~t.rd_direct
    BY <1>3, <2>1, <2>5, Lengths DEF TxInv, TxGood, TxAsks, Sending, Header, t
  <2> HIDE DEF p, r
  <2>7. TxAsks(u)
    BY <2>1, <2>2, <2>3, <2>5, <2>6, Lengths DEF TxAsks, Sending, Header, r
  <2>8. TxValid(u)
    BY <2>1, <2>2, <2>3, <2>5, Lengths DEF TxValid, Sending, Header, Answering, r
  <2>9. SymbolOf(t, p, expReg, q) = s
    BY <2>5, Lengths DEF SymbolOf
  <2>10. t.stm \in Sending /\ u.stm \in Sending
    BY <1>3, <2>1, <2>2 DEF Sending, Header
  <2>11. /\ p # HeadLen - 5 /\ p # HeadLen - 2 /\ p # FrameLen - 1
         /\ p \in 0 .. FrameLen - 1 /\ 2 * PRMBLE_LEN <= p /\ p < HeadLen + DataLen
    BY <2>1, <2>3, <2>5, Lengths
  <2>12. Nibbled(t, p, u, r, expReg, dirReg, q, c)
    BY <2>1, <2>2, <2>3, <2>9, <2>10, <2>11 DEF Nibbled
  <2> QED
    BY <2>4, <2>7, <2>8, <2>12 DEF TxGood, p, r
<1>4. CASE t.stm = "DESCR_MAC2" /\ ~(t.cnt_mac < HEADER_LEN - 1)
  <2> DEFINE s == <<"mac", t.cnt_mac, 1>>
  <2>1. /\ t.frame_num \in 0 .. 3 /\ t.read_cnt = 0 /\ t.cnt_mac \in Nat
        /\ t.cnt_mac < HEADER_LEN /\ t.cnt_mac = HEADER_LEN - 1
    BY <1>1, <1>4, Lengths DEF TxInv, TxGood, TxType, TxCounts, TxNumber, Header, t
  <2>2. /\ TxRecord(u) /\ u.stm = "DESCR_POS1" /\ u.cnt_mac = 0 /\ u.outrd_cnt = t.outrd_cnt
        /\ u.read_cnt = t.read_cnt /\ u.frame_num = t.frame_num /\ u.delay_cnt = t.delay_cnt
        /\ u.rd_data /\ ~u.rd_exp /\ u.rd_direct = t.rd_direct /\ u.dv /\ u.out = s
        /\ u.sig_dir = dirReg /\ u.crc = c /\ u.request_number = t.request_number
        /\ u.rd_data \in BOOLEAN /\ u.rd_exp \in BOOLEAN /\ u.dv \in BOOLEAN
    BY <1>1, <1>4, <2>1 DEF DescrMac, Byte, Send, Half, TxType, TxRecord
  <2> HIDE DEF t, u, c
  <2>3. p = 2 * PRMBLE_LEN + 2 * t.cnt_mac + 1 /\ r = p + 1
    BY <1>4, <2>1, <2>2, PhaseIs, Lengths
  <2>4. TxType(u) /\ TxCounts(u) /\ TxNumber(u)
    <3>1. TxType(u)
      BY <1>1, <2>1, <2>2, Lengths DEF TxType, Sending, Header
    <3>2. TxCounts(u)
      BY <1>1, <2>1, <2>2, Lengths DEF TxCounts, Sending, Header
    <3>3. TxNumber(u)
      BY <1>1, <2>1, <2>2 DEF TxNumber, Sending, Header
    <3> QED
      BY <3>1, <3>2, <3>3
  <2>5. /\ p = HeadLen - 5 /\ p \in 2 * PRMBLE_LEN .. HeadLen - 5
        /\ p - 2 * PRMBLE_LEN = 2 * t.cnt_mac + 1 /\ (p - 2 * PRMBLE_LEN) \div 2 = t.cnt_mac
        /\ (p - 2 * PRMBLE_LEN) % 2 = 1
    <3>1. /\ p = HeadLen - 5 /\ p \in 2 * PRMBLE_LEN .. HeadLen - 5
          /\ p - 2 * PRMBLE_LEN = 2 * t.cnt_mac + 1
      BY <2>1, <2>3, Lengths
    <3> HIDE DEF p
    <3> QED
      BY <2>1, <3>1, Halves
  <2>6. ~t.rd_data /\ ~t.rd_exp /\ ~t.rd_direct
    BY <1>4, <2>1, <2>5, Lengths DEF TxInv, TxGood, TxAsks, Sending, Header, t
  <2> HIDE DEF p, r
  <2>7. TxAsks(u)
    BY <2>1, <2>2, <2>3, <2>5, <2>6, Lengths DEF TxAsks, Sending, Header, r
  <2>8. TxValid(u)
    BY <2>1, <2>2, <2>3, <2>5, Lengths DEF TxValid, Sending, Header, Answering, r
  <2>9. SymbolOf(t, p, expReg, q) = s
    BY <2>5, Lengths DEF SymbolOf
  <2>10. t.stm \in Sending /\ u.stm \in Sending
    BY <1>4, <2>1, <2>2 DEF Sending, Header
  <2>11. /\ p # HeadLen - 2 /\ p # FrameLen - 1 /\ p \in 0 .. FrameLen - 1
         /\ 2 * PRMBLE_LEN <= p /\ p < HeadLen + DataLen
    BY <2>1, <2>3, <2>5, Lengths
  <2>12. Nibbled(t, p, u, r, expReg, dirReg, q, c)
    BY <2>1, <2>2, <2>3, <2>9, <2>10, <2>11, <2>5 DEF Nibbled
  <2> QED
    BY <2>4, <2>7, <2>8, <2>12 DEF TxGood, p, r
<1> QED
  BY <1>2, <1>3, <1>4
    DEF DescrMac

\* The direction, the number of the frame and the exponent leave.
LEMMA DescrPosStep == ASSUME TxInv, DescrPos PROVE TxInv' /\ SendsNibble
<1> DEFINE t == tx
           u == tx'
           p == PhaseOf(t)
           r == PhaseOf(u)
           c == Append(t.crc, u.out)
<1>1. TxType(t)
  BY DEF TxInv, TxGood
<1> SUFFICES TxGood(u) /\ Nibbled(t, p, u, r, expReg, dirReg, q, c)
  BY DEF TxInv, SendsNibble, Phase
<1>2. CASE t.stm = "DESCR_POS1"
  <2> DEFINE s == <<"dir", t.sig_dir>>
  <2>1. /\ t.frame_num \in 0 .. 3 /\ t.read_cnt = 0
    BY <1>1, <1>2, Lengths DEF TxInv, TxGood, TxType, TxCounts, TxNumber, Header, t
  <2>2. /\ TxRecord(u) /\ u.stm = "DESCR_POS2" /\ u.cnt_mac = t.cnt_mac
        /\ u.outrd_cnt = t.outrd_cnt /\ u.read_cnt = t.read_cnt /\ u.frame_num = t.frame_num
        /\ u.delay_cnt = t.delay_cnt /\ ~u.rd_data /\ ~u.rd_exp /\ u.rd_direct = t.rd_direct
        /\ u.dv /\ u.out = s /\ u.sig_dir = t.sig_dir /\ u.crc = c
        /\ u.request_number = t.request_number /\ u.rd_data \in BOOLEAN
        /\ u.rd_exp \in BOOLEAN /\ u.dv \in BOOLEAN
    BY <1>1, <1>2, <2>1, ZenonT(60) DEF DescrPos, Send, TxType, TxRecord
  <2> HIDE DEF t, u, c
  <2>3. p = HeadLen - 4 /\ r = p + 1
    BY <1>2, <2>1, <2>2, PhaseIs, Lengths
  <2>4. TxType(u) /\ TxCounts(u) /\ TxNumber(u)
    <3>1. TxType(u)
      BY <1>1, <2>1, <2>2, Lengths DEF TxType, Sending, Header
    <3>2. TxCounts(u)
      BY <1>1, <2>1, <2>2, Lengths DEF TxCounts, Sending, Header
    <3>3. TxNumber(u)
      BY <1>1, <2>1, <2>2 DEF TxNumber, Sending, Header
    <3> QED
      BY <3>1, <3>2, <3>3
  <2>5. /\ p \in 2 * PRMBLE_LEN .. HeadLen - 1
    BY <2>1, <2>3, Lengths
  <2>6. ~t.rd_exp /\ ~t.rd_direct
    BY <1>2, <2>1, <2>5, Lengths DEF TxInv, TxGood, TxAsks, Sending, Header, t
  <2> HIDE DEF p, r
  <2>7. TxAsks(u)
    BY <2>1, <2>2, <2>3, <2>5, <2>6, Lengths DEF TxAsks, Sending, Header, r
  <2>8. TxValid(u)
    BY <2>1, <2>2, <2>3, <2>5, Lengths DEF TxValid, Sending, Header, Answering, r
  <2>9. SymbolOf(t, p, expReg, q) = s
    BY <2>3, <2>5, Lengths DEF SymbolOf
  <2>10. t.stm \in Sending /\ u.stm \in Sending
    BY <1>2, <2>1, <2>2 DEF Sending, Header
  <2>11. /\ p # HeadLen - 5 /\ p # HeadLen - 2 /\ p # FrameLen - 1
         /\ p \in 0 .. FrameLen - 1 /\ 2 * PRMBLE_LEN <= p /\ p < HeadLen + DataLen
    BY <2>1, <2>3, <2>5, Lengths
  <2>12. Nibbled(t, p, u, r, expReg, dirReg, q, c)
    BY <2>1, <2>2, <2>3, <2>9, <2>10, <2>11 DEF Nibbled
  <2> QED
    BY <2>4, <2>7, <2>8, <2>12 DEF TxGood, p, r
<1>3. CASE t.stm = "DESCR_POS2"
  <2> DEFINE s == <<"num", t.frame_num>>
  <2>1. /\ t.frame_num \in 0 .. 3 /\ t.read_cnt = 0
    BY <1>1, <1>3, Lengths DEF TxInv, TxGood, TxType, TxCounts, TxNumber, Header, t
  <2>2. /\ TxRecord(u) /\ u.stm = "DESCR_POS3" /\ u.cnt_mac = t.cnt_mac
        /\ u.outrd_cnt = t.outrd_cnt /\ u.read_cnt = t.read_cnt /\ u.frame_num = t.frame_num
        /\ u.delay_cnt = t.delay_cnt /\ ~u.rd_data /\ ~u.rd_exp /\ u.rd_direct = t.rd_direct
        /\ u.dv /\ u.out = s /\ u.sig_dir = t.sig_dir /\ u.crc = c
        /\ u.request_number = t.request_number /\ u.rd_data \in BOOLEAN
        /\ u.rd_exp \in BOOLEAN /\ u.dv \in BOOLEAN
    BY <1>1, <1>3, <2>1, ZenonT(60) DEF DescrPos, Send, TxType, TxRecord
  <2> HIDE DEF t, u, c
  <2>3. p = HeadLen - 3 /\ r = p + 1
    BY <1>3, <2>1, <2>2, PhaseIs, Lengths
  <2>4. TxType(u) /\ TxCounts(u) /\ TxNumber(u)
    <3>1. TxType(u)
      BY <1>1, <2>1, <2>2, Lengths DEF TxType, Sending, Header
    <3>2. TxCounts(u)
      BY <1>1, <2>1, <2>2, Lengths DEF TxCounts, Sending, Header
    <3>3. TxNumber(u)
      BY <1>1, <2>1, <2>2 DEF TxNumber, Sending, Header
    <3> QED
      BY <3>1, <3>2, <3>3
  <2>5. /\ p \in 2 * PRMBLE_LEN .. HeadLen - 1
    BY <2>1, <2>3, Lengths
  <2>6. ~t.rd_exp /\ ~t.rd_direct
    BY <1>3, <2>1, <2>5, Lengths DEF TxInv, TxGood, TxAsks, Sending, Header, t
  <2> HIDE DEF p, r
  <2>7. TxAsks(u)
    BY <2>1, <2>2, <2>3, <2>5, <2>6, Lengths DEF TxAsks, Sending, Header, r
  <2>8. TxValid(u)
    BY <2>1, <2>2, <2>3, <2>5, Lengths DEF TxValid, Sending, Header, Answering, r
  <2>9. SymbolOf(t, p, expReg, q) = s
    BY <2>3, <2>5, Lengths DEF SymbolOf
  <2>10. t.stm \in Sending /\ u.stm \in Sending
    BY <1>3, <2>1, <2>2 DEF Sending, Header
  <2>11. /\ p # HeadLen - 5 /\ p # HeadLen - 2 /\ p # FrameLen - 1
         /\ p \in 0 .. FrameLen - 1 /\ 2 * PRMBLE_LEN <= p /\ p < HeadLen + DataLen
    BY <2>1, <2>3, <2>5, Lengths
  <2>12. Nibbled(t, p, u, r, expReg, dirReg, q, c)
    BY <2>1, <2>2, <2>3, <2>9, <2>10, <2>11 DEF Nibbled
  <2> QED
    BY <2>4, <2>7, <2>8, <2>12 DEF TxGood, p, r
<1>4. CASE t.stm = "DESCR_POS3"
  <2> DEFINE s == <<"exp", expReg, 0>>
  <2>1. /\ t.frame_num \in 0 .. 3 /\ t.read_cnt = 0
        /\ (t.frame_num + 1) % 16 = t.frame_num + 1
    BY <1>1, <1>4, Lengths DEF TxInv, TxGood, TxType, TxCounts, TxNumber, Header, t
  <2>2. /\ TxRecord(u) /\ u.stm = "DESCR_POS4" /\ u.cnt_mac = t.cnt_mac
        /\ u.outrd_cnt = t.outrd_cnt /\ u.read_cnt = t.read_cnt
        /\ u.frame_num = t.frame_num + 1 /\ u.delay_cnt = t.delay_cnt /\ ~u.rd_data
        /\ u.rd_exp = t.rd_exp /\ u.rd_direct = t.rd_direct /\ u.dv /\ u.out = s
        /\ u.sig_dir = t.sig_dir /\ u.crc = c /\ u.request_number = t.request_number
        /\ u.rd_data \in BOOLEAN /\ u.dv \in BOOLEAN
    BY <1>1, <1>4, <2>1, ZenonT(60) DEF DescrPos, Send, TxType, TxRecord
  <2> HIDE DEF t, u, c
  <2>3. p = HeadLen - 2 /\ r = p + 1
    BY <1>4, <2>1, <2>2, PhaseIs, Lengths
  <2>4. TxType(u) /\ TxCounts(u) /\ TxNumber(u)
    <3>1. TxType(u)
      BY <1>1, <2>1, <2>2, Lengths DEF TxType, Sending, Header
    <3>2. TxCounts(u)
      BY <1>1, <2>1, <2>2, Lengths DEF TxCounts, Sending, Header
    <3>3. TxNumber(u)
      BY <1>1, <2>1, <2>2 DEF TxNumber, Sending, Header
    <3> QED
      BY <3>1, <3>2, <3>3
  <2>5. /\ p \in 2 * PRMBLE_LEN .. HeadLen - 1
    BY <2>1, <2>3, Lengths
  <2>6. ~t.rd_exp /\ ~t.rd_direct
    BY <1>4, <2>1, <2>5, Lengths DEF TxInv, TxGood, TxAsks, Sending, Header, t
  <2> HIDE DEF p, r
  <2>7. TxAsks(u)
    BY <2>1, <2>2, <2>3, <2>5, <2>6, Lengths DEF TxAsks, Sending, Header, r
  <2>8. TxValid(u)
    BY <2>1, <2>2, <2>3, <2>5, Lengths DEF TxValid, Sending, Header, Answering, r
  <2>9. SymbolOf(t, p, expReg, q) = s
    BY <2>3, <2>5, Lengths DEF SymbolOf
  <2>10. t.stm \in Sending /\ u.stm \in Sending
    BY <1>4, <2>1, <2>2 DEF Sending, Header
  <2>11. /\ p = HeadLen - 2 /\ p # HeadLen - 5 /\ p # FrameLen - 1
         /\ p \in 0 .. FrameLen - 1 /\ 2 * PRMBLE_LEN <= p /\ p < HeadLen + DataLen
    BY <2>1, <2>3, <2>5, Lengths
  <2>12. Nibbled(t, p, u, r, expReg, dirReg, q, c)
    BY <2>1, <2>2, <2>3, <2>9, <2>10, <2>11 DEF Nibbled
  <2> QED
    BY <2>4, <2>7, <2>8, <2>12 DEF TxGood, p, r
<1>5. CASE t.stm = "DESCR_POS4"
  <2> DEFINE s == <<"exp", expReg, 1>>
  <2>1. /\ t.frame_num \in 1 .. 4 /\ t.read_cnt = 0
    BY <1>1, <1>5, Lengths DEF TxInv, TxGood, TxType, TxCounts, TxNumber, Header, Sending, t
  <2>2. /\ TxRecord(u) /\ u.stm = "READ_DATA" /\ u.cnt_mac = t.cnt_mac
        /\ u.outrd_cnt = t.outrd_cnt /\ u.read_cnt = t.read_cnt /\ u.frame_num = t.frame_num
        /\ u.delay_cnt = t.delay_cnt /\ u.rd_data /\ u.rd_exp = t.rd_exp
        /\ u.rd_direct = t.rd_direct /\ u.dv /\ u.out = s /\ u.sig_dir = t.sig_dir
        /\ u.crc = c /\ u.request_number = t.request_number /\ u.rd_data \in BOOLEAN
        /\ u.dv \in BOOLEAN
    BY <1>1, <1>5, <2>1 DEF DescrPos, Send, TxType, TxRecord
  <2> HIDE DEF t, u, c
  <2>3. p = HeadLen - 1 /\ r = p + 1
    BY <1>5, <2>1, <2>2, PhaseIs, Lengths
  <2>4. TxType(u) /\ TxCounts(u) /\ TxNumber(u)
    <3>1. TxType(u)
      BY <1>1, <2>1, <2>2, Lengths DEF TxType, Sending, Header
    <3>2. TxCounts(u)
      BY <1>1, <2>1, <2>2, Lengths DEF TxCounts, Sending, Header
    <3>3. TxNumber(u)
      BY <1>1, <2>1, <2>2 DEF TxNumber, Sending, Header
    <3> QED
      BY <3>1, <3>2, <3>3
  <2>5. /\ p \in 2 * PRMBLE_LEN .. HeadLen - 1
    BY <2>1, <2>3, Lengths
  <2>6. ~t.rd_exp /\ ~t.rd_direct
    BY <1>5, <2>1, <2>5, Lengths DEF TxInv, TxGood, TxAsks, Sending, Header, t
  <2> HIDE DEF p, r
  <2>7. TxAsks(u)
    BY <2>1, <2>2, <2>3, <2>5, <2>6, Lengths DEF TxAsks, Sending, Header, r
  <2>8. TxValid(u)
    BY <2>1, <2>2, <2>3, <2>5, Lengths DEF TxValid, Sending, Header, Answering, r
  <2>9. SymbolOf(t, p, expReg, q) = s
    BY <2>3, <2>5, Lengths DEF SymbolOf
  <2>10. t.stm \in Sending /\ u.stm \in Sending
    BY <1>5, <2>1, <2>2 DEF Sending, Header
  <2>11. /\ p # HeadLen - 5 /\ p # HeadLen - 2 /\ p # FrameLen - 1
         /\ p \in 0 .. FrameLen - 1 /\ 2 * PRMBLE_LEN <= p /\ p < HeadLen + DataLen
    BY <2>1, <2>3, <2>5, Lengths
  <2>12. Nibbled(t, p, u, r, expReg, dirReg, q, c)
    BY <2>1, <2>2, <2>3, <2>9, <2>10, <2>11 DEF Nibbled
  <2> QED
    BY <2>4, <2>7, <2>8, <2>12 DEF TxGood, p, r
<1> QED
  BY <1>2, <1>3, <1>4, <1>5
    DEF DescrPos

\* A nibble of the samples leaves, and the one after the next is asked for.
LEMMA ReadDataStep == ASSUME TxInv, ReadData PROVE TxInv' /\ SendsNibble
<1> DEFINE t == tx
           u == tx'
           p == PhaseOf(t)
           r == PhaseOf(u)
           c == Append(t.crc, u.out)
<1>1. TxType(t)
  BY DEF TxInv, TxGood
<1> SUFFICES TxGood(u) /\ Nibbled(t, p, u, r, expReg, dirReg, q, c)
  BY DEF TxInv, SendsNibble, Phase
<1>2. CASE t.stm = "READ_DATA" /\ t.read_cnt < DATAFRAME_LEN * 2 - 1
  <2> DEFINE s == q
  <2>1. /\ DataLen - 1 = DATAFRAME_LEN * 2 - 1 /\ t.frame_num \in 1 .. 4
        /\ t.read_cnt \in Nat /\ t.read_cnt < DataLen /\ DataLen = DATAFRAME_LEN * 2
        /\ t.read_cnt < DataLen - 1
    BY <1>1, <1>2, Lengths DEF TxInv, TxGood, TxType, TxCounts, TxNumber, Header, Sending, DataLen, t
  <2>b. t.dv /\ 2 * DATAFRAME_LEN = DATAFRAME_LEN * 2
    BY <1>1, <1>2, <2>1, PhaseIs, Lengths DEF TxInv, TxGood, TxValid, Sending, t
  <2>a. AsksOn(t.read_cnt) <=> t.read_cnt < DataLen - 2
    BY <2>1 DEF AsksOn
  <2>2. /\ TxRecord(u) /\ u.stm = "READ_DATA" /\ u.cnt_mac = t.cnt_mac
        /\ u.outrd_cnt = t.outrd_cnt /\ u.read_cnt = t.read_cnt + 1
        /\ u.frame_num = t.frame_num /\ u.delay_cnt = t.delay_cnt
        /\ (u.rd_data <=> t.read_cnt < DataLen - 2) /\ u.rd_exp = t.rd_exp
        /\ u.rd_direct = t.rd_direct /\ u.dv /\ u.out = s /\ u.sig_dir = t.sig_dir
        /\ u.crc = c /\ u.request_number = t.request_number /\ u.rd_data \in BOOLEAN
        /\ u.dv \in BOOLEAN
    <3>1. u = [t EXCEPT !.stm = @, !.read_cnt = @ + 1,
                        !.rd_data = AsksOn(t.read_cnt), !.out = q, !.crc = Append(@, q)]
      BY <1>2, <2>1 DEF ReadData
    <3>2. u.rd_data = AsksOn(t.read_cnt)
      BY <1>1, <3>1 DEF TxType, TxRecord
    <3>3. AsksOn(t.read_cnt) \in BOOLEAN
      BY <2>1 DEF AsksOn
    <3>4. /\ TxRecord(u) /\ u.stm = "READ_DATA" /\ u.cnt_mac = t.cnt_mac
          /\ u.outrd_cnt = t.outrd_cnt /\ u.read_cnt = t.read_cnt + 1
          /\ u.frame_num = t.frame_num /\ u.delay_cnt = t.delay_cnt /\ u.rd_exp = t.rd_exp
          /\ u.rd_direct = t.rd_direct /\ u.out = s /\ u.sig_dir = t.sig_dir /\ u.crc = c
          /\ u.request_number = t.request_number /\ u.dv = t.dv
      BY <1>1, <1>2, <2>1, <3>1 DEF TxType, TxRecord
    <3> QED
      BY <2>1, <2>a, <2>b, <3>2, <3>3, <3>4, Lengths
  <2> HIDE DEF t, u, c
  <2>3. p = HeadLen + t.read_cnt /\ r = p + 1
    BY <1>2, <2>1, <2>2, PhaseIs, Lengths
  <2>4. TxType(u) /\ TxCounts(u) /\ TxNumber(u)
    <3>1. TxType(u)
      BY <1>1, <2>1, <2>2, Lengths DEF TxType, Sending, Header
    <3>2. TxCounts(u)
      BY <1>1, <2>1, <2>2, Lengths DEF TxCounts, Sending, Header
    <3>3. TxNumber(u)
      BY <1>1, <2>1, <2>2 DEF TxNumber, Sending, Header
    <3> QED
      BY <3>1, <3>2, <3>3
  <2>5. /\ p \in HeadLen .. HeadLen + DataLen - 2
    BY <2>1, <2>3, Lengths
  <2>6. ~t.rd_exp /\ ~t.rd_direct
    BY <1>2, <2>1, <2>5, Lengths DEF TxInv, TxGood, TxAsks, Sending, Header, t
  <2> HIDE DEF p, r
  <2>7. TxAsks(u)
    BY <2>1, <2>2, <2>3, <2>5, <2>6, Lengths DEF TxAsks, Sending, Header, r
  <2>8. TxValid(u)
    BY <2>1, <2>2, <2>3, <2>5, Lengths DEF TxValid, Sending, Header, Answering, r
  <2>9. SymbolOf(t, p, expReg, q) = s
    BY <2>5, Lengths DEF SymbolOf
  <2>10. t.stm \in Sending /\ u.stm \in Sending
    BY <1>2, <2>1, <2>2 DEF Sending, Header
  <2>11. /\ p # HeadLen - 5 /\ p # HeadLen - 2 /\ p # FrameLen - 1
         /\ p \in 0 .. FrameLen - 1 /\ 2 * PRMBLE_LEN <= p /\ p < HeadLen + DataLen
    BY <2>1, <2>3, <2>5, Lengths
  <2>12. Nibbled(t, p, u, r, expReg, dirReg, q, c)
    BY <2>1, <2>2, <2>3, <2>9, <2>10, <2>11 DEF Nibbled
  <2> QED
    BY <2>4, <2>7, <2>8, <2>12 DEF TxGood, p, r
<1>3. CASE t.stm = "READ_DATA" /\ ~(t.read_cnt < DATAFRAME_LEN * 2 - 1)
  <2> DEFINE s == q
  <2>1. /\ DataLen - 1 = DATAFRAME_LEN * 2 - 1 /\ t.frame_num \in 1 .. 4
        /\ t.read_cnt \in Nat /\ t.read_cnt < DataLen /\ DataLen = DATAFRAME_LEN * 2
        /\ t.read_cnt = DataLen - 1
    BY <1>1, <1>3, Lengths DEF TxInv, TxGood, TxType, TxCounts, TxNumber, Header, Sending, DataLen, t
  <2>b. t.dv /\ 2 * DATAFRAME_LEN = DATAFRAME_LEN * 2
    BY <1>1, <1>3, <2>1, PhaseIs, Lengths DEF TxInv, TxGood, TxValid, Sending, t
  <2>a. AsksOn(t.read_cnt) <=> t.read_cnt < DataLen - 2
    BY <2>1 DEF AsksOn
  <2>2. /\ TxRecord(u) /\ u.stm = "PUSHCRC8" /\ u.cnt_mac = t.cnt_mac
        /\ u.outrd_cnt = t.outrd_cnt /\ u.read_cnt = t.read_cnt + 1
        /\ u.frame_num = t.frame_num /\ u.delay_cnt = t.delay_cnt /\ ~u.rd_data
        /\ u.rd_exp = t.rd_exp /\ u.rd_direct = t.rd_direct /\ u.dv /\ u.out = s
        /\ u.sig_dir = t.sig_dir /\ u.crc = c /\ u.request_number = t.request_number
        /\ u.rd_data \in BOOLEAN /\ u.dv \in BOOLEAN
    <3>1. u = [t EXCEPT !.stm = "PUSHCRC8", !.read_cnt = @ + 1,
                        !.rd_data = AsksOn(t.read_cnt), !.out = q, !.crc = Append(@, q)]
      BY <1>3, <2>1 DEF ReadData
    <3>2. u.rd_data = AsksOn(t.read_cnt)
      BY <1>1, <3>1 DEF TxType, TxRecord
    <3>3. AsksOn(t.read_cnt) \in BOOLEAN
      BY <2>1 DEF AsksOn
    <3>4. /\ TxRecord(u) /\ u.stm = "PUSHCRC8" /\ u.cnt_mac = t.cnt_mac
          /\ u.outrd_cnt = t.outrd_cnt /\ u.read_cnt = t.read_cnt + 1
          /\ u.frame_num = t.frame_num /\ u.delay_cnt = t.delay_cnt /\ u.rd_exp = t.rd_exp
          /\ u.rd_direct = t.rd_direct /\ u.out = s /\ u.sig_dir = t.sig_dir /\ u.crc = c
          /\ u.request_number = t.request_number /\ u.dv = t.dv
      BY <1>1, <1>3, <2>1, <3>1 DEF TxType, TxRecord
    <3> QED
      BY <2>1, <2>a, <2>b, <3>2, <3>3, <3>4, Lengths
  <2> HIDE DEF t, u, c
  <2>3. p = HeadLen + t.read_cnt /\ r = p + 1
    BY <1>3, <2>1, <2>2, PhaseIs, Lengths
  <2>4. TxType(u) /\ TxCounts(u) /\ TxNumber(u)
    <3>1. TxType(u)
      BY <1>1, <2>1, <2>2, Lengths DEF TxType, Sending, Header, CrcStates
    <3>2. TxCounts(u)
      BY <1>1, <2>1, <2>2, Lengths DEF TxCounts, Sending, Header, CrcStates
    <3>3. TxNumber(u)
      BY <1>1, <2>1, <2>2 DEF TxNumber, Sending, Header, CrcStates
    <3> QED
      BY <3>1, <3>2, <3>3
  <2>5. /\ p = HeadLen + DataLen - 1
    BY <2>1, <2>3, Lengths
  <2>6. ~t.rd_exp /\ ~t.rd_direct
    BY <1>3, <2>1, <2>5, Lengths DEF TxInv, TxGood, TxAsks, Sending, Header, t
  <2> HIDE DEF p, r
  <2>7. TxAsks(u)
    BY <2>1, <2>2, <2>3, <2>5, <2>6, Lengths DEF TxAsks, Sending, Header, CrcStates, r
  <2>8. TxValid(u)
    BY <2>1, <2>2, <2>3, <2>5, Lengths DEF TxValid, Sending, Header, CrcStates, Answering, r
  <2>9. SymbolOf(t, p, expReg, q) = s
    BY <2>5, Lengths DEF SymbolOf
  <2>10. t.stm \in Sending /\ u.stm \in Sending
    BY <1>3, <2>1, <2>2 DEF Sending, Header, CrcStates
  <2>11. /\ p # HeadLen - 5 /\ p # HeadLen - 2 /\ p # FrameLen - 1
         /\ p \in 0 .. FrameLen - 1 /\ 2 * PRMBLE_LEN <= p /\ p < HeadLen + DataLen
    BY <2>1, <2>3, <2>5, Lengths
  <2>12. Nibbled(t, p, u, r, expReg, dirReg, q, c)
    BY <2>1, <2>2, <2>3, <2>9, <2>10, <2>11 DEF Nibbled
  <2> QED
    BY <2>4, <2>7, <2>8, <2>12 DEF TxGood, p, r
<1> QED
  BY <1>2, <1>3
    DEF ReadData

\* The states of the checksum: state i precedes the end of the frame by i nibbles.
LEMMA CrcIs ==
  \A i \in 1 .. 8 :
    /\ Crc[i] \in CrcStates /\ Crc[i] \in Sending /\ Crc[i] \in Sending \ Header
    /\ Crc[i] \notin Header \cup Answering \cup Resting
                       \cup {"WAITING_REQUEST", "DESCR_POS4", "READ_DATA"}
    /\ \A t : t.stm = Crc[i] => PhaseOf(t) = FrameLen - i
  <1>1. \A i \in 1 .. 8 :
          /\ Crc[i] \in CrcStates /\ Crc[i] \in Sending /\ Crc[i] \in Sending \ Header
          /\ Crc[i] \notin Header \cup Answering \cup Resting
                            \cup {"WAITING_REQUEST", "DESCR_POS4", "READ_DATA"}
    BY DEF Crc, CrcStates, Sending, Header, Answering, Resting
  <1>2. ASSUME NEW i \in 1 .. 8, NEW t, t.stm = Crc[i] PROVE PhaseOf(t) = FrameLen - i
    <2>1. HeadLen \in Nat /\ DataLen \in Nat /\ FrameLen = HeadLen + DataLen + 8
      BY Lengths
    <2>2. i = 1 \/ i = 2 \/ i = 3 \/ i = 4 \/ i = 5 \/ i = 6 \/ i = 7 \/ i = 8
      OBVIOUS
    <2>3. /\ Crc[1] = "PUSHCRC1" /\ Crc[2] = "PUSHCRC2" /\ Crc[3] = "PUSHCRC3"
          /\ Crc[4] = "PUSHCRC4" /\ Crc[5] = "PUSHCRC5" /\ Crc[6] = "PUSHCRC6"
          /\ Crc[7] = "PUSHCRC7" /\ Crc[8] = "PUSHCRC8"
      BY DEF Crc
    <2> QED
      BY <1>2, <2>1, <2>2, <2>3, PhaseIs
  <1> QED
    BY <1>1, <1>2

\* A nibble of the checksum leaves; the last one ends the frame.
LEMMA PushCrcStep == ASSUME TxInv, PushCrc PROVE TxInv' /\ SendsNibble
<1> DEFINE t == tx
           u == tx'
           p == PhaseOf(t)
           r == PhaseOf(u)
           c == Append(t.crc, u.out)
<1>1. TxType(t)
  BY DEF TxInv, TxGood
<1> SUFFICES TxGood(u) /\ Nibbled(t, p, u, r, expReg, dirReg, q, c)
  BY DEF TxInv, SendsNibble, Phase
<1>i. PICK i \in 1 .. 8 :
        /\ tx.stm = Crc[i]
        /\ tx' = [tx EXCEPT !.stm = IF i = 1 THEN AfterFrame ELSE Crc[i - 1],
                            !.delay_cnt = IF i = 1 THEN DelayMax ELSE @,
                            !.rd_data = IF i = 8 THEN FALSE ELSE @,
                            !.dv = TRUE, !.out = <<"crc", i, tx.crc>>]
  BY DEF PushCrc
<1> DEFINE s == <<"crc", i, t.crc>>
<1>2. /\ t.stm = Crc[i] /\ t.stm \in Sending \ Header /\ t.frame_num \in 1 .. 4
      /\ p = FrameLen - i /\ p \in HeadLen + DataLen .. FrameLen - 1
  <2>1. t.stm = Crc[i] /\ t.stm \in Sending \ Header /\ p = FrameLen - i
    BY <1>i, CrcIs
  <2>2. t.frame_num \in 1 .. 4
    BY <1>i, <2>1 DEF TxInv, TxGood, TxNumber, t
  <2> QED
    BY <2>1, <2>2, Lengths
<1>3. ~t.rd_data /\ ~t.rd_exp /\ ~t.rd_direct
  BY <1>1, <1>2, <1>i, CrcIs, Lengths DEF TxInv, TxGood, TxAsks, t, Header
<1>4. /\ TxRecord(u) /\ u.stm = (IF i = 1 THEN AfterFrame ELSE Crc[i - 1])
      /\ u.cnt_mac = t.cnt_mac /\ u.outrd_cnt = t.outrd_cnt /\ u.read_cnt = t.read_cnt
      /\ u.frame_num = t.frame_num /\ u.delay_cnt = (IF i = 1 THEN DelayMax ELSE t.delay_cnt)
      /\ ~u.rd_data /\ u.rd_exp = t.rd_exp /\ u.rd_direct = t.rd_direct
      /\ u.dv /\ u.out = s /\ u.sig_dir = t.sig_dir /\ u.crc = t.crc
      /\ u.request_number = t.request_number /\ u.rd_data \in BOOLEAN /\ u.dv \in BOOLEAN
  BY <1>i, <1>1, <1>3 DEF TxType, TxRecord
<1>5. AfterFrame = IF t.frame_num = 4 THEN "STARTING" ELSE "DELAYING"
  BY DEF AfterFrame, Frames
<1> HIDE DEF t, u, c
<1>6. CASE i = 1
  <2>1. /\ u.stm = (IF t.frame_num = 4 THEN "STARTING" ELSE "DELAYING") /\ u.delay_cnt = DelayMax
        /\ u.stm \in Resting /\ u.stm # "WAITING"
    BY <1>4, <1>5, <1>6 DEF Resting
  <2>2. TxType(u) /\ TxCounts(u) /\ TxNumber(u)
    <3>1. TxType(u)
      BY <1>1, <1>4, <2>1, Lengths DEF TxType
    <3>2. TxCounts(u)
      BY <2>1, Lengths DEF TxCounts, Header
    <3>3. TxNumber(u)
      BY <1>2, <1>4, <2>1 DEF TxNumber, Header, Sending, CrcStates
    <3> QED
      BY <3>1, <3>2, <3>3
  <2>3. TxAsks(u)
    BY <1>3, <1>4, <2>1 DEF TxAsks, Header, Sending, CrcStates
  <2>4. TxValid(u)
    BY <1>2, <1>4, <1>6, <2>1 DEF TxValid, Header, Sending, CrcStates, Answering
  <2>5. /\ p = FrameLen - 1 /\ p \in 0 .. FrameLen - 1 /\ p # HeadLen - 2 /\ p # HeadLen - 5
        /\ ~(p < HeadLen + DataLen) /\ ~(p < FrameLen - 1)
    BY <1>2, <1>6, Lengths
  <2> HIDE DEF p, r
  <2>6. SymbolOf(t, p, expReg, q) = s
    BY <1>2, <1>6, <2>5, Lengths DEF SymbolOf
  <2>7. Nibbled(t, p, u, r, expReg, dirReg, q, c)
    BY <1>2, <1>4, <2>1, <2>5, <2>6 DEF Nibbled
  <2> QED
    BY <2>2, <2>3, <2>4, <2>7 DEF TxGood
<1>7. CASE i # 1
  <2>1. /\ i - 1 \in 1 .. 8 /\ u.stm = Crc[i - 1] /\ u.delay_cnt = t.delay_cnt /\ u.stm \in CrcStates
        /\ u.stm \in Sending /\ u.stm \notin Header
        /\ u.stm \notin Answering \cup Resting \cup {"WAITING_REQUEST", "DESCR_POS4", "READ_DATA"}
    BY <1>4, <1>7, CrcIs
  <2>2. r = p + 1
    <3>1. r = FrameLen - (i - 1)
      BY <2>1, CrcIs
    <3> QED
      BY <1>2, <3>1, Lengths
  <2>3. TxType(u) /\ TxCounts(u) /\ TxNumber(u)
    <3>1. TxType(u)
      BY <1>1, <1>4, <2>1 DEF TxType
    <3>2. TxCounts(u)
      BY <2>1 DEF TxCounts, Header, Answering, Resting
    <3>3. TxNumber(u)
      BY <1>2, <1>4, <2>1 DEF TxNumber, Resting
    <3> QED
      BY <3>1, <3>2, <3>3
  <2> HIDE DEF r
  <2>4. /\ p \in 0 .. FrameLen - 2 /\ p # HeadLen - 2 /\ p # HeadLen - 5
        /\ ~(p < HeadLen + DataLen) /\ p < FrameLen - 1 /\ p # FrameLen - 1 /\ p \in 0 .. FrameLen - 1
        /\ r # 0 /\ r # HeadLen - 4 /\ ~(r <= HeadLen + DataLen - 2)
    BY <1>2, <1>7, <2>2, Lengths
  <2>5. TxAsks(u)
    BY <1>3, <1>4, <2>1, <2>4 DEF TxAsks, Header, r
  <2>6. TxValid(u)
    BY <1>4, <2>1, <2>4 DEF TxValid, Resting, r
  <2> HIDE DEF p
  <2>7. SymbolOf(t, p, expReg, q) = s
    BY <1>2, <2>4, Lengths DEF SymbolOf
  <2>8. Nibbled(t, p, u, r, expReg, dirReg, q, c)
    BY <1>2, <1>4, <2>1, <2>2, <2>4, <2>7 DEF Nibbled
  <2> QED
    BY <2>3, <2>5, <2>6, <2>8 DEF TxGood
<1> QED
  BY <1>6, <1>7

\* The symbol of the answer to a status request that leaves next.
AnswerOf(t, a) ==
  IF a < 2 * PRMBLE_LEN THEN <<"pre", a \div 2, a % 2>>
  ELSE IF a < 2 * PRMBLE_LEN + 2 * RADAR_STATUS_LEN
  THEN <<"state", (a - 2 * PRMBLE_LEN) \div 2, (a - 2 * PRMBLE_LEN) % 2>>
  ELSE IF a < 2 * PRMBLE_LEN + 2 * RADAR_STATUS_LEN + 2
  THEN <<"no", t.request_number, a - (2 * PRMBLE_LEN + 2 * RADAR_STATUS_LEN)>>
  ELSE <<"zero">>

\* A nibble of the answer leaves.
Told(t, a, u, b) ==
  /\ t.stm \in Answering /\ u.dv /\ u.request_number = t.request_number
  /\ a \in 0 .. AnswerLen - 1
  /\ IF a < AnswerLen - 1 THEN u.stm \in Answering /\ b = a + 1 ELSE u.stm = "WAITING_REQUEST"
  /\ u.out = AnswerOf(t, a)

TellsNibble == Told(tx, Answered, tx', Answered')

\* The states of an answer are not those of a data frame.
LEMMA AnsweringIs ==
  \A t : t.stm \in Answering =>
    t.stm \notin Sending /\ t.stm \notin Header /\ t.stm \notin Resting /\ t.stm # "WAITING_REQUEST"
    /\ t.stm # "STARTING" /\ t.stm # "DELAYING" /\ t.stm # "WAITING"
  BY DEF Answering, Sending, Header, CrcStates, Resting

\* A nibble of the preamble of the answer leaves.
LEMMA RadarPreambleStep == ASSUME TxInv, RadarPreamble PROVE TxInv' /\ TellsNibble
<1> DEFINE t == tx
           u == tx'
           p == AnsweredOf(t)
           r == AnsweredOf(u)
<1>1. TxType(t)
  BY DEF TxInv, TxGood
<1> SUFFICES TxGood(u) /\ Told(t, p, u, r)
  BY DEF TxInv, TellsNibble, Answered
<1>2. CASE t.stm = "SEND_RADAR_PREAMBLE0"
  <2> DEFINE s == <<"pre", t.cnt_mac, 0>>
  <2>1. /\ t.outrd_cnt = 0 /\ t.cnt_mac \in Nat /\ t.cnt_mac < PRMBLE_LEN
    BY <1>1, <1>2, Lengths DEF TxInv, TxGood, TxType, TxCounts, Answering, t
  <2>2. /\ TxRecord(u) /\ u.stm = "SEND_RADAR_PREAMBLE1" /\ u.cnt_mac = t.cnt_mac
        /\ u.outrd_cnt = t.outrd_cnt /\ u.read_cnt = t.read_cnt /\ u.frame_num = t.frame_num
        /\ u.delay_cnt = t.delay_cnt /\ u.rd_data = t.rd_data /\ u.rd_exp = t.rd_exp
        /\ u.rd_direct = t.rd_direct /\ u.dv /\ u.out = s /\ u.sig_dir = t.sig_dir
        /\ u.crc = t.crc /\ u.request_number = t.request_number /\ u.dv \in BOOLEAN
    BY <1>1, <1>2, <2>1 DEF RadarPreamble, Byte, Half, TxType, TxRecord
  <2> HIDE DEF t, u
  <2>3. p = 2 * t.cnt_mac /\ r = p + 1
    BY <1>2, <2>1, <2>2, AnsweredIs, Lengths
  <2>4. /\ p \in 0 .. 2 * PRMBLE_LEN - 1 /\ p = 2 * t.cnt_mac /\ p \div 2 = t.cnt_mac
        /\ p % 2 = 0
    <3>1. /\ p \in 0 .. 2 * PRMBLE_LEN - 1 /\ p = 2 * t.cnt_mac
      BY <2>1, <2>3, Lengths
    <3> HIDE DEF p
    <3> QED
      BY <2>1, <3>1, Halves
  <2>5. t.stm \in Answering /\ u.stm \in Answering
    BY <1>2, <2>2 DEF Answering
  <2>6. ~t.rd_data /\ ~t.rd_exp /\ ~t.rd_direct
    BY <1>1, <1>2, <2>5, AnsweringIs DEF TxInv, TxGood, TxAsks, t
  <2>7. TxType(u) /\ TxCounts(u) /\ TxNumber(u)
    <3>1. TxType(u)
      BY <1>1, <2>1, <2>2, <2>5, Lengths DEF TxType, Answering
    <3>2. TxCounts(u)
      BY <2>1, <2>2, Lengths DEF TxCounts, Header
    <3>3. TxNumber(u)
      BY <2>2, <2>5, AnsweringIs DEF TxNumber
    <3> QED
      BY <3>1, <3>2, <3>3
  <2> HIDE DEF p, r
  <2>8. TxAsks(u)
    BY <2>2, <2>5, <2>6, AnsweringIs DEF TxAsks
  <2>9. TxValid(u)
    BY <2>2, <2>3, <2>4, <2>5, AnsweringIs, Lengths DEF TxValid, Resting, r
  <2>10. AnswerOf(t, p) = s
    BY <2>3, <2>4, Lengths DEF AnswerOf
  <2>11. p \in 0 .. AnswerLen - 1 /\ p < AnswerLen - 1
    BY <2>1, <2>3, <2>4, Lengths
  <2>12. Told(t, p, u, r)
    BY <2>2, <2>3, <2>5, <2>10, <2>11 DEF Told
  <2> QED
    BY <2>7, <2>8, <2>9, <2>12 DEF TxGood, p, r
<1>3. CASE t.stm = "SEND_RADAR_PREAMBLE1" /\ t.cnt_mac < PRMBLE_LEN - 1
  <2> DEFINE s == <<"pre", t.cnt_mac, 1>>
  <2>1. /\ t.outrd_cnt = 0 /\ t.cnt_mac \in Nat /\ t.cnt_mac < PRMBLE_LEN
        /\ t.cnt_mac + 1 < PRMBLE_LEN
    BY <1>1, <1>3, Lengths DEF TxInv, TxGood, TxType, TxCounts, Answering, t
  <2>2. /\ TxRecord(u) /\ u.stm = "SEND_RADAR_PREAMBLE0" /\ u.cnt_mac = t.cnt_mac + 1
        /\ u.outrd_cnt = t.outrd_cnt /\ u.read_cnt = t.read_cnt /\ u.frame_num = t.frame_num
        /\ u.delay_cnt = t.delay_cnt /\ u.rd_data = t.rd_data /\ u.rd_exp = t.rd_exp
        /\ u.rd_direct = t.rd_direct /\ u.dv /\ u.out = s /\ u.sig_dir = t.sig_dir
        /\ u.crc = t.crc /\ u.request_number = t.request_number /\ u.dv \in BOOLEAN
    BY <1>1, <1>3, <2>1 DEF RadarPreamble, Byte, Half, TxType, TxRecord
  <2> HIDE DEF t, u
  <2>3. p = 2 * t.cnt_mac + 1 /\ r = p + 1
    BY <1>3, <2>1, <2>2, AnsweredIs, Lengths
  <2>4. /\ p \in 0 .. 2 * PRMBLE_LEN - 1 /\ p = 2 * t.cnt_mac + 1 /\ p \div 2 = t.cnt_mac
        /\ p % 2 = 1
    <3>1. /\ p \in 0 .. 2 * PRMBLE_LEN - 1 /\ p = 2 * t.cnt_mac + 1
      BY <2>1, <2>3, Lengths
    <3> HIDE DEF p
    <3> QED
      BY <2>1, <3>1, Halves
  <2>5. t.stm \in Answering /\ u.stm \in Answering
    BY <1>3, <2>2 DEF Answering
  <2>6. ~t.rd_data /\ ~t.rd_exp /\ ~t.rd_direct
    BY <1>1, <1>3, <2>5, AnsweringIs DEF TxInv, TxGood, TxAsks, t
  <2>7. TxType(u) /\ TxCounts(u) /\ TxNumber(u)
    <3>1. TxType(u)
      BY <1>1, <2>1, <2>2, <2>5, Lengths DEF TxType, Answering
    <3>2. TxCounts(u)
      BY <2>1, <2>2, Lengths DEF TxCounts, Header
    <3>3. TxNumber(u)
      BY <2>2, <2>5, AnsweringIs DEF TxNumber
    <3> QED
      BY <3>1, <3>2, <3>3
  <2> HIDE DEF p, r
  <2>8. TxAsks(u)
    BY <2>2, <2>5, <2>6, AnsweringIs DEF TxAsks
  <2>9. TxValid(u)
    BY <2>2, <2>3, <2>4, <2>5, AnsweringIs, Lengths DEF TxValid, Resting, r
  <2>10. AnswerOf(t, p) = s
    BY <2>3, <2>4, Lengths DEF AnswerOf
  <2>11. p \in 0 .. AnswerLen - 1 /\ p < AnswerLen - 1
    BY <2>1, <2>3, <2>4, Lengths
  <2>12. Told(t, p, u, r)
    BY <2>2, <2>3, <2>5, <2>10, <2>11 DEF Told
  <2> QED
    BY <2>7, <2>8, <2>9, <2>12 DEF TxGood, p, r
<1>4. CASE t.stm = "SEND_RADAR_PREAMBLE1" /\ ~(t.cnt_mac < PRMBLE_LEN - 1)
  <2> DEFINE s == <<"pre", t.cnt_mac, 1>>
  <2>1. /\ t.outrd_cnt = 0 /\ t.cnt_mac \in Nat /\ t.cnt_mac < PRMBLE_LEN
        /\ t.cnt_mac = PRMBLE_LEN - 1
    BY <1>1, <1>4, Lengths DEF TxInv, TxGood, TxType, TxCounts, Answering, t
  <2>2. /\ TxRecord(u) /\ u.stm = "SEND_RADAR_STATE0" /\ u.cnt_mac = 0
        /\ u.outrd_cnt = t.outrd_cnt /\ u.read_cnt = t.read_cnt /\ u.frame_num = t.frame_num
        /\ u.delay_cnt = t.delay_cnt /\ u.rd_data = t.rd_data /\ u.rd_exp = t.rd_exp
        /\ u.rd_direct = t.rd_direct /\ u.dv /\ u.out = s /\ u.sig_dir = t.sig_dir
        /\ u.crc = t.crc /\ u.request_number = t.request_number /\ u.dv \in BOOLEAN
    BY <1>1, <1>4, <2>1 DEF RadarPreamble, Byte, Half, TxType, TxRecord
  <2> HIDE DEF t, u
  <2>3. p = 2 * t.cnt_mac + 1 /\ r = p + 1
    BY <1>4, <2>1, <2>2, AnsweredIs, Lengths
  <2>4. /\ p \in 0 .. 2 * PRMBLE_LEN - 1 /\ p = 2 * t.cnt_mac + 1 /\ p \div 2 = t.cnt_mac
        /\ p % 2 = 1
    <3>1. /\ p \in 0 .. 2 * PRMBLE_LEN - 1 /\ p = 2 * t.cnt_mac + 1
      BY <2>1, <2>3, Lengths
    <3> HIDE DEF p
    <3> QED
      BY <2>1, <3>1, Halves
  <2>5. t.stm \in Answering /\ u.stm \in Answering
    BY <1>4, <2>2 DEF Answering
  <2>6. ~t.rd_data /\ ~t.rd_exp /\ ~t.rd_direct
    BY <1>1, <1>4, <2>5, AnsweringIs DEF TxInv, TxGood, TxAsks, t
  <2>7. TxType(u) /\ TxCounts(u) /\ TxNumber(u)
    <3>1. TxType(u)
      BY <1>1, <2>1, <2>2, <2>5, Lengths DEF TxType, Answering
    <3>2. TxCounts(u)
      BY <2>1, <2>2, Lengths DEF TxCounts, Header
    <3>3. TxNumber(u)
      BY <2>2, <2>5, AnsweringIs DEF TxNumber
    <3> QED
      BY <3>1, <3>2, <3>3
  <2> HIDE DEF p, r
  <2>8. TxAsks(u)
    BY <2>2, <2>5, <2>6, AnsweringIs DEF TxAsks
  <2>9. TxValid(u)
    BY <2>2, <2>3, <2>4, <2>5, AnsweringIs, Lengths DEF TxValid, Resting, r
  <2>10. AnswerOf(t, p) = s
    BY <2>3, <2>4, Lengths DEF AnswerOf
  <2>11. p \in 0 .. AnswerLen - 1 /\ p < AnswerLen - 1
    BY <2>1, <2>3, <2>4, Lengths
  <2>12. Told(t, p, u, r)
    BY <2>2, <2>3, <2>5, <2>10, <2>11 DEF Told
  <2> QED
    BY <2>7, <2>8, <2>9, <2>12 DEF TxGood, p, r
<1> QED
  BY <1>2, <1>3, <1>4 DEF RadarPreamble

\* A nibble of the status leaves.
LEMMA RadarStateStep == ASSUME TxInv, RadarState PROVE TxInv' /\ TellsNibble
<1> DEFINE t == tx
           u == tx'
           p == AnsweredOf(t)
           r == AnsweredOf(u)
<1>1. TxType(t)
  BY DEF TxInv, TxGood
<1> SUFFICES TxGood(u) /\ Told(t, p, u, r)
  BY DEF TxInv, TellsNibble, Answered
<1>2. CASE t.stm = "SEND_RADAR_STATE0"
  <2> DEFINE s == <<"state", t.outrd_cnt, 0>>
  <2>1. /\ t.outrd_cnt \in Nat /\ t.outrd_cnt < RADAR_STATUS_LEN
    BY <1>1, <1>2, Lengths DEF TxInv, TxGood, TxType, TxCounts, Answering, t
  <2>2. /\ TxRecord(u) /\ u.stm = "SEND_RADAR_STATE1" /\ u.cnt_mac = t.cnt_mac
        /\ u.outrd_cnt = t.outrd_cnt /\ u.read_cnt = t.read_cnt /\ u.frame_num = t.frame_num
        /\ u.delay_cnt = t.delay_cnt /\ u.rd_data = t.rd_data /\ u.rd_exp = t.rd_exp
        /\ u.rd_direct = t.rd_direct /\ u.dv /\ u.out = s /\ u.sig_dir = t.sig_dir
        /\ u.crc = t.crc /\ u.request_number = t.request_number /\ u.dv \in BOOLEAN
    BY <1>1, <1>2, <2>1 DEF RadarState, Byte, Half, TxType, TxRecord
  <2> HIDE DEF t, u
  <2>3. p = 2 * PRMBLE_LEN + 2 * t.outrd_cnt /\ r = p + 1
    BY <1>2, <2>1, <2>2, AnsweredIs, Lengths
  <2>4. /\ p \in 2 * PRMBLE_LEN .. 2 * PRMBLE_LEN + 2 * RADAR_STATUS_LEN - 1
        /\ p - 2 * PRMBLE_LEN = 2 * t.outrd_cnt /\ (p - 2 * PRMBLE_LEN) \div 2 = t.outrd_cnt
        /\ (p - 2 * PRMBLE_LEN) % 2 = 0
    <3>1. /\ p \in 2 * PRMBLE_LEN .. 2 * PRMBLE_LEN + 2 * RADAR_STATUS_LEN - 1
          /\ p - 2 * PRMBLE_LEN = 2 * t.outrd_cnt
      BY <2>1, <2>3, Lengths
    <3> HIDE DEF p
    <3> QED
      BY <2>1, <3>1, Halves
  <2>5. t.stm \in Answering /\ u.stm \in Answering
    BY <1>2, <2>2 DEF Answering
  <2>6. ~t.rd_data /\ ~t.rd_exp /\ ~t.rd_direct
    BY <1>1, <1>2, <2>5, AnsweringIs DEF TxInv, TxGood, TxAsks, t
  <2>7. TxType(u) /\ TxCounts(u) /\ TxNumber(u)
    <3>1. TxType(u)
      BY <1>1, <2>1, <2>2, <2>5, Lengths DEF TxType, Answering
    <3>2. TxCounts(u)
      BY <2>1, <2>2, Lengths DEF TxCounts, Header
    <3>3. TxNumber(u)
      BY <2>2, <2>5, AnsweringIs DEF TxNumber
    <3> QED
      BY <3>1, <3>2, <3>3
  <2> HIDE DEF p, r
  <2>8. TxAsks(u)
    BY <2>2, <2>5, <2>6, AnsweringIs DEF TxAsks
  <2>9. TxValid(u)
    BY <2>2, <2>3, <2>4, <2>5, AnsweringIs, Lengths DEF TxValid, Resting, r
  <2>10. AnswerOf(t, p) = s
    BY <2>3, <2>4, Lengths DEF AnswerOf
  <2>11. p \in 0 .. AnswerLen - 1 /\ p < AnswerLen - 1
    BY <2>1, <2>3, <2>4, Lengths
  <2>12. Told(t, p, u, r)
    BY <2>2, <2>3, <2>5, <2>10, <2>11 DEF Told
  <2> QED
    BY <2>7, <2>8, <2>9, <2>12 DEF TxGood, p, r
<1>3. CASE t.stm = "SEND_RADAR_STATE1" /\ t.outrd_cnt < RADAR_STATUS_LEN - 1
  <2> DEFINE s == <<"state", t.outrd_cnt, 1>>
  <2>1. /\ t.outrd_cnt \in Nat /\ t.outrd_cnt < RADAR_STATUS_LEN
        /\ t.outrd_cnt + 1 < RADAR_STATUS_LEN
    BY <1>1, <1>3, Lengths DEF TxInv, TxGood, TxType, TxCounts, Answering, t
  <2>2. /\ TxRecord(u) /\ u.stm = "SEND_RADAR_STATE0" /\ u.cnt_mac = t.cnt_mac
        /\ u.outrd_cnt = t.outrd_cnt + 1 /\ u.read_cnt = t.read_cnt
        /\ u.frame_num = t.frame_num /\ u.delay_cnt = t.delay_cnt /\ u.rd_data = t.rd_data
        /\ u.rd_exp = t.rd_exp /\ u.rd_direct = t.rd_direct /\ u.dv /\ u.out = s
        /\ u.sig_dir = t.sig_dir /\ u.crc = t.crc /\ u.request_number = t.request_number
        /\ u.dv \in BOOLEAN
    BY <1>1, <1>3, <2>1 DEF RadarState, Byte, Half, TxType, TxRecord
  <2> HIDE DEF t, u
  <2>3. p = 2 * PRMBLE_LEN + 2 * t.outrd_cnt + 1 /\ r = p + 1
    BY <1>3, <2>1, <2>2, AnsweredIs, Lengths
  <2>4. /\ p \in 2 * PRMBLE_LEN .. 2 * PRMBLE_LEN + 2 * RADAR_STATUS_LEN - 1
        /\ p - 2 * PRMBLE_LEN = 2 * t.outrd_cnt + 1
        /\ (p - 2 * PRMBLE_LEN) \div 2 = t.outrd_cnt /\ (p - 2 * PRMBLE_LEN) % 2 = 1
    <3>1. /\ p \in 2 * PRMBLE_LEN .. 2 * PRMBLE_LEN + 2 * RADAR_STATUS_LEN - 1
          /\ p - 2 * PRMBLE_LEN = 2 * t.outrd_cnt + 1
      BY <2>1, <2>3, Lengths
    <3> HIDE DEF p
    <3> QED
      BY <2>1, <3>1, Halves
  <2>5. t.stm \in Answering /\ u.stm \in Answering
    BY <1>3, <2>2 DEF Answering
  <2>6. ~t.rd_data /\ ~t.rd_exp /\ ~t.rd_direct
    BY <1>1, <1>3, <2>5, AnsweringIs DEF TxInv, TxGood, TxAsks, t
  <2>7. TxType(u) /\ TxCounts(u) /\ TxNumber(u)
    <3>1. TxType(u)
      BY <1>1, <2>1, <2>2, <2>5, Lengths DEF TxType, Answering
    <3>2. TxCounts(u)
      BY <2>1, <2>2, Lengths DEF TxCounts, Header
    <3>3. TxNumber(u)
      BY <2>2, <2>5, AnsweringIs DEF TxNumber
    <3> QED
      BY <3>1, <3>2, <3>3
  <2> HIDE DEF p, r
  <2>8. TxAsks(u)
    BY <2>2, <2>5, <2>6, AnsweringIs DEF TxAsks
  <2>9. TxValid(u)
    BY <2>2, <2>3, <2>4, <2>5, AnsweringIs, Lengths DEF TxValid, Resting, r
  <2>10. AnswerOf(t, p) = s
    BY <2>3, <2>4, Lengths DEF AnswerOf
  <2>11. p \in 0 .. AnswerLen - 1 /\ p < AnswerLen - 1
    BY <2>1, <2>3, <2>4, Lengths
  <2>12. Told(t, p, u, r)
    BY <2>2, <2>3, <2>5, <2>10, <2>11 DEF Told
  <2> QED
    BY <2>7, <2>8, <2>9, <2>12 DEF TxGood, p, r
<1>4. CASE t.stm = "SEND_RADAR_STATE1" /\ ~(t.outrd_cnt < RADAR_STATUS_LEN - 1)
  <2> DEFINE s == <<"state", t.outrd_cnt, 1>>
  <2>1. /\ t.outrd_cnt \in Nat /\ t.outrd_cnt < RADAR_STATUS_LEN
        /\ t.outrd_cnt = RADAR_STATUS_LEN - 1
    BY <1>1, <1>4, Lengths DEF TxInv, TxGood, TxType, TxCounts, Answering, t
  <2>2. /\ TxRecord(u) /\ u.stm = "SEND_RADAR_STATE_NUM0" /\ u.cnt_mac = t.cnt_mac
        /\ u.outrd_cnt = 0 /\ u.read_cnt = t.read_cnt /\ u.frame_num = t.frame_num
        /\ u.delay_cnt = t.delay_cnt /\ u.rd_data = t.rd_data /\ u.rd_exp = t.rd_exp
        /\ u.rd_direct = t.rd_direct /\ u.dv /\ u.out = s /\ u.sig_dir = t.sig_dir
        /\ u.crc = t.crc /\ u.request_number = t.request_number /\ u.dv \in BOOLEAN
    BY <1>1, <1>4, <2>1 DEF RadarState, Byte, Half, TxType, TxRecord
  <2> HIDE DEF t, u
  <2>3. p = 2 * PRMBLE_LEN + 2 * t.outrd_cnt + 1 /\ r = p + 1
    BY <1>4, <2>1, <2>2, AnsweredIs, Lengths
  <2>4. /\ p \in 2 * PRMBLE_LEN .. 2 * PRMBLE_LEN + 2 * RADAR_STATUS_LEN - 1
        /\ p - 2 * PRMBLE_LEN = 2 * t.outrd_cnt + 1
        /\ (p - 2 * PRMBLE_LEN) \div 2 = t.outrd_cnt /\ (p - 2 * PRMBLE_LEN) % 2 = 1
    <3>1. /\ p \in 2 * PRMBLE_LEN .. 2 * PRMBLE_LEN + 2 * RADAR_STATUS_LEN - 1
          /\ p - 2 * PRMBLE_LEN = 2 * t.outrd_cnt + 1
      BY <2>1, <2>3, Lengths
    <3> HIDE DEF p
    <3> QED
      BY <2>1, <3>1, Halves
  <2>5. t.stm \in Answering /\ u.stm \in Answering
    BY <1>4, <2>2 DEF Answering
  <2>6. ~t.rd_data /\ ~t.rd_exp /\ ~t.rd_direct
    BY <1>1, <1>4, <2>5, AnsweringIs DEF TxInv, TxGood, TxAsks, t
  <2>7. TxType(u) /\ TxCounts(u) /\ TxNumber(u)
    <3>1. TxType(u)
      BY <1>1, <2>1, <2>2, <2>5, Lengths DEF TxType, Answering
    <3>2. TxCounts(u)
      BY <2>1, <2>2, Lengths DEF TxCounts, Header
    <3>3. TxNumber(u)
      BY <2>2, <2>5, AnsweringIs DEF TxNumber
    <3> QED
      BY <3>1, <3>2, <3>3
  <2> HIDE DEF p, r
  <2>8. TxAsks(u)
    BY <2>2, <2>5, <2>6, AnsweringIs DEF TxAsks
  <2>9. TxValid(u)
    BY <2>2, <2>3, <2>4, <2>5, AnsweringIs, Lengths DEF TxValid, Resting, r
  <2>10. AnswerOf(t, p) = s
    BY <2>3, <2>4, Lengths DEF AnswerOf
  <2>11. p \in 0 .. AnswerLen - 1 /\ p < AnswerLen - 1
    BY <2>1, <2>3, <2>4, Lengths
  <2>12. Told(t, p, u, r)
    BY <2>2, <2>3, <2>5, <2>10, <2>11 DEF Told
  <2> QED
    BY <2>7, <2>8, <2>9, <2>12 DEF TxGood, p, r
<1> QED
  BY <1>2, <1>3, <1>4 DEF RadarState

\* The number of the request leaves.
LEMMA RadarNumberStep == ASSUME TxInv, RadarNumber PROVE TxInv' /\ TellsNibble
<1> DEFINE t == tx
           u == tx'
           p == AnsweredOf(t)
           r == AnsweredOf(u)
<1>1. TxType(t)
  BY DEF TxInv, TxGood
<1> SUFFICES TxGood(u) /\ Told(t, p, u, r)
  BY DEF TxInv, TellsNibble, Answered
<1>2. CASE t.stm = "SEND_RADAR_STATE_NUM0"
  <2> DEFINE s == <<"no", t.request_number, 0>>
  <2>1. /\ t.outrd_cnt = 0
    BY <1>1, <1>2, Lengths DEF TxInv, TxGood, TxType, TxCounts, Answering, t
  <2>2. /\ TxRecord(u) /\ u.stm = "SEND_RADAR_STATE_NUM1" /\ u.cnt_mac = t.cnt_mac
        /\ u.outrd_cnt = t.outrd_cnt /\ u.read_cnt = t.read_cnt /\ u.frame_num = t.frame_num
        /\ u.delay_cnt = t.delay_cnt /\ u.rd_data = t.rd_data /\ u.rd_exp = t.rd_exp
        /\ u.rd_direct = t.rd_direct /\ u.dv /\ u.out = s /\ u.sig_dir = t.sig_dir
        /\ u.crc = t.crc /\ u.request_number = t.request_number /\ u.dv \in BOOLEAN
    BY <1>1, <1>2, <2>1 DEF RadarNumber, TxType, TxRecord
  <2> HIDE DEF t, u
  <2>3. p = 2 * PRMBLE_LEN + 2 * RADAR_STATUS_LEN /\ r = p + 1
    BY <1>2, <2>1, <2>2, AnsweredIs, Lengths
  <2>4. /\ p - (2 * PRMBLE_LEN + 2 * RADAR_STATUS_LEN) = 0 /\ p \in Nat
    BY <2>1, <2>3, Lengths
  <2>5. t.stm \in Answering /\ u.stm \in Answering
    BY <1>2, <2>2 DEF Answering
  <2>6. ~t.rd_data /\ ~t.rd_exp /\ ~t.rd_direct
    BY <1>1, <1>2, <2>5, AnsweringIs DEF TxInv, TxGood, TxAsks, t
  <2>7. TxType(u) /\ TxCounts(u) /\ TxNumber(u)
    <3>1. TxType(u)
      BY <1>1, <2>1, <2>2, <2>5, Lengths DEF TxType, Answering
    <3>2. TxCounts(u)
      BY <2>1, <2>2, Lengths DEF TxCounts, Header
    <3>3. TxNumber(u)
      BY <2>2, <2>5, AnsweringIs DEF TxNumber
    <3> QED
      BY <3>1, <3>2, <3>3
  <2> HIDE DEF p, r
  <2>8. TxAsks(u)
    BY <2>2, <2>5, <2>6, AnsweringIs DEF TxAsks
  <2>9. TxValid(u)
    BY <2>2, <2>3, <2>4, <2>5, AnsweringIs, Lengths DEF TxValid, Resting, r
  <2>10. AnswerOf(t, p) = s
    BY <2>3, <2>4, Lengths DEF AnswerOf
  <2>11. p \in 0 .. AnswerLen - 1 /\ p < AnswerLen - 1
    BY <2>1, <2>3, <2>4, Lengths
  <2>12. Told(t, p, u, r)
    BY <2>2, <2>3, <2>5, <2>10, <2>11 DEF Told
  <2> QED
    BY <2>7, <2>8, <2>9, <2>12 DEF TxGood, p, r
<1>3. CASE t.stm = "SEND_RADAR_STATE_NUM1"
  <2> DEFINE s == <<"no", t.request_number, 1>>
  <2>1. /\ t.outrd_cnt = 0
    BY <1>1, <1>3, Lengths DEF TxInv, TxGood, TxType, TxCounts, Answering, t
  <2>2. /\ TxRecord(u) /\ u.stm = "SEND_RADAR_STATE_ZEROS" /\ u.cnt_mac = t.cnt_mac
        /\ u.outrd_cnt = t.outrd_cnt /\ u.read_cnt = t.read_cnt /\ u.frame_num = t.frame_num
        /\ u.delay_cnt = t.delay_cnt /\ u.rd_data = t.rd_data /\ u.rd_exp = t.rd_exp
        /\ u.rd_direct = t.rd_direct /\ u.dv /\ u.out = s /\ u.sig_dir = t.sig_dir
        /\ u.crc = t.crc /\ u.request_number = t.request_number /\ u.dv \in BOOLEAN
    BY <1>1, <1>3, <2>1 DEF RadarNumber, TxType, TxRecord
  <2> HIDE DEF t, u
  <2>3. p = 2 * PRMBLE_LEN + 2 * RADAR_STATUS_LEN + 1 /\ r = p + 1
    BY <1>3, <2>1, <2>2, AnsweredIs, Lengths
  <2>4. /\ p - (2 * PRMBLE_LEN + 2 * RADAR_STATUS_LEN) = 1 /\ p \in Nat
    BY <2>1, <2>3, Lengths
  <2>5. t.stm \in Answering /\ u.stm \in Answering
    BY <1>3, <2>2 DEF Answering
  <2>6. ~t.rd_data /\ ~t.rd_exp /\ ~t.rd_direct
    BY <1>1, <1>3, <2>5, AnsweringIs DEF TxInv, TxGood, TxAsks, t
  <2>7. TxType(u) /\ TxCounts(u) /\ TxNumber(u)
    <3>1. TxType(u)
      BY <1>1, <2>1, <2>2, <2>5, Lengths DEF TxType, Answering
    <3>2. TxCounts(u)
      BY <2>1, <2>2, Lengths DEF TxCounts, Header
    <3>3. TxNumber(u)
      BY <2>2, <2>5, AnsweringIs DEF TxNumber
    <3> QED
      BY <3>1, <3>2, <3>3
  <2> HIDE DEF p, r
  <2>8. TxAsks(u)
    BY <2>2, <2>5, <2>6, AnsweringIs DEF TxAsks
  <2>9. TxValid(u)
    BY <2>2, <2>3, <2>4, <2>5, AnsweringIs, Lengths DEF TxValid, Resting, r
  <2>10. AnswerOf(t, p) = s
    BY <2>3, <2>4, Lengths DEF AnswerOf
  <2>11. p \in 0 .. AnswerLen - 1 /\ p < AnswerLen - 1
    BY <2>1, <2>3, <2>4, Lengths
  <2>12. Told(t, p, u, r)
    BY <2>2, <2>3, <2>5, <2>10, <2>11 DEF Told
  <2> QED
    BY <2>7, <2>8, <2>9, <2>12 DEF TxGood, p, r
<1> QED
  BY <1>2, <1>3 DEF RadarNumber

\* A nibble of the zeros leaves; the last one ends the answer.
LEMMA RadarZerosStep == ASSUME TxInv, RadarZeros PROVE TxInv' /\ TellsNibble
<1> DEFINE t == tx
           u == tx'
           p == AnsweredOf(t)
           r == AnsweredOf(u)
<1>1. TxType(t)
  BY DEF TxInv, TxGood
<1> SUFFICES TxGood(u) /\ Told(t, p, u, r)
  BY DEF TxInv, TellsNibble, Answered
<1>2. CASE t.stm = "SEND_RADAR_STATE_ZEROS" /\ t.outrd_cnt < ZEROS_LEN * 2 - 1
  <2> DEFINE s == <<"zero">>
  <2>1. /\ t.outrd_cnt \in Nat /\ t.outrd_cnt < 2 * ZEROS_LEN
        /\ 2 * ZEROS_LEN = ZEROS_LEN * 2 /\ t.outrd_cnt + 1 < 2 * ZEROS_LEN
    BY <1>1, <1>2, Lengths DEF TxInv, TxGood, TxType, TxCounts, Answering, t
  <2>2. /\ TxRecord(u) /\ u.stm = "SEND_RADAR_STATE_ZEROS" /\ u.cnt_mac = t.cnt_mac
        /\ u.outrd_cnt = t.outrd_cnt + 1 /\ u.read_cnt = t.read_cnt
        /\ u.frame_num = t.frame_num /\ u.delay_cnt = t.delay_cnt /\ u.rd_data = t.rd_data
        /\ u.rd_exp = t.rd_exp /\ u.rd_direct = t.rd_direct /\ u.dv /\ u.out = s
        /\ u.sig_dir = t.sig_dir /\ u.crc = t.crc /\ u.request_number = t.request_number
        /\ u.dv \in BOOLEAN
    BY <1>1, <1>2, <2>1 DEF RadarZeros, TxType, TxRecord
  <2> HIDE DEF t, u
  <2>3. p = 2 * PRMBLE_LEN + 2 * RADAR_STATUS_LEN + 2 + t.outrd_cnt /\ r = p + 1
    BY <1>2, <2>1, <2>2, AnsweredIs, Lengths
  <2>4. /\ p >= 2 * PRMBLE_LEN + 2 * RADAR_STATUS_LEN + 2 /\ p \in Nat
    BY <2>1, <2>3, Lengths
  <2>5. t.stm \in Answering /\ u.stm \in Answering
    BY <1>2, <2>2 DEF Answering
  <2>6. ~t.rd_data /\ ~t.rd_exp /\ ~t.rd_direct
    BY <1>1, <1>2, <2>5, AnsweringIs DEF TxInv, TxGood, TxAsks, t
  <2>7. TxType(u) /\ TxCounts(u) /\ TxNumber(u)
    <3>1. TxType(u)
      BY <1>1, <2>1, <2>2, <2>5, Lengths DEF TxType, Answering
    <3>2. TxCounts(u)
      BY <2>1, <2>2, Lengths DEF TxCounts, Header
    <3>3. TxNumber(u)
      BY <2>2, <2>5, AnsweringIs DEF TxNumber
    <3> QED
      BY <3>1, <3>2, <3>3
  <2> HIDE DEF p, r
  <2>8. TxAsks(u)
    BY <2>2, <2>5, <2>6, AnsweringIs DEF TxAsks
  <2>9. TxValid(u)
    BY <2>2, <2>3, <2>4, <2>5, AnsweringIs, Lengths DEF TxValid, Resting, r
  <2>10. AnswerOf(t, p) = s
    BY <2>3, <2>4, Lengths DEF AnswerOf
  <2>11. p \in 0 .. AnswerLen - 1 /\ p < AnswerLen - 1
    BY <2>1, <2>3, <2>4, Lengths
  <2>12. Told(t, p, u, r)
    BY <2>2, <2>3, <2>5, <2>10, <2>11 DEF Told
  <2> QED
    BY <2>7, <2>8, <2>9, <2>12 DEF TxGood, p, r
<1>3. CASE t.stm = "SEND_RADAR_STATE_ZEROS" /\ ~(t.outrd_cnt < ZEROS_LEN * 2 - 1)
  <2> DEFINE s == <<"zero">>
  <2>1. /\ t.outrd_cnt \in Nat /\ t.outrd_cnt < 2 * ZEROS_LEN
        /\ 2 * ZEROS_LEN = ZEROS_LEN * 2 /\ t.outrd_cnt = 2 * ZEROS_LEN - 1
    BY <1>1, <1>3, Lengths DEF TxInv, TxGood, TxType, TxCounts, Answering, t
  <2>2. /\ TxRecord(u) /\ u.stm = "WAITING_REQUEST" /\ u.cnt_mac = t.cnt_mac
        /\ u.outrd_cnt = 0 /\ u.read_cnt = t.read_cnt /\ u.frame_num = t.frame_num
        /\ u.delay_cnt = t.delay_cnt /\ u.rd_data = t.rd_data /\ u.rd_exp = t.rd_exp
        /\ u.rd_direct = t.rd_direct /\ u.dv /\ u.out = s /\ u.sig_dir = t.sig_dir
        /\ u.crc = t.crc /\ u.request_number = t.request_number /\ u.dv \in BOOLEAN
    BY <1>1, <1>3, <2>1 DEF RadarZeros, TxType, TxRecord
  <2> HIDE DEF t, u
  <2>3. p = 2 * PRMBLE_LEN + 2 * RADAR_STATUS_LEN + 2 + t.outrd_cnt /\ r = AnswerLen
    BY <1>3, <2>1, <2>2, AnsweredIs, Lengths
  <2>4. /\ p >= 2 * PRMBLE_LEN + 2 * RADAR_STATUS_LEN + 2 /\ p \in Nat
    BY <2>1, <2>3, Lengths
  <2>5. t.stm \in Answering /\ u.stm = "WAITING_REQUEST" /\ u.stm \notin Sending \cup Answering \cup Resting
    BY <1>3, <2>2 DEF Answering, Sending, Header, CrcStates, Resting
  <2>6. ~t.rd_data /\ ~t.rd_exp /\ ~t.rd_direct
    BY <1>1, <1>3, <2>5, AnsweringIs DEF TxInv, TxGood, TxAsks, t
  <2>7. TxType(u) /\ TxCounts(u) /\ TxNumber(u)
    <3>1. TxType(u)
      BY <1>1, <2>1, <2>2, <2>5, Lengths DEF TxType, Answering
    <3>2. TxCounts(u)
      BY <2>1, <2>2, Lengths DEF TxCounts, Header
    <3>3. TxNumber(u)
      BY <2>2, <2>5, AnsweringIs DEF TxNumber, Resting, Sending, Header
    <3> QED
      BY <3>1, <3>2, <3>3
  <2> HIDE DEF p, r
  <2>8. TxAsks(u)
    BY <2>2, <2>5, <2>6, AnsweringIs DEF TxAsks
  <2>9. TxValid(u)
    BY <2>2, <2>3, <2>4, <2>5, AnsweringIs, Lengths DEF TxValid, Resting, r
  <2>10. AnswerOf(t, p) = s
    BY <2>3, <2>4, Lengths DEF AnswerOf
  <2>11. p \in 0 .. AnswerLen - 1 /\ ~(p < AnswerLen - 1)
    BY <2>1, <2>3, <2>4, Lengths
  <2>12. Told(t, p, u, r)
    BY <2>2, <2>3, <2>5, <2>10, <2>11 DEF Told
  <2> QED
    BY <2>7, <2>8, <2>9, <2>12 DEF TxGood, p, r
<1> QED
  BY <1>2, <1>3 DEF RadarZeros

\* The transmitter waits for a request, and turns to it.
Listens(t, u, b) ==
  /\ t.stm = "WAITING_REQUEST" /\ ~u.dv
  /\ IF rx.new /\ rx.type = 0 THEN u.stm \in Answering /\ b = 0
     ELSE IF rx.new /\ rx.type = 1 THEN u.stm = "STARTING"
     ELSE u.stm = "WAITING_REQUEST"

\* It waits for a frame in the memory, and begins with it.
Waits(t, u, r) ==
  /\ t.stm \in {"STARTING", "WAITING"} /\ ~u.dv /\ u.crc = <<>>
  /\ u.frame_num = (IF t.stm = "STARTING" THEN 0 ELSE t.frame_num)
  /\ IF FrameReady THEN u.stm \in Sending /\ r = 0 ELSE u.stm = t.stm

\* It counts the delay down.
Delays(t, u) ==
  /\ t.stm = "DELAYING" /\ ~u.dv /\ u.frame_num = t.frame_num
  /\ IF t.delay_cnt > 0 THEN u.stm = "DELAYING" /\ u.delay_cnt = t.delay_cnt - 1
     ELSE u.stm = "WAITING"

\* Waiting for a request.
LEMMA WaitingRequestStep == ASSUME TxInv, WaitingRequest PROVE TxInv' /\ Listens(tx, tx', Answered')
<1> DEFINE t == tx
           u == tx'
           r == AnsweredOf(u)
<1>1. TxType(t)
  BY DEF TxInv, TxGood
<1> SUFFICES TxGood(u) /\ Listens(t, u, r)
  BY DEF TxInv, Answered
<1>2. /\ TxRecord(u) /\ t.stm = "WAITING_REQUEST"
      /\ u.stm = IF rx.new /\ rx.type = 0 THEN "SEND_RADAR_PREAMBLE0"
                 ELSE IF rx.new /\ rx.type = 1 THEN "STARTING" ELSE "WAITING_REQUEST"
  BY <1>1 DEF WaitingRequest, TxType, TxRecord
<1>3. /\ u.cnt_mac = 0 /\ u.outrd_cnt = 0 /\ ~u.rd_data /\ ~u.rd_exp /\ ~u.rd_direct /\ ~u.dv
      /\ u.read_cnt = t.read_cnt /\ u.frame_num = t.frame_num /\ u.delay_cnt = t.delay_cnt
      /\ u.rd_data \in BOOLEAN /\ u.rd_exp \in BOOLEAN /\ u.rd_direct \in BOOLEAN /\ u.dv \in BOOLEAN
  BY <1>1 DEF WaitingRequest, TxType, TxRecord
<1> HIDE DEF t, u
<1>4. u.stm \in {"SEND_RADAR_PREAMBLE0", "STARTING", "WAITING_REQUEST"}
  BY <1>2
<1>5. u.stm = "SEND_RADAR_PREAMBLE0" => r = 0
  BY <1>3, AnsweredIs
<1>6. u.stm \notin Sending /\ u.stm \notin {"WAITING", "DELAYING"}
  BY <1>4 DEF Sending, Header, CrcStates
<1>7. TxType(u)
  BY <1>1, <1>2, <1>3, <1>4 DEF TxType, Answering, Resting
<1>8. TxCounts(u)
  BY <1>3, <1>4, Lengths DEF TxCounts, Header
<1>9. TxNumber(u)
  BY <1>3, <1>6 DEF TxNumber, Sending
<1>10. TxAsks(u)
  BY <1>3, <1>4, <1>6 DEF TxAsks
<1>11. TxValid(u)
  BY <1>3, <1>4, <1>5, <1>6 DEF TxValid, Answering, r
<1>12. Listens(t, u, r)
  BY <1>2, <1>3, <1>5 DEF Listens, Answering
<1> QED
  BY <1>7, <1>8, <1>9, <1>10, <1>11, <1>12 DEF TxGood

\* Waiting for a frame in the memory.
LEMMA WaitingStep ==
  ASSUME TxInv, Starting \/ Waiting PROVE TxInv' /\ Waits(tx, tx', Phase')
<1> DEFINE t == tx
           u == tx'
           r == PhaseOf(u)
<1>1. TxType(t)
  BY DEF TxInv, TxGood
<1> SUFFICES TxGood(u) /\ Waits(t, u, r)
  BY DEF TxInv, Phase
<1>2. /\ TxRecord(u) /\ t.stm \in {"STARTING", "WAITING"}
      /\ u.stm = (IF FrameReady THEN "PREAMBLE1" ELSE t.stm)
      /\ u.cnt_mac = 0 /\ u.outrd_cnt = t.outrd_cnt /\ u.read_cnt = 0 /\ u.crc = <<>>
      /\ u.frame_num = (IF t.stm = "STARTING" THEN 0 ELSE t.frame_num)
      /\ u.delay_cnt = t.delay_cnt /\ ~u.rd_data /\ ~u.dv
      /\ u.rd_data \in BOOLEAN /\ u.dv \in BOOLEAN
  <2>1. CASE Starting
    BY <1>1, <2>1 DEF Starting, TxType, TxRecord
  <2>2. CASE Waiting
    BY <1>1, <2>2 DEF Waiting, TxType, TxRecord
  <2> QED
    BY <2>1, <2>2
<1>3. /\ u.rd_exp \in BOOLEAN /\ u.rd_direct \in BOOLEAN
      /\ u.rd_exp <=> t.stm = "STARTING" /\ FrameReady
      /\ u.rd_direct <=> t.stm = "STARTING" /\ FrameReady
  <2>1. CASE Starting
    <3>1. u.rd_exp = FrameReady /\ u.rd_direct = FrameReady
      BY <1>1, <2>1 DEF Starting, TxType, TxRecord
    <3>2. FrameReady \in BOOLEAN
      BY DEF FrameReady
    <3> QED
      BY <2>1, <3>1, <3>2 DEF Starting
  <2>2. CASE Waiting
    BY <1>1, <2>2 DEF Waiting, TxType, TxRecord
  <2> QED
    BY <2>1, <2>2
<1>4. t.stm = "WAITING" => t.frame_num \in 1 .. 3
  BY DEF TxInv, TxGood, TxNumber
<1>5. t.frame_num \in Nat /\ t.delay_cnt \in Nat /\ t.outrd_cnt \in Nat
  BY <1>1 DEF TxType
<1> HIDE DEF t, u
<1>6. u.frame_num \in Nat /\ u.frame_num \in 0 .. 3
      /\ (u.frame_num = 0 <=> t.stm = "STARTING") /\ (t.stm = "WAITING" => u.frame_num \in 1 .. 3)
  BY <1>2, <1>4, <1>5
<1>7. u.stm = "PREAMBLE1" => r = 0
  BY <1>2, PhaseIs
<1>8. u.stm \in {"PREAMBLE1", "STARTING", "WAITING"} /\ (u.stm = "PREAMBLE1" <=> FrameReady)
      /\ (u.stm # "PREAMBLE1" => u.stm = t.stm)
  BY <1>2
<1>9. TxType(u)
  BY <1>2, <1>3, <1>5, <1>6, <1>8 DEF TxType, Resting, Sending, Header
<1>10. TxCounts(u)
  BY <1>2, <1>8, Lengths DEF TxCounts, Header
<1>11. TxNumber(u)
  BY <1>2, <1>6, <1>8 DEF TxNumber, Sending, Header, CrcStates
<1>12. TxAsks(u)
  <2>1. u.stm \in Sending => u.stm = "PREAMBLE1" /\ r = 0
    BY <1>7, <1>8 DEF Sending, Header, CrcStates
  <2> QED
    BY <1>2, <1>3, <1>6, <1>8, <2>1, Lengths DEF TxAsks, r
<1>13. TxValid(u)
  BY <1>2, <1>7, <1>8 DEF TxValid, Answering, Sending, Header, CrcStates, r
<1>14. Waits(t, u, r)
  BY <1>2, <1>7, <1>8 DEF Waits, Sending, Header
<1> QED
  BY <1>9, <1>10, <1>11, <1>12, <1>13, <1>14 DEF TxGood

\* The delay behind a frame.
LEMMA DelayingStep == ASSUME TxInv, Delaying PROVE TxInv' /\ Delays(tx, tx')
<1> DEFINE t == tx
           u == tx'
<1>1. TxType(t)
  BY DEF TxInv, TxGood
<1> SUFFICES TxGood(u) /\ Delays(t, u)
  BY DEF TxInv
<1>2. /\ TxRecord(u) /\ t.stm = "DELAYING"
      /\ u.stm = (IF t.delay_cnt > 0 THEN "DELAYING" ELSE "WAITING")
      /\ u.cnt_mac = t.cnt_mac /\ u.outrd_cnt = t.outrd_cnt /\ u.read_cnt = t.read_cnt
      /\ u.frame_num = t.frame_num
      /\ u.delay_cnt = (IF t.delay_cnt > 0 THEN t.delay_cnt - 1 ELSE t.delay_cnt)
      /\ u.rd_data = t.rd_data /\ u.rd_exp = t.rd_exp /\ u.rd_direct = t.rd_direct
      /\ ~u.dv /\ u.dv \in BOOLEAN
  BY <1>1 DEF Delaying, TxType, TxRecord
<1>3. t.delay_cnt \in Nat /\ t.delay_cnt <= DelayMax /\ t.frame_num \in 1 .. 3
  BY <1>1, <1>2 DEF TxInv, TxGood, TxType, TxCounts, TxNumber
<1>4. t.stm \notin Sending
  BY <1>2 DEF Sending, Header, CrcStates
<1>5. ~t.rd_data /\ ~t.rd_exp /\ ~t.rd_direct
  BY <1>1, <1>2, <1>4 DEF TxInv, TxGood, TxAsks, t
<1> HIDE DEF t, u
<1>6. u.stm \in {"DELAYING", "WAITING"} /\ u.stm \notin Sending /\ u.stm \notin Answering
      /\ u.stm \notin Header
  BY <1>2 DEF Sending, Header, CrcStates, Answering
<1>7. u.stm = "DELAYING" => u.delay_cnt \in Nat /\ u.delay_cnt < DelayMax
  BY <1>2, <1>3, Lengths
<1>8. TxType(u)
  <2>1. u.delay_cnt \in Nat
    BY <1>2, <1>3
  <2> QED
    BY <1>1, <1>2, <1>6, <2>1 DEF TxType, Resting
<1>9. TxCounts(u)
  BY <1>6, <1>7, Lengths DEF TxCounts
<1>10. TxNumber(u)
  BY <1>2, <1>3, <1>6 DEF TxNumber
<1>11. TxAsks(u)
  BY <1>2, <1>5, <1>6 DEF TxAsks
<1>12. TxValid(u)
  BY <1>2, <1>6, <1>7, Lengths DEF TxValid
<1>13. Delays(t, u)
  BY <1>2 DEF Delays
<1> QED
  BY <1>8, <1>9, <1>10, <1>11, <1>12, <1>13 DEF TxGood

\* An edge of the transmitter is one of five.
TxEvent ==
  \/ Listens(tx, tx', Answered')
  \/ TellsNibble
  \/ Waits(tx, tx', Phase')
  \/ SendsNibble
  \/ Delays(tx, tx')

\* An edge of the transmitter keeps its registers good and is one of the five.
LEMMA TxStep == ASSUME TxInv, Transmitter PROVE TxInv' /\ TxEvent
  BY WaitingRequestStep, RadarPreambleStep, RadarStateStep, RadarNumberStep, RadarZerosStep,
     WaitingStep, PreambleStep, DescrMacStep, DescrPosStep, ReadDataStep, PushCrcStep, DelayingStep
     DEF Transmitter, TxEvent

-----------------------------------------------------------------------------
(***************************************************************************)
(* The pace in numbers.                                                    *)
(***************************************************************************)
\* The edges that n words take.
At(n) == n * WordGap

\* Times add up, and a word takes four edges or more.
LEMMA AtIs ==
  /\ WordGap \in Nat /\ WordGap >= 4
  /\ At(0) = 0
  /\ \A n \in Nat : At(n) \in Nat /\ At(n + 1) = At(n) + WordGap
  /\ \A m, n \in Nat : At(m + n) = At(m) + At(n)
  /\ \A m, n \in Nat : m <= n => At(m) + 4 * (n - m) <= At(n)
<1>1. WordGap \in Nat /\ WordGap >= 4
  BY Lengths, Paced DEF PaceAssumption
<1>2. \A k \in Nat : k * WordGap \in Nat /\ k * WordGap >= 4 * k
  <2> SUFFICES ASSUME NEW k \in Nat PROVE k * WordGap \in Nat /\ k * WordGap >= 4 * k
    OBVIOUS
  <2>1. PICK d \in Nat : WordGap = 4 + d
    <3>1. WordGap - 4 \in Nat /\ WordGap = 4 + (WordGap - 4)
      BY <1>1
    <3> QED
      BY <3>1
  <2>2. k * WordGap = 4 * k + k * d
    BY <2>1
  <2>3. k * d \in Nat
    BY <2>1
  <2> QED
    BY <2>2, <2>3
<1>3. \A m, n \in Nat : At(m + n) = At(m) + At(n)
  BY <1>1 DEF At
<1>4. ASSUME NEW m \in Nat, NEW n \in Nat, m <= n PROVE At(m) + 4 * (n - m) <= At(n)
  <2>1. n - m \in Nat /\ n = m + (n - m)
    BY <1>4
  <2>2. At(n) = At(m) + At(n - m)
    BY <1>3, <2>1
  <2>3. At(n - m) >= 4 * (n - m) /\ At(n - m) \in Nat /\ At(m) \in Nat
    BY <1>2, <2>1 DEF At
  <2> QED
    BY <2>1, <2>2, <2>3
<1>5. \A n \in Nat : At(n) \in Nat /\ At(n + 1) = At(n) + WordGap
  BY <1>1, <1>2 DEF At
<1>6. At(0) = 0
  BY <1>1 DEF At
<1> QED
  BY <1>1, <1>3, <1>4, <1>5, <1>6

\* The later of two times.
LEMMA LaterIs ==
  \A m, n \in Int : Later(m, n) \in Int /\ m <= Later(m, n) /\ n <= Later(m, n)
                    /\ (Later(m, n) = m \/ Later(m, n) = n)
  BY DEF Later

\* The pace in numbers.
LEMMA PaceIs ==
  /\ FrameTime \in Nat /\ At(FrameWords) = FrameTime /\ At(2 * FrameWords) = 2 * FrameTime
  /\ At(3 * FrameWords) = 3 * FrameTime /\ At(4 * FrameWords) = 4 * FrameTime
  /\ \A i \in 0 .. 3 : Start(i) \in Int
  /\ Start(0) >= FrameTime - WordGap + 4 /\ Start(0) >= At(Window) + 5 /\ Start(0) >= 4
  /\ \A i \in 0 .. 2 : /\ Start(i + 1) >= Start(i) + FrameTime
                       /\ Start(i + 1) >= Start(i) + FrameLen + DelayMax + 2
  /\ Window < FifoWords
  /\ Start(0) + HeadLen + 2 <= 2 * FrameTime
  /\ Start(1) + HeadLen + 2 <= 3 * FrameTime
  /\ Start(0) <= 2 * FrameTime - WordGap + 2
  /\ Start(1) <= 3 * FrameTime - WordGap + 2
  /\ Start(2) <= 4 * FrameTime - WordGap + 2
  /\ Start(3) + FrameLen <= 4 * FrameTime - WordGap + SweepGap
  /\ SweepGap > 4
<1>1. /\ FrameTime \in Nat /\ At(FrameWords) = FrameTime /\ At(2 * FrameWords) = 2 * FrameTime
      /\ At(3 * FrameWords) = 3 * FrameTime /\ At(4 * FrameWords) = 4 * FrameTime
  <2>1. FrameTime = At(FrameWords) /\ FrameTime \in Nat
    BY AtIs, Lengths DEF FrameTime, At
  <2>2. At(2 * FrameWords) = At(FrameWords) + At(FrameWords)
    BY AtIs, Lengths DEF At
  <2>3. At(3 * FrameWords) = At(2 * FrameWords) + At(FrameWords)
    BY AtIs, Lengths DEF At
  <2>4. At(4 * FrameWords) = At(3 * FrameWords) + At(FrameWords)
    BY AtIs, Lengths DEF At
  <2> QED
    BY <2>1, <2>2, <2>3, <2>4
<1> DEFINE A == Later(FrameTime - WordGap, Window * WordGap + 1)
           B == Later(FrameTime, CycleTime)
<1>2. /\ A \in Int /\ A >= FrameTime - WordGap /\ A >= At(Window) + 1 /\ At(Window) \in Nat
  <2>1. At(Window) \in Nat /\ At(Window) = Window * WordGap /\ WordGap \in Nat
    BY AtIs, Lengths DEF At
  <2>2. A = Later(FrameTime - WordGap, At(Window) + 1)
    BY <2>1
  <2>3. FrameTime - WordGap \in Int /\ At(Window) + 1 \in Int
    BY <1>1, <2>1
  <2> HIDE DEF A
  <2> QED
    BY <2>1, <2>2, <2>3, LaterIs
<1>3. B \in Int /\ B >= FrameTime /\ B >= CycleTime /\ CycleTime = FrameLen + DelayMax + 2 /\ CycleTime \in Nat
  <2>1. CycleTime \in Nat /\ CycleTime = FrameLen + DelayMax + 2
    BY Lengths DEF CycleTime
  <2> QED
    BY <1>1, <2>1, LaterIs
<1>4. /\ Start(0) = A + 4 + 0 * B /\ Start(1) = A + 4 + 1 * B
      /\ Start(2) = A + 4 + 2 * B /\ Start(3) = A + 4 + 3 * B
      /\ \A i \in 0 .. 3 : Start(i) = A + 4 + i * B
  BY DEF Start
<1> HIDE DEF A, B
<1>5. /\ Start(0) = A + 4 /\ Start(1) = Start(0) + B /\ Start(2) = Start(1) + B
      /\ Start(3) = Start(2) + B /\ Start(0) \in Int /\ Start(1) \in Int /\ Start(2) \in Int
      /\ Start(3) \in Int
  BY <1>2, <1>3, <1>4
<1>6. \A i \in 0 .. 3 : Start(i) \in Int
  <2> SUFFICES ASSUME NEW i \in 0 .. 3 PROVE Start(i) \in Int
    OBVIOUS
  <2>1. i = 0 \/ i = 1 \/ i = 2 \/ i = 3
    OBVIOUS
  <2> QED
    BY <2>1, <1>5
<1>7. \A i \in 0 .. 2 : /\ Start(i + 1) >= Start(i) + FrameTime
                       /\ Start(i + 1) >= Start(i) + FrameLen + DelayMax + 2
  <2> SUFFICES ASSUME NEW i \in 0 .. 2
               PROVE /\ Start(i + 1) >= Start(i) + FrameTime
                     /\ Start(i + 1) >= Start(i) + FrameLen + DelayMax + 2
    OBVIOUS
  <2>1. Start(i + 1) = Start(i) + B /\ Start(i) \in Int
    <3>1. i = 0 \/ i = 1 \/ i = 2
      OBVIOUS
    <3> QED
      BY <3>1, <1>5
  <2> QED
    BY <2>1, <1>1, <1>3, Lengths
<1>w. WordGap \in Nat /\ WordGap >= 4
  BY AtIs
<1>8. /\ Start(0) >= FrameTime - WordGap + 4 /\ Start(0) >= At(Window) + 5 /\ Start(0) >= 4
  BY <1>w, <1>1, <1>2, <1>5
<1>9. SweepGap > 4
  <2>1. Start(3) + FrameLen <= 4 * FrameTime - WordGap + SweepGap /\ FrameLen \in Nat /\ FrameLen > 8
        /\ SweepGap \in Nat
    BY Paced, Lengths DEF PaceAssumption
  <2>2. Start(3) >= 3 * FrameTime + Start(0)
    BY <1>1, <1>3, <1>5
  <2> QED
    BY <1>w, <1>1, <1>5, <1>8, <2>1, <2>2
<1> QED
  BY <1>1, <1>5, <1>6, <1>7, <1>8, <1>9, Paced DEF PaceAssumption

-----------------------------------------------------------------------------
(***************************************************************************)
(* The source, the receiver and the clock of the sweep.                    *)
(***************************************************************************)
\* The gap of the words and that of the sweeps, as numbers.
LEMMA Gaps ==
  /\ WordGap \in Nat /\ WordGap >= 4 /\ SweepGap \in Nat /\ SweepGap > 4
  /\ FrameWords \in Nat /\ FrameWords >= 1 /\ SweepWords = 4 * FrameWords
  /\ FifoWords = 2 * FrameWords /\ MaxSweeps \in Nat /\ SweepWords \in Nat
  BY AtIs, PaceIs, Lengths

\* An edge of the signal path.
LEMMA SourceStep == ASSUME SourceInv, NoInput \/ Source PROVE SourceInv'
<1>1. CASE NoInput
  <2>1. /\ sweep' = sweep /\ nextWord' = nextWord /\ dataMux' = NoWord
        /\ since' = (IF since < SweepGap THEN since + 1 ELSE since)
        /\ dirIn' = dirIn /\ expIn' = expIn
    BY <1>1 DEF NoInput, DataFifo, SideFifos
  <2> QED
    BY <2>1, Gaps DEF SourceInv
<1>2. CASE SweepStart
  <2>1. /\ sweep < MaxSweeps /\ nextWord > SweepWords /\ since >= SweepGap
        /\ sweep' = sweep + 1 /\ nextWord' = 1 /\ since' = 1
        /\ dataMux' = NoWord /\ dirIn' = dirIn + 1 /\ expIn' = expIn
    BY <1>2 DEF SweepStart, DataFifo, SideFifos
  <2> QED
    BY <2>1, Gaps DEF SourceInv
<1>3. CASE SweepWord
  <2>1. /\ nextWord <= SweepWords /\ since >= WordGap /\ nextWord' = nextWord + 1 /\ since' = 1
        /\ dataMux' = <<sweep, nextWord>> /\ sweep' = sweep
        /\ dirIn' = dirIn /\ expIn' = (IF nextWord = 1 THEN expIn + 1 ELSE expIn)
    BY <1>3 DEF SweepWord, DataFifo, SideFifos
  <2> QED
    BY <2>1, Gaps DEF SourceInv
<1> QED
  BY <1>1, <1>2, <1>3 DEF Source

\* An edge of the receiver.
LEMMA RxStep == ASSUME RxInv, Request PROVE RxInv'
<1>1. RequestGap \in Nat /\ RequestGap >= 1
  BY Lengths, Paced DEF GapAssumption
<1>2. CASE /\ rx' = (IF rx.left = 0 THEN NoRequest
                     ELSE [rx EXCEPT !.left = @ - 1, !.new = rx.left + 1 > RequestGap])
           /\ requests' = requests
  <2>1. CASE rx.left = 0
    BY <1>1, <1>2, <2>1 DEF RxInv, NoRequest
  <2>2. CASE rx.left # 0
    <3>1. rx' = [rx EXCEPT !.left = rx.left - 1, !.new = rx.left + 1 > RequestGap]
      BY <1>2, <2>2
    <3>2. /\ DOMAIN rx' = {"new", "type", "no", "left"} /\ rx'.left = rx.left - 1
          /\ rx'.new = (rx.left + 1 > RequestGap) /\ rx'.type = rx.type /\ rx'.no = rx.no
      BY <3>1 DEF RxInv
    <3>3. /\ rx.left \in 0 .. RequestGap /\ rx.type \in {0, 1, 2} /\ rx.no \in Nat
          /\ requests' \in Nat
      BY <1>2 DEF RxInv
    <3> DEFINE g == rx.left + 1 > RequestGap
    <3>a. g \in BOOLEAN /\ (g => rx.left - 1 + 1 >= RequestGap)
      BY <1>1, <3>3
    <3>b. rx'.new = g
      BY <3>2
    <3> HIDE DEF g
    <3>4. rx'.new \in BOOLEAN /\ (rx'.new => rx'.left + 1 >= RequestGap)
          /\ rx'.left # RequestGap
      BY <1>1, <3>2, <3>3, <3>a, <3>b
    <3> QED
      BY <1>1, <2>2, <3>2, <3>3, <3>4 DEF RxInv
  <2> QED
    BY <2>1, <2>2
<1>3. CASE /\ rx.left = 0 /\ requests' = requests + 1
           /\ \E type \in {0, 1, 2} :
                /\ type = 1 => Len(words) <= Window
                /\ rx' = [new |-> TRUE, type |-> type, no |-> requests + 1, left |-> RequestGap]
  BY <1>1, <1>3 DEF RxInv
<1> QED
  BY <1>2, <1>3 DEF Request

\* The history of the frame grows by the symbol that leaves.
LEMMA FrameStep == ASSUME FrameInv, TxInv, TxInv', History PROVE FrameInv'
<1> DEFINE old == IF tx.dv THEN frame ELSE <<>>
<1>1. old = [k \in 1 .. Len(old) |-> old[k]] /\ Len(old) \in Nat
  <2>1. CASE tx.dv
    BY <2>1 DEF FrameInv
  <2>2. CASE ~tx.dv
    BY <2>2
  <2> QED
    BY <2>1, <2>2
<1>2. frame' = IF tx'.dv THEN Append(old, tx'.out) ELSE old
  BY DEF History
<1> HIDE DEF old
<1>3. old \in Seq({old[k] : k \in 1 .. Len(old)} \cup {tx'.out})
  BY <1>1
<1>4. CASE tx'.dv
  <2>1. frame' = Append(old, tx'.out) /\ tx'.out \in {old[k] : k \in 1 .. Len(old)} \cup {tx'.out}
    BY <1>2, <1>4
  <2>2. frame' \in Seq({old[k] : k \in 1 .. Len(old)} \cup {tx'.out}) /\ Len(frame') = Len(old) + 1
        /\ frame'[Len(old) + 1] = tx'.out
    BY <1>3, <2>1, AppendProperties
  <2>3. frame' = [k \in 1 .. Len(frame') |-> frame'[k]] /\ Len(frame') \in Nat
    BY <2>2, SeqDef
  <2> QED
    BY <1>1, <2>2, <2>3 DEF FrameInv
<1>5. CASE ~tx'.dv
  BY <1>1, <1>2, <1>5 DEF FrameInv
<1> QED
  BY <1>4, <1>5

CameFacts ==
  /\ Came \in Nat /\ Came <= SweepWords
  /\ dataMux = NoWord <=> ~(nextWord > 1 /\ since = 1)
  /\ Came = (IF nextWord > 1 /\ since = 1 THEN nextWord - 2 ELSE nextWord - 1)
  /\ dataMux # NoWord => dataMux = <<sweep, Came + 1>> /\ Came + 1 <= SweepWords

\* The words that came, and the one in the register.
LEMMA CameIs == SourceInv => CameFacts
  BY Gaps DEF SourceInv, Came, NoWord, CameFacts

ClockFacts ==
  /\ Clock \in Int
  /\ nextWord = 1 => Clock <= 0
  /\ nextWord > 1 =>
       Clock = At(nextWord - 2)
                 + (IF nextWord <= SweepWords /\ since > WordGap THEN WordGap ELSE since)

\* The clock of the sweep against the words that came.
LEMMA ClockIs == SourceInv => ClockFacts
<1> SUFFICES ASSUME SourceInv PROVE ClockFacts
  OBVIOUS
<1>1. WordGap \in Nat /\ WordGap >= 4
  BY AtIs
<1>2. since \in Nat /\ nextWord \in Nat /\ nextWord >= 1 /\ SweepWords >= 1
  BY Gaps DEF SourceInv
<1> DEFINE h == IF nextWord <= SweepWords /\ since > WordGap THEN WordGap ELSE since
<1>3. h \in Nat /\ (nextWord = 1 => h <= WordGap)
  BY <1>1, <1>2, Gaps
<1>4. Clock = (nextWord - 2) * WordGap + h
  BY DEF Clock
<1> HIDE DEF h
<1>5. CASE nextWord = 1
  <2>1. Clock = h - WordGap
    <3>1. (nextWord - 2) * WordGap = 0 - WordGap
      BY <1>1, <1>5
    <3> QED
      BY <1>1, <1>3, <1>4, <3>1
  <2> QED
    BY <1>1, <1>3, <1>5, <2>1 DEF ClockFacts
<1>6. CASE nextWord > 1
  <2>1. nextWord - 2 \in Nat /\ Clock = At(nextWord - 2) + h
    BY <1>2, <1>4, <1>6 DEF At
  <2>2. At(nextWord - 2) \in Nat
    BY <2>1, AtIs
  <2> QED
    BY <1>3, <1>6, <2>1, <2>2 DEF h, ClockFacts
<1> QED
  BY <1>2, <1>5, <1>6

\* The same after an edge.
LEMMA NextFacts == SourceInv' => CameFacts' /\ ClockFacts'
  BY CameIs, ClockIs, PTL

\* The clock advances by an edge at most, and starts again with a sweep.
LEMMA ClockStep ==
  ASSUME SourceInv, NoInput \/ Source
  PROVE  /\ Clock \in Int /\ Clock' \in Int
         /\ NoInput \/ SweepWord => Clock' <= Clock + 1
         /\ SweepStart => Clock' <= 0
<1>1. SourceInv'
  BY SourceStep
<1>2. ClockFacts /\ ClockFacts'
  BY <1>1, ClockIs, NextFacts
<1>3. /\ nextWord \in Nat /\ nextWord >= 1 /\ since \in Nat /\ since >= 1 /\ SweepWords \in Nat
      /\ WordGap \in Nat /\ WordGap >= 4 /\ Clock \in Int /\ Clock' \in Int
  BY <1>2, Gaps DEF SourceInv, ClockFacts
<1>4. ASSUME SweepStart PROVE Clock' <= 0
  <2>1. nextWord' = 1 /\ Clock' <= 0
    BY <1>2, <1>4 DEF SweepStart, ClockFacts
  <2> QED
    BY <1>3, <1>4, <2>1
<1>5. ASSUME NoInput PROVE Clock' <= Clock + 1
  <2>1. nextWord' = nextWord /\ since' \in {since, since + 1}
    BY <1>5 DEF NoInput
  <2> DEFINE m == (nextWord - 2) * WordGap
  <2>2. m \in Int
    BY <1>3
  <2>3. /\ Clock = m + (IF nextWord <= SweepWords /\ since > WordGap THEN WordGap ELSE since)
        /\ Clock' = m + (IF nextWord <= SweepWords /\ since' > WordGap THEN WordGap ELSE since')
    BY <2>1 DEF Clock
  <2> DEFINE h == IF nextWord <= SweepWords /\ since > WordGap THEN WordGap ELSE since
             k == IF nextWord <= SweepWords /\ since' > WordGap THEN WordGap ELSE since'
  <2>4. h \in Nat /\ k \in Nat /\ k <= h + 1
    <3>1. CASE since' = since
      BY <1>3, <3>1
    <3>2. CASE since' = since + 1
      BY <1>3, <3>2
    <3> QED
      BY <2>1, <3>1, <3>2
  <2>5. Clock = m + h /\ Clock' = m + k
    BY <2>3
  <2> HIDE DEF m, h, k
  <2> QED
    BY <2>2, <2>4, <2>5
<1>6. ASSUME SweepWord PROVE Clock' <= Clock + 1
  <2>1. nextWord' = nextWord + 1 /\ since' = 1 /\ nextWord <= SweepWords /\ since >= WordGap
    BY <1>6 DEF SweepWord
  <2>2. Clock' = At(nextWord - 1) + 1
    BY <1>2, <1>3, <2>1 DEF ClockFacts, At
  <2>3. CASE nextWord = 1
    <3>1. Clock = 0
      BY <1>3, <2>1, <2>3 DEF Clock
    <3>2. At(nextWord - 1) = 0
      BY <2>3, AtIs
    <3> QED
      BY <1>3, <2>2, <3>1, <3>2
  <2>4. CASE nextWord > 1
    <3>1. At(nextWord - 1) = At(nextWord - 2) + WordGap /\ At(nextWord - 2) \in Nat
      <4>1. nextWord - 2 \in Nat /\ (nextWord - 2) + 1 = nextWord - 1
        BY <1>3, <2>4
      <4> QED
        BY <4>1, AtIs
    <3>2. Clock = At(nextWord - 2) + WordGap
      BY <1>2, <1>3, <2>1, <2>4 DEF ClockFacts
    <3> QED
      BY <1>3, <2>2, <3>1, <3>2
  <2> QED
    BY <1>3, <2>3, <2>4
<1> QED
  BY <1>3, <1>4, <1>5, <1>6

\* What the clock says of the words that came, and the other way round.
LEMMA ClockTells ==
  ASSUME SourceInv, NEW n \in Nat, n >= 1
  PROVE  /\ Came >= n => Clock >= At(n - 1) + 2
         /\ Came - Fresh < n /\ n <= SweepWords => Clock <= At(n - 1) + 2
         /\ Came < n /\ n <= SweepWords => Clock <= At(n - 1) + 1
         /\ dataMux # NoWord => Clock = At(Came) + 1
<1>1. /\ nextWord \in Nat /\ nextWord >= 1 /\ since \in Nat /\ since >= 1 /\ SweepWords \in Nat
      /\ WordGap \in Nat /\ WordGap >= 4 /\ SweepWords >= 1 /\ nextWord <= SweepWords + 1
  BY Gaps DEF SourceInv
<1>2. CameFacts /\ ClockFacts
  BY CameIs, ClockIs
<1>3. At(n - 1) \in Nat /\ n - 1 \in Nat
  <2>1. n - 1 \in Nat
    OBVIOUS
  <2> QED
    BY <2>1, AtIs
<1>4. CASE nextWord = 1
  BY <1>1, <1>2, <1>3, <1>4 DEF CameFacts, ClockFacts, Fresh
<1>5. CASE nextWord > 1
  <2> DEFINE m == nextWord - 2
             T == At(m)
             h == IF nextWord <= SweepWords /\ since > WordGap THEN WordGap ELSE since
  <2>1. m \in Nat /\ T \in Nat /\ nextWord = m + 2
    <3>1. m \in Nat /\ nextWord = m + 2
      BY <1>1, <1>5
    <3> HIDE DEF m
    <3> QED
      BY <3>1, AtIs
  <2>2. Clock = T + h
    BY <1>2, <1>5 DEF ClockFacts
  <2>3. /\ Came = (IF since = 1 THEN m ELSE m + 1) /\ (dataMux # NoWord <=> since = 1)
        /\ Fresh = (IF since = 2 THEN 1 ELSE 0)
    BY <1>1, <1>2, <1>5 DEF CameFacts, Fresh
  <2>4. /\ n - 1 <= m => At(n - 1) + 4 * (m - (n - 1)) <= T
        /\ m <= n - 1 => T + 4 * ((n - 1) - m) <= At(n - 1)
        /\ m + 1 <= n - 1 => T + WordGap <= At(n - 1)
    <3>1. At(m + 1) = T + WordGap
      BY <2>1, AtIs
    <3>2. m + 1 <= n - 1 => At(m + 1) + 4 * ((n - 1) - (m + 1)) <= At(n - 1)
      BY <2>1, <1>3, AtIs
    <3>3. /\ n - 1 <= m => At(n - 1) + 4 * (m - (n - 1)) <= T
          /\ m <= n - 1 => T + 4 * ((n - 1) - m) <= At(n - 1)
      BY <2>1, <1>3, AtIs
    <3> HIDE DEF m, T
    <3> QED
      BY <1>1, <1>3, <2>1, <3>1, <3>2, <3>3
  <2> HIDE DEF m, T
  <2>5. Came >= n => Clock >= At(n - 1) + 2
    BY <1>1, <1>3, <2>1, <2>2, <2>3, <2>4
  <2>6. ASSUME Came - Fresh < n, n <= SweepWords PROVE Clock <= At(n - 1) + 2
    <3>1. CASE since >= 3
      <4>1. Came = m + 1 /\ Fresh = 0 /\ m + 1 <= n - 1
        BY <1>1, <2>1, <2>3, <2>6, <3>1
      <4>2. h <= WordGap /\ h \in Nat
        BY <1>1, <2>1, <2>6, <4>1
      <4> HIDE DEF h
      <4> QED
        BY <1>1, <1>3, <2>1, <2>2, <2>4, <4>1, <4>2
    <3>2. CASE since = 1 \/ since = 2
      <4>1. m <= n - 1 /\ h = since
        BY <1>1, <2>1, <2>3, <2>6, <3>2
      <4> QED
        BY <1>1, <1>3, <2>1, <2>2, <2>4, <3>2, <4>1
    <3> QED
      BY <1>1, <3>1, <3>2
  <2>7. dataMux # NoWord => Clock = At(Came) + 1
    BY <1>1, <2>1, <2>2, <2>3 DEF T
  <2>8. ASSUME Came < n, n <= SweepWords PROVE Clock <= At(n - 1) + 1
    <3>1. CASE since >= 2
      <4>1. Came = m + 1 /\ m + 1 <= n - 1
        BY <1>1, <2>1, <2>3, <2>8, <3>1
      <4>2. h <= WordGap /\ h \in Nat
        BY <1>1, <2>1, <2>8, <4>1
      <4> HIDE DEF h
      <4> QED
        BY <1>1, <1>3, <2>1, <2>2, <2>4, <4>1, <4>2
    <3>2. CASE since = 1
      <4>1. m <= n - 1 /\ h = since
        BY <1>1, <2>1, <2>3, <2>8, <3>2
      <4> QED
        BY <1>1, <1>3, <2>1, <2>2, <2>4, <3>2, <4>1
    <3> QED
      BY <1>1, <3>1, <3>2
  <2> QED
    BY <2>5, <2>6, <2>7, <2>8
<1> QED
  BY <1>1, <1>4, <1>5

-----------------------------------------------------------------------------
(***************************************************************************)
(* Phases and nibbles.                                                     *)
(***************************************************************************)
\* The states as ranges of the phase.
LEMMA PhaseRange ==
  ASSUME NEW t, TxGood(t)
  PROVE  /\ t.stm \in Sending => /\ PhaseOf(t) \in 0 .. FrameLen - 1
                                 /\ t.stm \in Header <=> PhaseOf(t) <= HeadLen - 2
                                 /\ t.stm \notin Resting
         /\ t.stm \in {"STARTING", "WAITING", "WAITING_REQUEST"} \cup Answering => PhaseOf(t) = -1
         /\ t.stm = "DELAYING" => PhaseOf(t) = 0 - t.delay_cnt - 2
         /\ t.delay_cnt \in Nat /\ t.frame_num \in Nat /\ PhaseOf(t) \in Int
<1>1. t.cnt_mac \in Nat /\ t.read_cnt \in Nat /\ t.delay_cnt \in Nat /\ t.frame_num \in Nat
      /\ t.stm \in {"WAITING_REQUEST"} \cup Answering \cup Resting \cup Sending
  BY DEF TxGood, TxType
<1>2. t.stm \in Sending => t.stm \in {"PREAMBLE1", "PREAMBLE2", "DESCR_MAC1", "DESCR_MAC2",
              "DESCR_POS1", "DESCR_POS2", "DESCR_POS3", "DESCR_POS4", "READ_DATA"} \cup CrcStates
  BY DEF Sending, Header
<1>3. t.stm \in CrcStates => PhaseOf(t) \in HeadLen + DataLen .. FrameLen - 1
  BY PhaseIs, Lengths DEF CrcStates
<1>4. t.stm \in {"PREAMBLE1", "PREAMBLE2", "DESCR_MAC1", "DESCR_MAC2",
              "DESCR_POS1", "DESCR_POS2", "DESCR_POS3"} => PhaseOf(t) \in 0 .. HeadLen - 2
  <2>1. /\ t.stm \in {"PREAMBLE1", "PREAMBLE2"} => t.cnt_mac < PRMBLE_LEN
        /\ t.stm \in {"DESCR_MAC1", "DESCR_MAC2"} => t.cnt_mac < HEADER_LEN
    BY DEF TxGood, TxCounts
  <2> QED
    BY <1>1, <2>1, PhaseIs, Lengths
<1>5. t.stm \in {"DESCR_POS4", "READ_DATA"} => PhaseOf(t) \in HeadLen - 1 .. HeadLen + DataLen - 1
  <2>1. t.stm = "READ_DATA" => t.read_cnt < DataLen
    BY DEF TxGood, TxCounts
  <2> QED
    BY <1>1, <2>1, PhaseIs, Lengths
<1>6. t.stm \in Sending => /\ PhaseOf(t) \in 0 .. FrameLen - 1
                           /\ t.stm \in Header <=> PhaseOf(t) <= HeadLen - 2
                           /\ t.stm \notin Resting
  <2> SUFFICES ASSUME t.stm \in Sending
               PROVE  /\ PhaseOf(t) \in 0 .. FrameLen - 1
                      /\ t.stm \in Header <=> PhaseOf(t) <= HeadLen - 2
                      /\ t.stm \notin Resting
    OBVIOUS
  <2>1. CASE t.stm \in CrcStates
    <3>1. t.stm \notin Header /\ t.stm \notin Resting
      BY <2>1 DEF CrcStates, Header, Resting
    <3> QED
      BY <1>3, <2>1, <3>1, Lengths
  <2>2. CASE t.stm \in {"DESCR_POS4", "READ_DATA"}
    <3>1. t.stm \notin Header /\ t.stm \notin Resting
      BY <2>2 DEF Header, Resting
    <3> QED
      BY <1>5, <2>2, <3>1, Lengths
  <2>3. CASE t.stm \in Header
    <3>1. t.stm \notin Resting
      BY <2>3 DEF Header, Resting
    <3> QED
      BY <1>4, <2>3, <3>1, Lengths DEF Header
  <2> QED
    BY <2>1, <2>2, <2>3 DEF Sending
<1>7. t.stm \in {"STARTING", "WAITING", "WAITING_REQUEST"} \cup Answering => PhaseOf(t) = -1
  BY PhaseIs
<1>8. t.stm = "DELAYING" => PhaseOf(t) = 0 - t.delay_cnt - 2
  BY PhaseIs
<1>9. PhaseOf(t) \in Int
  <2>1. t.stm \in Resting => t.stm \in {"STARTING", "WAITING", "DELAYING"}
    BY DEF Resting
  <2> QED
    BY <1>1, <1>6, <1>7, <1>8, <2>1
<1> QED
  BY <1>1, <1>6, <1>7, <1>8, <1>9

\* Nibbles as words and rests.
LEMMA Quarters ==
  \A f \in Nat : /\ f \div 4 \in Nat /\ f % 4 \in 0 .. 3 /\ f = 4 * (f \div 4) + (f % 4)
                 /\ (f + 1) \div 4 = (IF f % 4 = 3 THEN f \div 4 + 1 ELSE f \div 4)
                 /\ (f + 1) % 4 = ((f % 4) + 1) % 4
<1> SUFFICES ASSUME NEW f \in Nat
             PROVE  /\ f \div 4 \in Nat /\ f % 4 \in 0 .. 3 /\ f = 4 * (f \div 4) + (f % 4)
                    /\ (f + 1) \div 4 = (IF f % 4 = 3 THEN f \div 4 + 1 ELSE f \div 4)
                    /\ (f + 1) % 4 = ((f % 4) + 1) % 4
  OBVIOUS
<1>1. f \div 4 \in Nat /\ f % 4 \in 0 .. 3 /\ f = 4 * (f \div 4) + (f % 4)
  <2>1. f \div 4 \in Nat /\ f % 4 \in 0 .. 3
    OBVIOUS
  <2>2. f = 4 * (f \div 4) + (f % 4)
    OBVIOUS
  <2> QED
    BY <2>1, <2>2
<1>2. CASE f % 4 = 3
  <2>1. f + 1 = 4 * (f \div 4 + 1)
    BY <1>1, <1>2
  <2>2. (f + 1) \div 4 = f \div 4 + 1 /\ (f + 1) % 4 = 0
    BY <1>1, <2>1
  <2> QED
    BY <1>1, <1>2, <2>2
<1>3. CASE f % 4 # 3
  <2>1. f + 1 = 4 * (f \div 4) + ((f % 4) + 1) /\ (f % 4) + 1 \in 0 .. 3
    BY <1>1, <1>3
  <2>2. (f + 1) \div 4 = f \div 4 /\ (f + 1) % 4 = (f % 4) + 1
    BY <1>1, <2>1
  <2> QED
    BY <1>1, <1>3, <2>1, <2>2
<1> QED
  BY <1>2, <1>3

\* The nibbles read, as a function of the phase.
LEMMA FetchedIs ==
  \A p \in Int :
    /\ FetchedAt(p) \in 0 .. DataLen
    /\ p <= HeadLen - 4 => FetchedAt(p) = 0
    /\ p >= HeadLen + DataLen - 1 => FetchedAt(p) = DataLen
    /\ p < HeadLen + DataLen =>
         p <= HeadLen + FetchedAt(p) /\ (FetchedAt(p) > 0 => p <= HeadLen + FetchedAt(p) - 1)
<1>1. HeadLen \in Nat /\ HeadLen >= 8 /\ DataLen \in Nat /\ DataLen >= 4
  BY Lengths
<1> QED
  BY <1>1 DEF FetchedAt

\* A nibble is read where one is asked for.
LEMMA FetchedNext ==
  ASSUME NEW p \in Int
  PROVE  IF p = HeadLen - 4 \/ (HeadLen <= p /\ p <= HeadLen + DataLen - 2)
         THEN FetchedAt(p + 1) = FetchedAt(p) + 1 /\ FetchedAt(p) < DataLen
         ELSE FetchedAt(p + 1) = FetchedAt(p)
<1>1. HeadLen \in Nat /\ HeadLen >= 8 /\ DataLen \in Nat /\ DataLen >= 4
  BY Lengths
<1> QED
  BY <1>1 DEF FetchedAt

StreamingFacts ==
  /\ Streaming <=> tx.stm \in Sending \cup Resting
  /\ TxInv /\ ~Streaming => tx.stm \in {"WAITING_REQUEST"} \cup Answering
  /\ tx.stm \in {"WAITING_REQUEST"} \cup Answering => ~Streaming

\* What it is to send data, in terms of the states.
LEMMA StreamingIs == StreamingFacts
<1>1. {Crc[i] : i \in 1 .. 8} = CrcStates
  <2>1. /\ Crc[1] = "PUSHCRC1" /\ Crc[2] = "PUSHCRC2" /\ Crc[3] = "PUSHCRC3"
        /\ Crc[4] = "PUSHCRC4" /\ Crc[5] = "PUSHCRC5" /\ Crc[6] = "PUSHCRC6"
        /\ Crc[7] = "PUSHCRC7" /\ Crc[8] = "PUSHCRC8"
    BY DEF Crc
  <2>2. 1 .. 8 = {1, 2, 3, 4, 5, 6, 7, 8}
    OBVIOUS
  <2>3. {Crc[i] : i \in {1, 2, 3, 4, 5, 6, 7, 8}}
          = {Crc[1], Crc[2], Crc[3], Crc[4], Crc[5], Crc[6], Crc[7], Crc[8]}
    OBVIOUS
  <2> QED
    BY <2>1, <2>2, <2>3 DEF CrcStates
<1>2. Streaming <=> tx.stm \in Sending \cup Resting
  BY <1>1 DEF Streaming, Sending, Header, Resting
<1>3. tx.stm \in {"WAITING_REQUEST"} \cup Answering => tx.stm \notin Sending \cup Resting
  BY DEF Answering, Sending, Header, CrcStates, Resting
<1> QED
  BY <1>2, <1>3 DEF StreamingFacts, TxInv, TxGood, TxType

\* The same after an edge.
LEMMA StreamingNext == StreamingFacts'
  BY StreamingIs, PTL

-----------------------------------------------------------------------------
(***************************************************************************)
(* The words, and the memory.                                              *)
(***************************************************************************)
\* A word that waits in the register comes to the memory.
LEMMA CameStep ==
  ASSUME SourceInv, NoInput \/ Source
  PROVE  /\ Came \in Nat /\ Came' \in Nat /\ Came <= SweepWords /\ Came' <= SweepWords
         /\ Fresh \in 0 .. 1 /\ Fresh' = (IF dataMux = NoWord THEN 0 ELSE 1)
         /\ NoInput \/ SweepWord => Came' = Came + Fresh' /\ sweep' = sweep
         /\ SweepStart => /\ Came' = 0 /\ Came = SweepWords /\ dataMux = NoWord
                          /\ sweep' = sweep + 1
<1>1. SourceInv'
  BY SourceStep
<1>2. CameFacts /\ CameFacts'
  BY <1>1, CameIs, NextFacts
<1>3. /\ nextWord \in Nat /\ nextWord >= 1 /\ since \in Nat /\ since >= 1 /\ SweepWords \in Nat
      /\ WordGap >= 4 /\ WordGap \in Nat /\ SweepGap > 4 /\ SweepGap \in Nat /\ SweepWords >= 1
      /\ nextWord <= SweepWords + 1 /\ sweep \in Nat
  BY Gaps DEF SourceInv
<1>4. CASE NoInput
  <2>1. /\ sweep' = sweep /\ nextWord' = nextWord
        /\ since' = (IF since < SweepGap THEN since + 1 ELSE since)
    BY <1>4 DEF NoInput
  <2>2. ~SweepStart
    <3>1. sweep' # sweep + 1
      BY <2>1, <1>3
    <3> QED
      BY <3>1 DEF SweepStart
  <2> QED
    BY <1>2, <1>3, <1>4, <2>1, <2>2 DEF CameFacts, Fresh
<1>5. CASE SweepStart
  <2>1. /\ nextWord > SweepWords /\ since >= SweepGap /\ nextWord' = 1 /\ since' = 1
        /\ sweep' = sweep + 1
    BY <1>5 DEF SweepStart
  <2>2. ~NoInput /\ ~SweepWord
    <3>1. sweep' # sweep /\ ~(nextWord <= SweepWords)
      BY <2>1, <1>3
    <3> QED
      BY <3>1 DEF NoInput, SweepWord
  <2> QED
    BY <1>2, <1>3, <1>5, <2>1, <2>2 DEF CameFacts, Fresh
<1>6. CASE SweepWord
  <2>1. /\ nextWord <= SweepWords /\ since >= WordGap /\ nextWord' = nextWord + 1 /\ since' = 1
        /\ sweep' = sweep
    BY <1>6 DEF SweepWord
  <2>2. ~SweepStart
    <3>1. ~(nextWord > SweepWords)
      BY <2>1, <1>3
    <3> QED
      BY <3>1 DEF SweepStart
  <2> QED
    BY <1>2, <1>3, <1>6, <2>1, <2>2 DEF CameFacts, Fresh
<1> QED
  BY <1>4, <1>5, <1>6 DEF Source

\* What an edge does to the counts of the memory.
LEMMA MemoryStep ==
  ASSUME SourceInv, MemoryType, TxInv, NoInput \/ Source
  PROVE  LET take == IF tx.rd_data /\ Len(words) > 0 /\ part = 3 THEN 1 ELSE 0
             put  == IF dataMux # NoWord /\ Len(words) < FifoWords THEN 1 ELSE 0
         IN  /\ words' \in Seq(Nat \X Nat) /\ part' \in 0 .. 3 /\ readCount' \in Nat
             /\ emptyWas' \in BOOLEAN /\ (emptyWas' <=> Len(words) = 0)
             /\ Len(words) \in Nat /\ Len(words') = Len(words) + put - take
             /\ part' = (IF tx.rd_data /\ Len(words) > 0 THEN (part + 1) % 4 ELSE part)
             /\ readCount' = (4 * Len(words) - part) % (4 * FifoWords)
<1> DEFINE take == IF tx.rd_data /\ Len(words) > 0 /\ part = 3 THEN 1 ELSE 0
           put  == IF dataMux # NoWord /\ Len(words) < FifoWords THEN 1 ELSE 0
           rest == IF Reads /\ part = 3 THEN Tail(words) ELSE words
<1>1. \E word : DataFifo(word)
  BY DEF Source, NoInput, SweepStart, SweepWord
<1>2. /\ words' = IF Accept THEN Append(rest, dataMux) ELSE rest
      /\ part' = IF Reads THEN (part + 1) % 4 ELSE part
      /\ readCount' = UsedW /\ emptyWas' = (words = <<>>)
  BY <1>1 DEF DataFifo
<1>3. words \in Seq(Nat \X Nat) /\ Len(words) \in Nat /\ part \in 0 .. 3 /\ (words = <<>> <=> Len(words) = 0)
  BY EmptySeq, LenProperties DEF MemoryType
<1>4. Reads <=> tx.rd_data /\ Len(words) > 0
  BY <1>3 DEF Reads
<1>5. rest \in Seq(Nat \X Nat) /\ Len(rest) = Len(words) - take /\ Len(rest) \in Nat
  <2>1. CASE Reads /\ part = 3
    <3>1. rest = Tail(words) /\ take = 1 /\ words # <<>>
      BY <1>3, <1>4, <2>1
    <3>2. Tail(words) \in Seq(Nat \X Nat) /\ Len(Tail(words)) = Len(words) - 1
      BY <1>3, <3>1, HeadTailProperties
    <3>3. Len(words) > 0
      BY <1>4, <2>1
    <3> HIDE DEF rest, take
    <3> QED
      BY <1>3, <3>1, <3>2, <3>3
  <2>2. CASE ~(Reads /\ part = 3)
    <3>1. rest = words /\ take = 0
      BY <1>4, <2>2
    <3> HIDE DEF rest, take
    <3> QED
      BY <1>3, <3>1
  <2> QED
    BY <2>1, <2>2
<1>t. take \in Nat
  OBVIOUS
<1>6. dataMux # NoWord => dataMux \in Nat \X Nat
  <2>1. sweep \in Nat /\ nextWord - 1 \in Nat
    BY Gaps DEF SourceInv
  <2> QED
    BY <2>1 DEF SourceInv
<1>7. words' \in Seq(Nat \X Nat) /\ Len(words') = Len(words) + put - take
  <2>1. CASE Accept
    <3>1. words' = Append(rest, dataMux) /\ dataMux \in Nat \X Nat /\ put = 1
      BY <1>2, <1>6, <2>1 DEF Accept
    <3> HIDE DEF rest, take, put
    <3>2. words' \in Seq(Nat \X Nat) /\ Len(words') = Len(rest) + 1
      BY <1>5, <3>1, AppendProperties
    <3>3. Len(words) - take + 1 = Len(words) + 1 - take
      BY <1>3, <1>t
    <3> QED
      BY <1>5, <3>1, <3>2, <3>3
  <2>2. CASE ~Accept
    <3>1. words' = rest /\ put = 0
      BY <1>2, <2>2 DEF Accept
    <3> HIDE DEF rest, take, put
    <3>2. Len(words) - take = Len(words) + 0 - take
      BY <1>3, <1>t
    <3> QED
      BY <1>5, <3>1, <3>2
  <2> QED
    BY <2>1, <2>2
<1> HIDE DEF rest
<1>8. part' \in 0 .. 3
  BY <1>2, <1>3
<1>9. readCount' = (4 * Len(words) - part) % (4 * FifoWords) /\ readCount' \in Nat
  <2>1. FifoWords \in Nat /\ FifoWords >= 2
    BY Gaps
  <2>2. readCount' = (4 * Len(words) - part) % (4 * FifoWords)
    BY <1>2 DEF UsedW, Used
  <2>3. 4 * Len(words) - part \in Int /\ 4 * FifoWords \in Nat \ {0}
    BY <1>3, <2>1
  <2>4. \A a \in Int, b \in Nat \ {0} : a % b \in Nat
    OBVIOUS
  <2> QED
    BY <2>2, <2>3, <2>4
<1>10. emptyWas' \in BOOLEAN /\ (emptyWas' <=> Len(words) = 0)
  BY <1>2, <1>3
<1> QED
  BY <1>2, <1>3, <1>4, <1>7, <1>8, <1>9, <1>10

\* The words of the first i frames of a sweep, and the time they take.
WordsOf(i) == i * FrameWords
TimeOf(i)  == i * FrameTime

\* The words of the frames add up.
LEMMA WordsIs ==
  /\ \A i \in 0 .. 5 : WordsOf(i) \in Nat /\ TimeOf(i) \in Nat /\ At(WordsOf(i)) = TimeOf(i)
  /\ \A i \in 0 .. 4 : WordsOf(i + 1) = WordsOf(i) + FrameWords /\ TimeOf(i + 1) = TimeOf(i) + FrameTime
  /\ WordsOf(0) = 0 /\ WordsOf(4) = SweepWords /\ WordsOf(2) = FifoWords /\ TimeOf(4) = 4 * FrameTime
  /\ FrameTime \in Nat /\ FrameTime >= 4 * FrameWords /\ TimeOf(2) = 2 * FrameTime
  /\ TimeOf(3) = 3 * FrameTime /\ TimeOf(1) = FrameTime /\ TimeOf(0) = 0
<1>1. FrameWords \in Nat /\ FrameTime \in Nat /\ At(FrameWords) = FrameTime /\ FrameTime >= 4 * FrameWords
  <2>1. At(0) + 4 * (FrameWords - 0) <= At(FrameWords)
    BY AtIs, Lengths
  <2> QED
    BY <2>1, AtIs, PaceIs, Lengths
<1>2. /\ WordsOf(0) = 0 /\ WordsOf(1) = FrameWords /\ WordsOf(2) = 2 * FrameWords
      /\ WordsOf(3) = 3 * FrameWords /\ WordsOf(4) = 4 * FrameWords /\ WordsOf(5) = 5 * FrameWords
      /\ TimeOf(0) = 0 /\ TimeOf(1) = FrameTime /\ TimeOf(2) = 2 * FrameTime
      /\ TimeOf(3) = 3 * FrameTime /\ TimeOf(4) = 4 * FrameTime /\ TimeOf(5) = 5 * FrameTime
  BY <1>1 DEF WordsOf, TimeOf
<1>3. /\ At(0) = 0 /\ At(2 * FrameWords) = 2 * FrameTime /\ At(3 * FrameWords) = 3 * FrameTime
      /\ At(4 * FrameWords) = 4 * FrameTime
  BY PaceIs, AtIs
<1>4. At(5 * FrameWords) = 5 * FrameTime
  <2>1. 4 * FrameWords + FrameWords = 5 * FrameWords /\ 4 * FrameWords \in Nat
    BY <1>1
  <2>2. At(4 * FrameWords + FrameWords) = At(4 * FrameWords) + At(FrameWords)
    BY <1>1, <2>1, AtIs
  <2>3. At(5 * FrameWords) = 4 * FrameTime + FrameTime
    BY <1>1, <1>3, <2>1, <2>2
  <2> QED
    BY <1>1, <2>3
<1>5. \A i \in 0 .. 5 : WordsOf(i) \in Nat /\ TimeOf(i) \in Nat /\ At(WordsOf(i)) = TimeOf(i)
  <2> SUFFICES ASSUME NEW i \in 0 .. 5
               PROVE  WordsOf(i) \in Nat /\ TimeOf(i) \in Nat /\ At(WordsOf(i)) = TimeOf(i)
    OBVIOUS
  <2>1. i = 0 \/ i = 1 \/ i = 2 \/ i = 3 \/ i = 4 \/ i = 5
    OBVIOUS
  <2> QED
    BY <2>1, <1>1, <1>2, <1>3, <1>4
<1>6. \A i \in 0 .. 4 : WordsOf(i + 1) = WordsOf(i) + FrameWords /\ TimeOf(i + 1) = TimeOf(i) + FrameTime
  <2> SUFFICES ASSUME NEW i \in 0 .. 4
               PROVE  WordsOf(i + 1) = WordsOf(i) + FrameWords /\ TimeOf(i + 1) = TimeOf(i) + FrameTime
    OBVIOUS
  <2>1. i = 0 \/ i = 1 \/ i = 2 \/ i = 3 \/ i = 4
    OBVIOUS
  <2> QED
    BY <2>1, <1>1, <1>2
<1> QED
  BY <1>1, <1>2, <1>5, <1>6, Lengths

\* The pace, frame by frame.
LEMMA PaceAt ==
  /\ \A i \in 0 .. 3 : /\ Start(i) \in Int /\ Start(i) >= 4
                       /\ Start(i) >= TimeOf(i + 1) - WordGap + 4
                       /\ Start(i) + FrameLen <= TimeOf(4) - WordGap + SweepGap
  /\ \A i \in 0 .. 1 : Start(i) + HeadLen + 2 <= TimeOf(i + 2)
  /\ \A i \in 0 .. 2 : Start(i) <= TimeOf(i + 2) - WordGap + 2
  /\ \A i \in 0 .. 2 : Start(i + 1) >= Start(i) + FrameLen + DelayMax + 2
<1>1. /\ TimeOf(4) = 4 * FrameTime /\ TimeOf(2) = 2 * FrameTime /\ FrameTime \in Nat
      /\ TimeOf(3) = 3 * FrameTime /\ TimeOf(1) = FrameTime /\ WordGap \in Nat
  BY WordsIs, AtIs
<1>2. /\ Start(0) \in Int /\ Start(1) \in Int /\ Start(2) \in Int /\ Start(3) \in Int
      /\ Start(1) >= Start(0) + FrameTime /\ Start(2) >= Start(1) + FrameTime
      /\ Start(3) >= Start(2) + FrameTime
  <2>1. \A i \in 0 .. 2 : Start(i + 1) >= Start(i) + FrameTime
    BY PaceIs
  <2>2. Start(0 + 1) >= Start(0) + FrameTime /\ Start(1 + 1) >= Start(1) + FrameTime
        /\ Start(2 + 1) >= Start(2) + FrameTime
    BY <2>1
  <2>3. 0 + 1 = 1 /\ 1 + 1 = 2 /\ 2 + 1 = 3
    OBVIOUS
  <2> QED
    BY <2>2, <2>3, PaceIs
<1>3. /\ Start(0) >= FrameTime - WordGap + 4 /\ Start(0) >= 4
      /\ Start(0) + HeadLen + 2 <= 2 * FrameTime
      /\ Start(1) + HeadLen + 2 <= 3 * FrameTime
      /\ Start(0) <= 2 * FrameTime - WordGap + 2
      /\ Start(1) <= 3 * FrameTime - WordGap + 2
      /\ Start(2) <= 4 * FrameTime - WordGap + 2
      /\ Start(3) + FrameLen <= 4 * FrameTime - WordGap + SweepGap
      /\ \A i \in 0 .. 2 : Start(i + 1) >= Start(i) + FrameLen + DelayMax + 2
  BY PaceIs
<1>4. FrameLen \in Nat /\ SweepGap \in Nat /\ HeadLen \in Nat /\ DelayMax \in Nat
  BY Lengths
<1>5. ASSUME NEW i \in 0 .. 3
      PROVE  /\ Start(i) \in Int /\ Start(i) >= 4
             /\ Start(i) >= TimeOf(i + 1) - WordGap + 4
             /\ Start(i) + FrameLen <= TimeOf(4) - WordGap + SweepGap
  <2>1. i = 0 \/ i = 1 \/ i = 2 \/ i = 3
    OBVIOUS
  <2>2. 0 + 1 = 1 /\ 1 + 1 = 2 /\ 2 + 1 = 3 /\ 3 + 1 = 4
    OBVIOUS
  <2> QED
    BY <2>1, <2>2, <1>1, <1>2, <1>3, <1>4
<1>6. ASSUME NEW i \in 0 .. 1 PROVE Start(i) + HeadLen + 2 <= TimeOf(i + 2)
  <2>1. i = 0 \/ i = 1
    OBVIOUS
  <2>2. 0 + 2 = 2 /\ 1 + 2 = 3
    OBVIOUS
  <2> QED
    BY <2>1, <2>2, <1>1, <1>2, <1>3, <1>4
<1>7. ASSUME NEW i \in 0 .. 2 PROVE Start(i) <= TimeOf(i + 2) - WordGap + 2
  <2>1. i = 0 \/ i = 1 \/ i = 2
    OBVIOUS
  <2>2. 0 + 2 = 2 /\ 1 + 2 = 3 /\ 2 + 2 = 4
    OBVIOUS
  <2> QED
    BY <2>1, <2>2, <1>1, <1>2, <1>3, <1>4
<1> QED
  BY <1>3, <1>5, <1>6, <1>7

-----------------------------------------------------------------------------
(***************************************************************************)
(* The transmitter keeps pace.                                             *)
(***************************************************************************)
\* A frame and the samples of it that were read, as numbers.
LEMMA InTimeIs ==
  ASSUME TxInv, SourceInv, MemoryType, Streaming, InTime
  PROVE  /\ Index \in 0 .. 4 /\ Phase \in Int /\ Fetched \in 0 .. DataLen
         /\ Fetched \div 4 \in 0 .. FrameWords /\ part = Fetched % 4
         /\ Fetched = 4 * (Fetched \div 4) + part
         /\ Len(words) \in Nat /\ Came \in Nat /\ Came <= SweepWords /\ Clock \in Int
         /\ Came = Len(words) + WordsOf(Index) + (Fetched \div 4)
         /\ Phase \in 0 .. FrameLen - 1 <=> tx.stm \in Sending
         /\ tx.stm \notin Sending => Phase < 0
         /\ tx.stm \in Sending => Index \in 0 .. 3 /\ Came >= WordsOf(Index + 1)
         /\ Index = 4 => tx.stm = "STARTING"
         /\ tx.stm # "STARTING" => Index \in 0 .. 3
         /\ Index < 4 => Clock <= Start(Index) + Phase
<1>1. TxGood(tx) /\ tx.stm \in Sending \cup Resting
  BY StreamingIs DEF TxInv, StreamingFacts
<1>2. /\ tx.stm \in Sending => Phase \in 0 .. FrameLen - 1
      /\ tx.stm \notin Sending => Phase < 0
      /\ Phase \in Int
  <2>1. PhaseOf(tx) = Phase
    BY DEF Phase
  <2>2. /\ tx.stm \in Sending => Phase \in 0 .. FrameLen - 1
        /\ tx.stm \in {"STARTING", "WAITING"} => Phase = -1
        /\ tx.stm = "DELAYING" => Phase = 0 - tx.delay_cnt - 2
        /\ tx.delay_cnt \in Nat
    BY <1>1, <2>1, PhaseRange
  <2>3. tx.stm \notin Sending => tx.stm \in {"STARTING", "WAITING", "DELAYING"}
    BY <1>1 DEF Resting
  <2> QED
    BY <2>2, <2>3, Lengths
<1>3. Fetched \in 0 .. DataLen /\ DataLen = 4 * FrameWords /\ FrameWords \in Nat
  BY <1>2, FetchedIs, Lengths DEF Fetched
<1>4. /\ Fetched \div 4 \in 0 .. FrameWords /\ part = Fetched % 4
      /\ Fetched = 4 * (Fetched \div 4) + part
  <2>1. part = Fetched % 4
    BY DEF InTime
  <2>2. /\ Fetched \in Nat /\ Fetched \div 4 \in Nat /\ Fetched % 4 \in 0 .. 3
        /\ Fetched = 4 * (Fetched \div 4) + (Fetched % 4)
    BY <1>3, Quarters
  <2> DEFINE d == Fetched \div 4
             r == Fetched % 4
  <2>3. d \in Nat /\ r \in 0 .. 3 /\ Fetched = 4 * d + r
    BY <2>2
  <2> HIDE DEF d, r
  <2>4. d \in 0 .. FrameWords
    BY <1>3, <2>3
  <2> QED
    BY <2>1, <2>2, <2>4 DEF d
<1>5. Len(words) \in Nat /\ Came \in Nat /\ Came <= SweepWords /\ Clock \in Int
  BY CameIs, ClockIs, LenProperties DEF MemoryType, CameFacts, ClockFacts
<1>6. Index \in 0 .. 4 /\ (Index < 4 => Clock <= Start(Index) + Phase)
  BY DEF InTime
<1>7. /\ tx.stm \in Sending => Index \in 0 .. 3
      /\ Index = 4 => tx.stm = "STARTING"
  <2>1. /\ tx.stm \in Header => tx.frame_num \in 0 .. 3
        /\ tx.stm \in Sending \ Header => tx.frame_num \in 1 .. 4
        /\ tx.stm \in {"WAITING", "DELAYING"} => tx.frame_num \in 1 .. 3
    BY <1>1 DEF TxGood, TxNumber
  <2>2. /\ tx.stm \in Header => Index = tx.frame_num
        /\ tx.stm \in {"WAITING", "DELAYING"} => Index = tx.frame_num
        /\ tx.stm \in Sending \ Header => Index = tx.frame_num - 1
    BY DEF InTime
  <2>3. tx.stm \in Sending \/ tx.stm \in {"WAITING", "DELAYING"} \/ tx.stm = "STARTING"
    BY <1>1 DEF Resting
  <2>4. tx.stm \in Sending => Index \in 0 .. 3
    BY <2>1, <2>2
  <2>5. tx.stm \in {"WAITING", "DELAYING"} => Index \in 0 .. 3
    BY <2>1, <2>2
  <2> QED
    BY <2>3, <2>4, <2>5
<1>8. WordsOf(Index) \in Nat /\ Came = Len(words) + WordsOf(Index) + (Fetched \div 4)
  <2>1. Len(words) = Came - (WordsOf(Index) + (Fetched \div 4)) /\ WordsOf(Index) \in Nat
    <3>1. Len(words) = Came - Taken
      BY DEF InTime
    <3>2. Taken = WordsOf(Index) + (Fetched \div 4)
      BY DEF Taken, WordsOf
    <3>3. Index \in 0 .. 5
      BY <1>6
    <3> QED
      BY <3>1, <3>2, <3>3, WordsIs
  <2> QED
    BY <2>1, <1>4, <1>5
<1>9. tx.stm \in Sending => Came >= WordsOf(Index + 1)
  BY DEF InTime, WordsOf
<1>10. tx.stm # "STARTING" => Index \in 0 .. 3
  BY <1>6, <1>7
<1>11. Phase \in 0 .. FrameLen - 1 <=> tx.stm \in Sending
  BY <1>2
<1> QED
  BY <1>2, <1>3, <1>4, <1>5, <1>6, <1>7, <1>8, <1>9, <1>10, <1>11

\* There is room for every word that comes, a word for every nibble that is
\* asked for, and the count is not 0 again where it is looked at.
LEMMA Room ==
  ASSUME TxInv, SourceInv, MemoryType, Streaming, InTime
  PROVE  /\ Phase < 0 \/ Phase >= HeadLen + DataLen => Len(words) < FifoWords
         /\ dataMux # NoWord => Len(words) < FifoWords
         /\ tx.rd_data => Len(words) > 0 /\ Fetched < DataLen
<1> DEFINE i == Index
           d == Fetched \div 4
<1>1. /\ i \in 0 .. 4 /\ Phase \in Int /\ Fetched \in 0 .. DataLen
      /\ d \in 0 .. FrameWords /\ part \in 0 .. 3
      /\ Fetched = 4 * d + part
      /\ Len(words) \in Nat /\ Came \in Nat /\ Came <= SweepWords /\ Clock \in Int
      /\ Came = Len(words) + WordsOf(i) + d
      /\ Phase \in 0 .. FrameLen - 1 <=> tx.stm \in Sending
      /\ Phase \in 0 .. FrameLen - 1 \/ Phase < 0
      /\ tx.stm \in Sending => i \in 0 .. 3 /\ Came >= WordsOf(i + 1)
      /\ i < 4 => Clock <= Start(i) + Phase
  BY InTimeIs DEF MemoryType
<1> HIDE DEF i, d
<1>2. /\ FrameWords \in Nat /\ FrameWords >= 1 /\ FifoWords = 2 * FrameWords
      /\ SweepWords = 4 * FrameWords /\ DataLen = 4 * FrameWords /\ HeadLen \in Nat /\ HeadLen >= 8
      /\ FrameLen = HeadLen + DataLen + 8 /\ WordGap \in Nat /\ WordGap >= 4 /\ DelayMax \in Nat
  BY Lengths, AtIs
<1>z. /\ Phase \in Int /\ Clock \in Int /\ Came \in Nat /\ d \in Nat /\ FrameLen \in Nat
      /\ WordGap \in Nat /\ HeadLen \in Nat /\ DelayMax \in Nat
  BY <1>1, <1>2
<1>3. WordsOf(i) \in Nat /\ (i = 4 => WordsOf(i) = SweepWords)
      /\ (i \in 0 .. 3 => WordsOf(i + 1) = WordsOf(i) + FrameWords)
  <2>1. i \in 0 .. 5
    BY <1>1
  <2> QED
    BY <1>1, <2>1, WordsIs
<1>4. i = 3 => WordsOf(i) = 3 * FrameWords
  <2>1. WordsOf(3 + 1) = WordsOf(3) + FrameWords /\ WordsOf(4) = SweepWords /\ 3 + 1 = 4
    BY WordsIs
  <2> QED
    BY <1>2, <1>3, <2>1
<1>5. ASSUME i \in 0 .. 2, Len(words) >= FifoWords
      PROVE  Clock >= TimeOf(i + 2) - WordGap + 2
  <2> DEFINE n == WordsOf(i + 2)
  <2>1. n = WordsOf(i) + 2 * FrameWords /\ n \in Nat /\ At(n) = TimeOf(i + 2)
    <3>1. i + 2 \in 0 .. 5 /\ i + 1 \in 0 .. 4 /\ i \in 0 .. 4 /\ (i + 1) + 1 = i + 2
      BY <1>5
    <3>2. WordsOf((i + 1) + 1) = WordsOf(i + 1) + FrameWords /\ WordsOf(i + 1) = WordsOf(i) + FrameWords
          /\ WordsOf(i + 2) \in Nat /\ At(WordsOf(i + 2)) = TimeOf(i + 2)
      BY <3>1, WordsIs
    <3> QED
      BY <3>1, <3>2, <1>2, <1>3
  <2> HIDE DEF n
  <2>2. n >= 1 /\ Came >= n
    BY <1>1, <1>2, <1>3, <1>5, <2>1, SMTT(30)
  <2>3. Clock >= At(n - 1) + 2
    BY <2>1, <2>2, ClockTells
  <2>4. At(n) = At(n - 1) + WordGap /\ At(n - 1) \in Nat
    <3>1. n - 1 \in Nat /\ (n - 1) + 1 = n
      BY <2>1, <2>2
    <3> QED
      BY <3>1, AtIs
  <2> QED
    BY <1>1, <1>2, <2>1, <2>3, <2>4
<1>6. ASSUME Len(words) >= FifoWords, Phase < 0 PROVE FALSE
  <2>1. Fetched = 0 /\ d = 0
    <3>1. Fetched = 0
      BY <1>1, <1>2, <1>6, FetchedIs DEF Fetched
    <3> QED
      BY <1>1, <3>1
  <2>2. i \in 0 .. 2
    BY <1>1, <1>2, <1>3, <1>4, <1>6, <2>1
  <2>3. Start(i) <= TimeOf(i + 2) - WordGap + 2 /\ Start(i) \in Int
        /\ TimeOf(i + 2) \in Nat
    <3>1. i + 2 \in 0 .. 5 /\ i \in 0 .. 3
      BY <2>2
    <3> QED
      BY <2>2, <3>1, PaceAt, WordsIs
  <2> QED
    BY <1>1, <1>2, <1>5, <1>6, <2>2, <2>3
<1>7. ASSUME Len(words) >= FifoWords, Phase >= HeadLen + DataLen PROVE FALSE
  <2>1. d = FrameWords
    <3>1. Fetched = DataLen
      BY <1>1, <1>2, <1>7, FetchedIs DEF Fetched
    <3> QED
      BY <1>1, <1>2, <3>1
  <2>2. i \in 0 .. 1
    <3>1. i = 2 => WordsOf(i) = 2 * FrameWords
      BY WordsIs, <1>2
    <3> QED
      BY <1>1, <1>2, <1>3, <1>4, <1>7, <2>1, <3>1
  <2> DEFINE n == WordsOf(i + 3)
  <2>3. n = WordsOf(i) + 3 * FrameWords /\ n \in Nat /\ At(n) = TimeOf(i + 3)
    <3>1. i + 3 \in 0 .. 5 /\ i + 2 \in 0 .. 4 /\ i + 1 \in 0 .. 4 /\ i \in 0 .. 4
          /\ (i + 1) + 1 = i + 2 /\ (i + 2) + 1 = i + 3
      BY <2>2
    <3>2. WordsOf((i + 2) + 1) = WordsOf(i + 2) + FrameWords
          /\ WordsOf((i + 1) + 1) = WordsOf(i + 1) + FrameWords /\ WordsOf(i + 1) = WordsOf(i) + FrameWords
          /\ WordsOf(i + 3) \in Nat /\ At(WordsOf(i + 3)) = TimeOf(i + 3)
      BY <3>1, WordsIs
    <3> QED
      BY <3>1, <3>2, <1>2, <1>3
  <2> HIDE DEF n
  <2>4. n >= 1 /\ Came >= n
    BY <1>1, <1>2, <1>3, <1>7, <2>1, <2>3
  <2>5. Clock >= At(n - 1) + 2
    BY <2>3, <2>4, ClockTells
  <2>6. At(n) = At(n - 1) + WordGap /\ At(n - 1) \in Nat
    <3>1. n - 1 \in Nat /\ (n - 1) + 1 = n
      BY <2>3, <2>4
    <3> QED
      BY <3>1, AtIs
  <2>7. /\ Start(i + 1) <= TimeOf(i + 3) - WordGap + 2 /\ Start(i + 1) \in Int /\ Start(i) \in Int
        /\ Start(i + 1) >= Start(i) + FrameLen + DelayMax + 2 /\ TimeOf(i + 3) \in Nat
    <3>1. i + 1 \in 0 .. 2 /\ i \in 0 .. 2 /\ i \in 0 .. 3 /\ i + 1 \in 0 .. 3 /\ i + 3 \in 0 .. 5
          /\ (i + 1) + 2 = i + 3
      BY <2>2
    <3>2. Start(i + 1) <= TimeOf((i + 1) + 2) - WordGap + 2
      BY <3>1, PaceAt
    <3> QED
      BY <3>1, <3>2, PaceAt, WordsIs
  <2>8. Clock >= TimeOf(i + 3) - WordGap + 2
    BY <1>1, <1>2, <2>3, <2>5, <2>6
  <2>9. Clock <= Start(i) + FrameLen - 1
    <3>1. i < 4 /\ Phase <= FrameLen - 1
      BY <1>1, <1>2, <2>2
    <3>2. Clock <= Start(i) + Phase
      BY <1>1, <3>1
    <3> QED
      BY <1>z, <2>7, <3>1, <3>2
  <2> QED
    BY <1>z, <2>7, <2>8, <2>9
<1>8. ASSUME Len(words) >= FifoWords, dataMux # NoWord, Phase \in 0 .. HeadLen + DataLen - 1 PROVE FALSE
  <2>1. Came + 1 <= SweepWords
    BY <1>8, CameIs DEF CameFacts
  <2>2. tx.stm \in Sending /\ i \in 0 .. 3
    BY <1>1, <1>2, <1>8
  <2>3. i \in 0 .. 1
    <3>1. i = 2 => WordsOf(i) = 2 * FrameWords
      BY WordsIs, <1>2
    <3> QED
      BY <1>1, <1>2, <1>3, <1>4, <1>8, <2>1, <2>2, <3>1
  <2>4. Clock = At(Came) + 1
    <3>1. 1 \in Nat /\ 1 >= 1
      OBVIOUS
    <3> QED
      BY <1>8, <3>1, ClockTells
  <2> DEFINE n == WordsOf(i + 2)
  <2>5. n = WordsOf(i) + 2 * FrameWords /\ n \in Nat /\ At(n) = TimeOf(i + 2)
    <3>1. i + 2 \in 0 .. 5 /\ i + 1 \in 0 .. 4 /\ i \in 0 .. 4 /\ (i + 1) + 1 = i + 2
      BY <2>3
    <3>2. WordsOf((i + 1) + 1) = WordsOf(i + 1) + FrameWords /\ WordsOf(i + 1) = WordsOf(i) + FrameWords
          /\ WordsOf(i + 2) \in Nat /\ At(WordsOf(i + 2)) = TimeOf(i + 2)
      BY <3>1, WordsIs
    <3> QED
      BY <3>1, <3>2, <1>2, <1>3
  <2> HIDE DEF n
  <2>6. Came >= n + d
    BY <1>1, <1>2, <1>3, <1>8, <2>5, SMTT(30)
  <2>7. At(n) + 4 * (Came - n) <= At(Came) /\ At(Came) \in Nat
    <3>1. n <= Came
      BY <1>1, <1>2, <2>5, <2>6
    <3> QED
      BY <1>1, <2>5, <3>1, AtIs
  <2>8. Phase <= HeadLen + Fetched /\ (Fetched > 0 => Phase <= HeadLen + Fetched - 1)
    <3>1. Phase < HeadLen + DataLen /\ Phase \in Int
      BY <1>2, <1>8
    <3> QED
      BY <3>1, FetchedIs DEF Fetched
  <2>9. Phase <= HeadLen + 4 * d + 2
    BY <1>1, <1>2, <2>8
  <2>10. Start(i) + HeadLen + 2 <= TimeOf(i + 2) /\ Start(i) \in Int /\ TimeOf(i + 2) \in Nat
    <3>1. i + 2 \in 0 .. 5 /\ i \in 0 .. 3
      BY <2>3
    <3> QED
      BY <2>3, <3>1, PaceAt, WordsIs
  <2>11. Clock >= TimeOf(i + 2) + 4 * d + 1
    BY <1>z, <2>4, <2>5, <2>6, <2>7, <2>10
  <2>12. Clock <= Start(i) + HeadLen + 4 * d + 2
    <3>1. i < 4
      BY <2>3
    <3> QED
      BY <1>1, <1>2, <2>9, <2>10, <3>1, SMTT(30)
  <2> QED
    BY <1>1, <1>2, <2>10, <2>11, <2>12, SMTT(30)
<1>9. ASSUME tx.rd_data PROVE Len(words) > 0 /\ Fetched < DataLen
  <2>1. /\ tx.stm \in Sending
        /\ Phase = HeadLen - 4 \/ (HeadLen <= Phase /\ Phase <= HeadLen + DataLen - 2)
    BY <1>9 DEF TxInv, TxGood, TxAsks, Phase
  <2>2. Fetched < DataLen
    BY <1>1, <2>1, FetchedNext DEF Fetched
  <2>3. d < FrameWords
    BY <1>1, <1>2, <2>2
  <2> QED
    BY <1>1, <1>2, <1>3, <2>1, <2>2, <2>3
<1>10. FifoWords \in Nat
  BY <1>2
<1>11. Len(words) < FifoWords \/ Len(words) >= FifoWords
  BY <1>1, <1>10
<1>12. Phase < 0 \/ Phase >= HeadLen + DataLen => Len(words) < FifoWords
  BY <1>6, <1>7, <1>11
<1>13. dataMux # NoWord => Len(words) < FifoWords
  <2>1. Phase < 0 \/ Phase >= HeadLen + DataLen \/ Phase \in 0 .. HeadLen + DataLen - 1
    BY <1>1, <1>2
  <2> QED
    BY <1>8, <1>11, <1>12, <2>1
<1> QED
  BY <1>9, <1>12, <1>13

\* The nibbles that were read when the edge is over.
ReadOn == IF tx.rd_data THEN Fetched + 1 ELSE Fetched

\* The words in the memory after an edge, and the nibbles that were read.
LEMMA Flow ==
  ASSUME TxInv, SourceInv, MemoryType, Streaming, InTime, NoInput \/ SweepWord
  PROVE  /\ words' \in Seq(Nat \X Nat) /\ Len(words') \in Nat /\ Len(words') <= FifoWords
         /\ part' \in 0 .. 3 /\ readCount' \in Nat /\ emptyWas' \in BOOLEAN
         /\ ReadOn \in 0 .. DataLen /\ part' = ReadOn % 4
         /\ Len(words') = Came' - (WordsOf(Index) + (ReadOn \div 4))
         /\ Phase < 0 \/ Phase >= HeadLen + DataLen =>
              /\ readCount' = 4 * (Len(words') - Fresh')
              /\ emptyWas' <=> readCount' = 0
<1> DEFINE i == Index
           d == Fetched \div 4
           L == Len(words)
           take == IF tx.rd_data /\ L > 0 /\ part = 3 THEN 1 ELSE 0
           put  == IF dataMux # NoWord /\ L < FifoWords THEN 1 ELSE 0
<1>1. /\ i \in 0 .. 4 /\ Phase \in Int /\ Fetched \in 0 .. DataLen
      /\ d \in 0 .. FrameWords /\ part \in 0 .. 3 /\ part = Fetched % 4
      /\ Fetched = 4 * d + part
      /\ L \in Nat /\ Came \in Nat /\ Came = L + WordsOf(i) + d
  BY InTimeIs DEF MemoryType
<1>2. /\ words' \in Seq(Nat \X Nat) /\ part' \in 0 .. 3 /\ readCount' \in Nat
      /\ emptyWas' \in BOOLEAN /\ (emptyWas' <=> L = 0)
      /\ Len(words') = L + put - take
      /\ part' = (IF tx.rd_data /\ L > 0 THEN (part + 1) % 4 ELSE part)
      /\ readCount' = (4 * L - part) % (4 * FifoWords)
  BY MemoryStep DEF Source
<1>3. /\ Phase < 0 \/ Phase >= HeadLen + DataLen => L < FifoWords
      /\ dataMux # NoWord => L < FifoWords
      /\ tx.rd_data => L > 0 /\ Fetched < DataLen
  BY Room
<1>4. /\ Fresh' = (IF dataMux = NoWord THEN 0 ELSE 1) /\ Came' = Came + Fresh' /\ Came' \in Nat
  BY CameStep DEF Source
<1>5. L <= FifoWords /\ WordsOf(i) \in Nat /\ FifoWords \in Nat /\ FifoWords >= 2
      /\ DataLen = 4 * FrameWords /\ FrameWords \in Nat /\ HeadLen \in Nat /\ HeadLen >= 8
  <2>1. i \in 0 .. 5
    BY <1>1
  <2>2. WordsOf(i) \in Nat
    BY <2>1, WordsIs
  <2>3. L <= FifoWords
    BY DEF MemoryType
  <2> QED
    BY <2>2, <2>3, Lengths
<1>z. /\ Phase \in Int /\ Fetched \in Nat /\ d \in Nat /\ part \in 0 .. 3 /\ L \in Nat /\ Came \in Nat
      /\ Fetched = 4 * d + part /\ Came = L + WordsOf(i) + d
  BY <1>1
<1>6. put = Fresh'
  BY <1>3, <1>4
<1>7. take = (IF tx.rd_data /\ part = 3 THEN 1 ELSE 0)
      /\ part' = (IF tx.rd_data THEN (part + 1) % 4 ELSE part)
  BY <1>2, <1>3
<1>t. take \in 0 .. 1 /\ put \in 0 .. 1 /\ (take = 1 => L > 0)
  OBVIOUS
<1>e. dataMux # NoWord <=> put = 1
  BY <1>3
<1> HIDE DEF i, L, put, take
<1>8. ReadOn \in 0 .. DataLen /\ part' = ReadOn % 4 /\ ReadOn \div 4 = d + take
  <2>1. CASE tx.rd_data
    <3>1. ReadOn = Fetched + 1 /\ Fetched < DataLen
      BY <1>3, <2>1 DEF ReadOn
    <3>2. /\ (Fetched + 1) \div 4 = (IF Fetched % 4 = 3 THEN Fetched \div 4 + 1 ELSE Fetched \div 4)
          /\ (Fetched + 1) % 4 = ((Fetched % 4) + 1) % 4
      BY <1>1, Quarters
    <3>3. ReadOn % 4 = (part + 1) % 4 /\ ReadOn \div 4 = (IF part = 3 THEN d + 1 ELSE d)
      BY <1>1, <3>1, <3>2
    <3>4. part' = (part + 1) % 4 /\ take = (IF part = 3 THEN 1 ELSE 0)
      BY <1>7, <2>1
    <3>5. ReadOn \in 0 .. DataLen
      BY <1>1, <1>5, <3>1
    <3> HIDE DEF d
    <3> QED
      BY <1>1, <3>3, <3>4, <3>5
  <2>2. CASE ~tx.rd_data
    <3>1. ReadOn = Fetched /\ take = 0 /\ part' = part
      BY <1>7, <2>2 DEF ReadOn
    <3> QED
      BY <1>1, <3>1
  <2> QED
    BY <2>1, <2>2
<1> HIDE DEF d
<1>9. Len(words') = Came' - (WordsOf(i) + (ReadOn \div 4)) /\ Len(words') \in Nat /\ Len(words') <= FifoWords
  <2>1. L + put <= FifoWords
    <3>1. CASE put = 1
      BY <1>1, <1>3, <1>5, <1>e, <3>1
    <3>2. CASE put = 0
      BY <1>1, <1>5, <3>2
    <3> QED
      BY <1>t, <3>1, <3>2
  <2>2. Came' = L + WordsOf(i) + d + put
    BY <1>1, <1>4, <1>6
  <2>3. L - take \in Nat
    BY <1>1, <1>t
  <2>4. Len(words') = L + put - take
    BY <1>2
  <2>5. ReadOn \div 4 = d + take
    BY <1>8
  <2>6. take \in Nat /\ put \in Nat
    BY <1>t
  <2> QED
    BY <1>z, <1>5, <2>1, <2>2, <2>3, <2>4, <2>5, <2>6
<1>10. ASSUME Phase < 0 \/ Phase >= HeadLen + DataLen
       PROVE readCount' = 4 * (Len(words') - Fresh') /\ (emptyWas' <=> readCount' = 0)
  <2>1. part = 0
    <3>1. Fetched = 0 \/ Fetched = DataLen
      <4>1. Phase <= HeadLen - 4 \/ Phase >= HeadLen + DataLen - 1
        BY <1>z, <1>5, <1>10
      <4> QED
        BY <1>z, <4>1, FetchedIs DEF Fetched
    <3> QED
      BY <1>z, <1>5, <3>1
  <2>2. ~tx.rd_data
    BY <1>1, <1>5, <1>10 DEF TxInv, TxGood, TxAsks, Phase
  <2>3. take = 0
    BY <1>7, <2>2
  <2>4. readCount' = 4 * L
    <3>1. L < FifoWords
      BY <1>3, <1>10
    <3>2. 4 * L - part = 4 * L /\ 4 * L \in Nat /\ 4 * FifoWords \in Nat /\ 4 * L < 4 * FifoWords
      BY <1>1, <1>5, <2>1, <3>1
    <3>3. \A a \in Nat, b \in Nat : a < b => a % b = a
      OBVIOUS
    <3> QED
      BY <1>2, <3>2, <3>3
  <2>5. L = Len(words') - Fresh'
    <3>1. Len(words') = L + put - take
      BY <1>2
    <3>2. Len(words') = L + put
      BY <1>z, <1>t, <2>3, <3>1
    <3>3. Len(words') - put = L
      BY <1>z, <1>t, <3>2
    <3> QED
      BY <1>6, <3>3
  <2> QED
    BY <1>1, <1>2, <2>4, <2>5
<1> QED
  BY <1>2, <1>8, <1>9, <1>10 DEF i

\* A sweep starts only when the one before has left, and the data frames are counted.
LEMMA SweepStarts ==
  ASSUME TxInv, SourceInv, MemoryType, Streaming, InTime, SweepStart
  PROVE  Index = 4 /\ tx.stm = "STARTING" /\ Len(words) = 0 /\ part = 0 /\ Fetched = 0
<1>1. /\ Index \in 0 .. 4 /\ Phase \in Int /\ Phase <= FrameLen - 1 /\ Clock \in Int
      /\ Index < 4 => Clock <= Start(Index) + Phase
      /\ Index = 4 => tx.stm = "STARTING"
      /\ tx.stm \notin Sending => Phase < 0
      /\ Fetched \in 0 .. DataLen /\ Fetched \div 4 \in 0 .. FrameWords
      /\ Fetched = 4 * (Fetched \div 4) + part
      /\ Came = Len(words) + WordsOf(Index) + (Fetched \div 4) /\ Len(words) \in Nat
      /\ Came <= SweepWords
  <2>1. Phase \in 0 .. FrameLen - 1 \/ Phase < 0
    BY InTimeIs
  <2>2. Phase \in Int
    BY InTimeIs
  <2>3. Phase <= FrameLen - 1
    BY <2>1, <2>2, Lengths
  <2> QED
    BY <2>2, <2>3, InTimeIs
<1>2. nextWord > SweepWords /\ since >= SweepGap /\ nextWord > 1 /\ since = SweepGap
      /\ nextWord = SweepWords + 1
  BY Gaps DEF SweepStart, SourceInv
<1>3. Clock = TimeOf(4) - WordGap + SweepGap
  <2>1. ClockFacts /\ SweepWords \in Nat /\ SweepWords >= 1
    BY ClockIs, Gaps
  <2>2. Clock = At(nextWord - 2) + SweepGap
    BY <2>1, <1>2 DEF ClockFacts
  <2>3. nextWord - 2 = SweepWords - 1 /\ SweepWords - 1 \in Nat /\ (SweepWords - 1) + 1 = SweepWords
    BY <1>2, <2>1
  <2>4. At(SweepWords) = At(SweepWords - 1) + WordGap /\ At(SweepWords - 1) \in Nat
    BY <2>3, AtIs
  <2>5. At(SweepWords) = TimeOf(4)
    BY WordsIs
  <2> QED
    BY <2>2, <2>3, <2>4, <2>5, Gaps
<1>4. Index = 4
  <2>1. ASSUME Index < 4 PROVE FALSE
    <3>1. Index \in 0 .. 3
      BY <1>1, <2>1
    <3>2. Start(Index) \in Int /\ Start(Index) + FrameLen <= TimeOf(4) - WordGap + SweepGap
      BY <3>1, PaceAt
    <3>3. TimeOf(4) \in Nat /\ WordGap \in Nat /\ SweepGap \in Nat /\ FrameLen \in Nat
      BY WordsIs, Gaps, Lengths
    <3> QED
      BY <1>1, <1>3, <2>1, <3>2, <3>3, SMTT(30)
  <2> QED
    BY <1>1, <2>1
<1>5. Fetched = 0 /\ Fetched \div 4 = 0
  <2>1. Phase < 0
    BY <1>1, <1>4 DEF Sending, Header, CrcStates
  <2>2. Fetched = 0
    BY <1>1, <2>1, FetchedIs, Lengths DEF Fetched
  <2> QED
    BY <1>1, <2>2
<1>6. WordsOf(Index) = SweepWords /\ SweepWords \in Nat
  BY <1>4, WordsIs, Gaps
<1>7. part = 0
  BY <1>1, <1>5 DEF MemoryType
<1> QED
  BY <1>1, <1>4, <1>5, <1>6, <1>7

LastNibble == tx.stm \in Sending /\ Phase = FrameLen - 1

\* A data frame counts when its last nibble has left.
LEMMA DoneStep ==
  ASSUME TxInv, TxInv', TxEvent, FrameInv, History, MemoryType, SourceInv,
         Streaming => Index \in 0 .. 4
  PROVE  /\ sentFrames' \in Nat
         /\ ~Streaming => sentFrames' = sentFrames
         /\ Streaming => Done \in Nat /\ Done' = Done + (IF LastNibble THEN 1 ELSE 0)
<1>1. sentFrames \in Nat /\ sweep \in 0 .. MaxSweeps /\ MaxSweeps \in Nat /\ Frames = 4
  BY Lengths DEF MemoryType, SourceInv, Frames
<1>2. sentFrames' = IF tx.dv /\ ~tx'.dv /\ frame[Len(frame)][1] = "crc" /\ sentFrames < Frames * MaxSweeps
                    THEN sentFrames + 1 ELSE sentFrames
  BY DEF History
<1>3. tx.dv => frame[Len(frame)] = tx.out
  BY DEF FrameInv
<1>4. /\ tx.stm = "WAITING" => ~tx.dv
      /\ tx.stm \in {"STARTING", "DELAYING"} /\ tx.dv => tx.out = <<"crc", 1, tx.crc>>
      /\ tx.stm = "WAITING_REQUEST" /\ tx.dv => tx.out = <<"zero">>
  BY DEF TxInv, TxGood, TxValid
<1>5. ASSUME tx.stm \in Resting, ~tx'.dv, Streaming
      PROVE  Done \in Nat /\ Done' = Done /\ sentFrames' \in Nat
  <2>1. Done' = sentFrames'
    BY <1>5, <1>1, <1>2 DEF Done
  <2>2. CASE tx.dv
    <3>1. tx.stm \in {"STARTING", "DELAYING"} /\ frame[Len(frame)][1] = "crc"
      BY <1>3, <1>4, <1>5, <2>2 DEF Resting
    <3>2. Done = sentFrames + 1
      BY <2>2, <3>1 DEF Done
    <3>3. sentFrames < Frames * MaxSweeps
      <4>1. Index \in 0 .. 4
        BY <1>5
      <4>2. Index = (sentFrames + 1) - 4 * (sweep - 1)
        BY <3>2 DEF Index
      <4> QED
        BY <1>1, <4>1, <4>2
    <3> QED
      BY <1>1, <1>2, <1>5, <2>1, <2>2, <3>1, <3>2, <3>3
  <2>3. CASE ~tx.dv
    BY <1>1, <1>2, <2>1, <2>3 DEF Done
  <2> QED
    BY <2>2, <2>3
<1>6. CASE SendsNibble
  <2>1. /\ tx.stm \in Sending /\ tx'.dv /\ Phase \in 0 .. FrameLen - 1
        /\ Phase < FrameLen - 1 => tx'.stm \in Sending
        /\ Phase = FrameLen - 1 => tx'.stm \in {"STARTING", "DELAYING"}
    BY <1>6 DEF SendsNibble, Nibbled
  <2>2. sentFrames' = sentFrames
    BY <1>2, <2>1
  <2>3. tx.stm \notin {"STARTING", "DELAYING"} /\ (tx'.stm \in Sending => tx'.stm \notin {"STARTING", "DELAYING"})
    BY <2>1 DEF Sending, Header, CrcStates
  <2>4. Done = sentFrames
    BY <1>1, <2>3 DEF Done
  <2>5. Streaming
    BY <2>1, StreamingIs DEF StreamingFacts
  <2>6. CASE Phase < FrameLen - 1
    BY <1>1, <2>1, <2>2, <2>3, <2>4, <2>5, <2>6, Lengths DEF Done, LastNibble
  <2>7. CASE Phase = FrameLen - 1
    BY <1>1, <2>1, <2>2, <2>3, <2>4, <2>5, <2>7 DEF Done, LastNibble
  <2> QED
    BY <2>1, <2>6, <2>7, Lengths
<1>7. CASE TellsNibble
  <2>1. tx'.dv /\ tx.stm \in Answering
    BY <1>7 DEF TellsNibble, Told
  <2>2. ~Streaming
    BY <2>1, StreamingIs DEF StreamingFacts
  <2> QED
    BY <1>1, <1>2, <2>1, <2>2
<1>8. CASE Listens(tx, tx', Answered')
  <2>1. tx.stm = "WAITING_REQUEST"
    BY <1>8 DEF Listens
  <2>2. ~Streaming
    BY <2>1, StreamingIs DEF StreamingFacts
  <2>3. tx.dv => frame[Len(frame)][1] # "crc"
    BY <1>3, <1>4, <2>1
  <2> QED
    BY <1>1, <1>2, <2>2, <2>3
<1>9. CASE Waits(tx, tx', Phase') \/ Delays(tx, tx')
  <2>1. tx.stm \in Resting /\ ~tx'.dv
    BY <1>9 DEF Waits, Delays, Resting
  <2>2. Streaming /\ ~LastNibble
    <3>1. tx.stm \notin Sending
      BY <2>1 DEF Sending, Header, CrcStates, Resting
    <3> QED
      BY <2>1, <3>1, StreamingIs DEF StreamingFacts, LastNibble
  <2>3. Done \in Nat /\ Done' = Done /\ sentFrames' \in Nat
    BY <1>5, <2>1, <2>2
  <2> QED
    BY <2>2, <2>3
<1> QED
  BY <1>6, <1>7, <1>8, <1>9 DEF TxEvent

\* Within a sweep, between two edges, the frames follow one another.
LEMMA InTimeStep ==
  ASSUME TxInv, TxInv', TxEvent, SourceInv, SourceInv', MemoryType, Streaming, InTime,
         NoInput \/ SweepWord, FrameInv, History
  PROVE  InTime' /\ MemoryType'
<1> DEFINE i == Index
           j == Index'
           p == Phase
           r == Phase'
<1>1. /\ i \in 0 .. 4 /\ p \in Int /\ Clock \in Int /\ Came \in Nat
      /\ p \in 0 .. FrameLen - 1 <=> tx.stm \in Sending
      /\ tx.stm \notin Sending => p < 0
      /\ tx.stm \in Sending => i \in 0 .. 3 /\ Came >= WordsOf(i + 1)
      /\ i = 4 => tx.stm = "STARTING"
      /\ tx.stm # "STARTING" => i \in 0 .. 3
      /\ i < 4 => Clock <= Start(i) + p
  BY InTimeIs
<1>2. /\ words' \in Seq(Nat \X Nat) /\ Len(words') \in Nat /\ Len(words') <= FifoWords
      /\ part' \in 0 .. 3 /\ readCount' \in Nat /\ emptyWas' \in BOOLEAN
      /\ ReadOn \in 0 .. DataLen /\ part' = ReadOn % 4
      /\ Len(words') = Came' - (WordsOf(i) + (ReadOn \div 4))
      /\ p < 0 \/ p >= HeadLen + DataLen =>
           readCount' = 4 * (Len(words') - Fresh') /\ (emptyWas' <=> readCount' = 0)
  BY Flow
<1>3. /\ Came' \in Nat /\ Came' <= SweepWords /\ Fresh' \in 0 .. 1 /\ Came' >= Came /\ sweep' = sweep
      /\ sweep \in Nat
  <2>1. /\ Came' \in Nat /\ Came' <= SweepWords /\ Fresh' = (IF dataMux = NoWord THEN 0 ELSE 1)
        /\ Came' = Came + Fresh' /\ sweep' = sweep
    BY CameStep DEF Source
  <2> QED
    BY <1>1, <2>1, Gaps DEF SourceInv
<1>4. Clock' \in Int /\ Clock' <= Clock + 1
  BY ClockStep DEF Source
<1>5. sentFrames' \in Nat /\ j = i + (IF LastNibble THEN 1 ELSE 0)
  <2>1. /\ sentFrames' \in Nat /\ Done \in Nat /\ Done' = Done + (IF LastNibble THEN 1 ELSE 0)
    BY <1>1, DoneStep
  <2> QED
    BY <1>3, <2>1 DEF Index
<1>6. MemoryType'
  BY <1>2, <1>5 DEF MemoryType
<1>7. /\ FrameLen = HeadLen + DataLen + 8 /\ HeadLen \in Nat /\ HeadLen >= 8 /\ DataLen \in Nat
      /\ DataLen = 4 * FrameWords /\ FrameWords \in Nat /\ FrameWords >= 1 /\ DelayMax \in Nat
      /\ WordGap \in Nat
  BY Lengths
<1>8. /\ tx.stm \in {"WAITING", "DELAYING"} => i = tx.frame_num
      /\ tx.stm \in Header => i = tx.frame_num
      /\ tx.stm \in Sending \ Header => i = tx.frame_num - 1
      /\ tx.stm = "STARTING" => i \in {0, 4}
  BY DEF InTime
<1>9. /\ TxGood(tx) /\ TxGood(tx') /\ p = PhaseOf(tx) /\ r = PhaseOf(tx')
  BY DEF TxInv, Phase
<1>10. tx.frame_num \in Nat /\ tx'.frame_num \in Nat /\ r \in Int /\ tx.delay_cnt \in Nat
  BY <1>9, PhaseRange
<1> HIDE DEF i, j, p, r
<1>11. CASE SendsNibble /\ p < FrameLen - 1
  <2>1. /\ tx.stm \in Sending /\ tx'.stm \in Sending /\ r = p + 1
        /\ tx'.frame_num = (IF p = HeadLen - 2 THEN tx.frame_num + 1 ELSE tx.frame_num)
    BY <1>11 DEF SendsNibble, Nibbled, p, r
  <2>2. j = i
    BY <1>1, <1>5, <1>7, <1>11 DEF LastNibble, p
  <2>3. Fetched' = ReadOn
    <3>1. tx.rd_data <=> p = HeadLen - 4 \/ (HeadLen <= p /\ p <= HeadLen + DataLen - 2)
      BY <1>9, <2>1 DEF TxGood, TxAsks
    <3>2. Fetched = FetchedAt(p) /\ Fetched' = FetchedAt(p + 1)
      BY <2>1 DEF Fetched, p, r
    <3>3. IF p = HeadLen - 4 \/ (HeadLen <= p /\ p <= HeadLen + DataLen - 2)
          THEN FetchedAt(p + 1) = FetchedAt(p) + 1 ELSE FetchedAt(p + 1) = FetchedAt(p)
      BY <1>1, FetchedNext
    <3> QED
      BY <3>1, <3>2, <3>3 DEF ReadOn
  <2>4. /\ tx.stm \in Header <=> p <= HeadLen - 2
        /\ tx'.stm \in Header <=> p + 1 <= HeadLen - 2
        /\ tx.stm \notin Resting /\ tx'.stm \notin Resting
    BY <1>9, <2>1, PhaseRange
  <2>5. /\ tx'.stm \in Header => j = tx'.frame_num
        /\ tx'.stm \in Sending \ Header => j = tx'.frame_num - 1
    BY <1>1, <1>7, <1>8, <1>10, <2>1, <2>2, <2>4
  <2>6. j < 4 => Clock' <= Start(j) + r
    <3>1. i \in 0 .. 3 /\ i < 4
      BY <1>1, <2>1
    <3>2. Start(i) \in Int
      BY <3>1, PaceAt
    <3> QED
      BY <1>1, <1>4, <2>1, <2>2, <3>1, <3>2
  <2>7. tx'.stm \notin {"WAITING", "DELAYING", "STARTING"}
    BY <2>4 DEF Resting
  <2>8. Len(words') = Came' - Taken' /\ part' = Fetched' % 4
    BY <1>2, <2>2, <2>3 DEF Taken, WordsOf, i, j
  <2>9. Came' >= (j + 1) * FrameWords
    <3>1. Came >= WordsOf(j + 1) /\ j + 1 \in 0 .. 5
      BY <1>1, <2>1, <2>2
    <3>2. WordsOf(j + 1) \in Nat
      BY <3>1, WordsIs
    <3> QED
      BY <1>1, <1>3, <3>1, <3>2 DEF WordsOf
  <2> QED
    BY <1>1, <1>6, <2>2, <2>5, <2>6, <2>7, <2>8, <2>9 DEF InTime, j, r
<1>12. CASE SendsNibble /\ p = FrameLen - 1
  <2>1. /\ tx.stm \in Sending /\ tx'.frame_num = tx.frame_num
        /\ IF tx.frame_num = 4 THEN tx'.stm = "STARTING"
           ELSE tx'.stm = "DELAYING" /\ tx'.delay_cnt = DelayMax
    <3>1. p # HeadLen - 2
      BY <1>7, <1>12
    <3> QED
      BY <1>12, <3>1 DEF SendsNibble, Nibbled, p, r
  <2>2. j = i + 1 /\ i \in 0 .. 3 /\ i = tx.frame_num - 1
    <3>1. tx.stm \notin Header
      <4>1. ~(p <= HeadLen - 2)
        BY <1>7, <1>12
      <4> QED
        BY <1>9, <2>1, <4>1, PhaseRange
    <3> QED
      BY <1>1, <1>5, <1>8, <1>12, <2>1, <3>1 DEF LastNibble, p
  <2>3. j \in 0 .. 4 /\ j = tx.frame_num
    BY <1>10, <2>2
  <2>4. r < 0 /\ (tx'.stm = "DELAYING" => r = 0 - DelayMax - 2)
    <3>1. tx'.stm = "STARTING" => r = -1
      BY <1>9, PhaseRange
    <3>2. tx'.stm = "DELAYING" => r = 0 - tx'.delay_cnt - 2
      BY <1>9, PhaseRange
    <3> QED
      BY <1>7, <2>1, <3>1, <3>2
  <2>5. ReadOn = DataLen /\ Fetched' = 0
    <3>1. ~tx.rd_data
      BY <1>7, <1>9, <1>12 DEF TxGood, TxAsks
    <3>2. Fetched = DataLen
      <4>1. p >= HeadLen + DataLen - 1
        BY <1>7, <1>12
      <4> QED
        BY <1>1, <4>1, FetchedIs DEF Fetched, p
    <3>3. Fetched' = 0
      <4>1. r <= HeadLen - 4
        BY <1>7, <1>10, <2>4
      <4> QED
        BY <1>10, <4>1, FetchedIs DEF Fetched, r
    <3> QED
      BY <3>1, <3>2, <3>3 DEF ReadOn
  <2>6. Len(words') = Came' - Taken' /\ part' = Fetched' % 4
    <3>1. ReadOn \div 4 = FrameWords /\ ReadOn % 4 = 0 /\ Fetched' \div 4 = 0 /\ Fetched' % 4 = 0
      BY <1>7, <2>5
    <3>2. WordsOf(j) = WordsOf(i) + FrameWords /\ WordsOf(j) \in Nat /\ WordsOf(i) \in Nat
      <4>1. i \in 0 .. 4 /\ j \in 0 .. 5 /\ i \in 0 .. 5
        BY <2>2, <2>3
      <4> QED
        BY <2>2, <4>1, WordsIs
    <3>3. Taken' = WordsOf(j) + (Fetched' \div 4)
      BY DEF Taken, WordsOf, j
    <3>4. Taken' = WordsOf(i) + FrameWords
      BY <1>7, <3>1, <3>2, <3>3
    <3> QED
      BY <1>2, <3>1, <3>4
  <2>7. j < 4 => Clock' <= Start(j) + r
    <3> SUFFICES ASSUME j < 4 PROVE Clock' <= Start(j) + r
      OBVIOUS
    <3>1. tx'.stm = "DELAYING" /\ r = 0 - DelayMax - 2
      BY <2>1, <2>3, <2>4
    <3>2. i \in 0 .. 2 /\ i < 4 /\ i \in 0 .. 3 /\ j \in 0 .. 3
      BY <2>2
    <3>3. Start(j) >= Start(i) + FrameLen + DelayMax + 2 /\ Start(i) \in Int /\ Start(j) \in Int
      BY <2>2, <3>2, PaceAt
    <3> QED
      BY <1>1, <1>4, <1>7, <1>12, <3>1, <3>2, <3>3
  <2>8. /\ tx'.stm \notin Sending /\ tx'.stm \notin Header /\ tx'.stm \in {"STARTING", "DELAYING"}
        /\ tx'.stm = "STARTING" => j = 4
        /\ tx'.stm = "DELAYING" => j = tx'.frame_num
    BY <2>1, <2>3 DEF Sending, Header, CrcStates
  <2>9. readCount' = 4 * (Len(words') - Fresh') /\ (emptyWas' <=> readCount' = 0)
    <3>1. p >= HeadLen + DataLen
      BY <1>7, <1>12
    <3> QED
      BY <1>2, <3>1
  <2> QED
    BY <1>6, <2>3, <2>6, <2>7, <2>8, <2>9 DEF InTime, j, r
<1>13. CASE Waits(tx, tx', Phase') \/ Delays(tx, tx')
  <2>1. /\ tx.stm \in Resting /\ tx.stm \notin Sending /\ p < 0
    <3>1. tx.stm \in Resting
      BY <1>13 DEF Waits, Delays, Resting
    <3> QED
      BY <1>1, <3>1 DEF Sending, Header, CrcStates, Resting
  <2>2. j = i
    BY <1>1, <1>5, <2>1 DEF LastNibble
  <2>3. ReadOn = 0
    <3>1. ~tx.rd_data
      BY <1>9, <2>1 DEF TxGood, TxAsks
    <3>2. p <= HeadLen - 4
      BY <1>1, <1>7, <2>1
    <3>3. Fetched = 0
      BY <1>1, <3>2, FetchedIs DEF Fetched, p
    <3> QED
      BY <3>1, <3>3 DEF ReadOn
  <2>4. readCount' = 4 * (Len(words') - Fresh') /\ (emptyWas' <=> readCount' = 0)
    BY <1>2, <2>1
  <2>5. ASSUME r <= 0 PROVE Len(words') = Came' - Taken' /\ part' = Fetched' % 4
    <3>1. Fetched' = 0
      <4>1. r <= HeadLen - 4
        BY <1>7, <1>10, <2>5
      <4> QED
        BY <1>10, <4>1, FetchedIs DEF Fetched, r
    <3> QED
      BY <1>2, <2>2, <2>3, <3>1 DEF Taken, WordsOf, i, j
  <2>6. CASE Delays(tx, tx')
    <3>1. /\ tx.stm = "DELAYING" /\ tx'.frame_num = tx.frame_num
          /\ IF tx.delay_cnt > 0 THEN tx'.stm = "DELAYING" /\ tx'.delay_cnt = tx.delay_cnt - 1
             ELSE tx'.stm = "WAITING"
      BY <2>6 DEF Delays
    <3>2. r = p + 1
      <4>1. p = 0 - tx.delay_cnt - 2
        BY <1>9, <3>1, PhaseRange
      <4>2. tx'.stm = "DELAYING" => r = 0 - tx'.delay_cnt - 2
        BY <1>9, PhaseRange
      <4>3. tx'.stm = "WAITING" => r = -1
        BY <1>9, PhaseRange
      <4> QED
        BY <1>10, <3>1, <4>1, <4>2, <4>3
    <3>3. i \in 0 .. 3 /\ i = tx.frame_num
      BY <1>1, <1>8, <3>1
    <3>4. j < 4 => Clock' <= Start(j) + r
      <4>1. Start(i) \in Int /\ i < 4
        BY <3>3, PaceAt
      <4> QED
        BY <1>1, <1>4, <2>2, <3>2, <4>1
    <3>5. tx'.stm \notin Sending /\ tx'.stm \notin Header /\ tx'.stm \in {"WAITING", "DELAYING"}
      BY <3>1 DEF Sending, Header, CrcStates
    <3>6. r <= 0
      BY <1>1, <2>1, <3>2
    <3> QED
      BY <1>6, <2>2, <2>4, <2>5, <3>1, <3>3, <3>4, <3>5, <3>6 DEF InTime, j, r
  <2>7. CASE Waits(tx, tx', Phase')
    <3>1. /\ tx.stm \in {"STARTING", "WAITING"}
          /\ tx'.frame_num = (IF tx.stm = "STARTING" THEN 0 ELSE tx.frame_num)
          /\ IF FrameReady THEN tx'.stm \in Sending /\ r = 0 ELSE tx'.stm = tx.stm
      BY <2>7 DEF Waits, r
    <3>2. p = -1
      BY <1>9, <3>1, PhaseRange
    <3>3. readCount = 4 * (Len(words) - Fresh) /\ (emptyWas <=> readCount = 0) /\ readCount \in Nat
          /\ Len(words) \in Nat /\ Came = Len(words) + WordsOf(i) + 0 /\ Fresh \in 0 .. 1
          /\ Came <= SweepWords
      <4>1. readCount = 4 * (Len(words) - Fresh) /\ (emptyWas <=> readCount = 0) /\ readCount \in Nat
        BY <3>1 DEF InTime, MemoryType
      <4>2. Fetched \div 4 = 0
        <5>1. Fetched = 0
          <6>1. p <= HeadLen - 4
            BY <1>7, <3>2
          <6> QED
            BY <1>1, <6>1, FetchedIs DEF Fetched, p
        <5> QED
          BY <5>1
      <4>3. Came = Len(words) + WordsOf(i) + (Fetched \div 4) /\ Len(words) \in Nat /\ Came <= SweepWords
        BY InTimeIs DEF i
      <4>4. Fresh \in 0 .. 1
        BY DEF Fresh
      <4> QED
        BY <4>1, <4>2, <4>3, <4>4
    <3>4. FrameReady <=> Len(words) - Fresh >= FrameWords
      <4>1. DATAFRAME_LEN * 2 = 4 * FrameWords
        BY Lengths
      <4>2. FrameReady <=> ~emptyWas /\ readCount >= 4 * FrameWords
        BY <4>1 DEF FrameReady
      <4> QED
        BY <1>7, <3>3, <4>2
    <3>5. WordsOf(i) \in Nat /\ (i = 4 => WordsOf(i) = SweepWords)
      <4>1. i \in 0 .. 5
        BY <1>1
      <4> QED
        BY <4>1, WordsIs
    <3>6. FrameReady => i \in 0 .. 3
      BY <1>1, <1>7, <3>3, <3>4, <3>5
    <3>7. ~FrameReady => r = -1 /\ tx'.stm = tx.stm
      <4>1. tx'.stm \in {"STARTING", "WAITING"} => r = -1
        BY <1>9, PhaseRange
      <4> QED
        BY <3>1, <4>1
    <3>8. tx.stm = "STARTING" /\ i < 4 => i = 0
      BY <1>8
    <3>9. CASE FrameReady
      <4>1. r = 0 /\ tx'.stm \in Sending /\ i \in 0 .. 3 /\ i < 4
        BY <3>1, <3>6, <3>9
      <4>2. tx'.stm \in Header /\ tx'.stm \notin Resting
        <5>1. 0 <= HeadLen - 2
          BY <1>7
        <5> QED
          BY <1>9, <4>1, <5>1, PhaseRange
      <4>3. i = tx'.frame_num
        BY <1>8, <3>1, <3>8, <4>1
      <4>4. Clock' <= Start(i) + r
        <5>1. Start(i) \in Int
          BY <4>1, PaceAt
        <5> QED
          BY <1>1, <1>4, <3>2, <4>1, <5>1
      <4>5. Came' >= (i + 1) * FrameWords
        <5>1. WordsOf(i + 1) = WordsOf(i) + FrameWords
          BY <4>1, WordsIs
        <5>2. Came >= WordsOf(i) + FrameWords
          BY <1>7, <3>3, <3>4, <3>5, <3>9
        <5>3. Came' >= WordsOf(i) + FrameWords
          BY <1>1, <1>3, <1>7, <3>5, <5>2
        <5> QED
          BY <5>1, <5>3 DEF WordsOf
      <4>6. tx'.stm \notin {"STARTING", "WAITING", "DELAYING"}
        BY <4>2 DEF Resting
      <4>7. r <= 0
        BY <4>1
      <4> QED
        BY <1>1, <1>6, <2>2, <2>5, <4>1, <4>2, <4>3, <4>4, <4>5, <4>6, <4>7 DEF InTime, j, r
    <3>10. CASE ~FrameReady
      <4>1. r = -1 /\ tx'.stm = tx.stm /\ r <= 0
        BY <3>7, <3>10
      <4>2. i < 4 => Clock' <= Start(i) + r
        <5> SUFFICES ASSUME i < 4 PROVE Clock' <= Start(i) + r
          OBVIOUS
        <5> DEFINE n == WordsOf(i + 1)
        <5>1. i \in 0 .. 3 /\ i \in 0 .. 4 /\ i + 1 \in 0 .. 5
          BY <1>1
        <5>2. n = WordsOf(i) + FrameWords /\ n \in Nat /\ At(n) = TimeOf(i + 1)
          BY <5>1, WordsIs
        <5> HIDE DEF n
        <5>3. n >= 1 /\ Came - Fresh < n /\ n <= SweepWords
          <6>1. n <= SweepWords
            <7>1. i = 3 \/ i = 2 \/ i = 1 \/ i = 0
              BY <5>1
            <7>2. WordsOf(4) = SweepWords /\ WordsOf(4) = WordsOf(3) + FrameWords
                  /\ WordsOf(3) = WordsOf(2) + FrameWords /\ WordsOf(2) = WordsOf(1) + FrameWords
                  /\ WordsOf(1) = WordsOf(0) + FrameWords /\ WordsOf(0) = 0
              <8>1. WordsOf(3 + 1) = WordsOf(3) + FrameWords
                    /\ WordsOf(2 + 1) = WordsOf(2) + FrameWords /\ WordsOf(1 + 1) = WordsOf(1) + FrameWords
                    /\ WordsOf(0 + 1) = WordsOf(0) + FrameWords
                BY WordsIs
              <8>2. 3 + 1 = 4 /\ 2 + 1 = 3 /\ 1 + 1 = 2 /\ 0 + 1 = 1
                OBVIOUS
              <8> QED
                BY <8>1, <8>2, WordsIs
            <7> QED
              BY <1>7, <5>2, <7>1, <7>2
          <6> QED
            BY <1>7, <3>3, <3>4, <3>5, <3>10, <5>2, <6>1
        <5>4. Clock <= At(n - 1) + 2
          BY <5>2, <5>3, ClockTells
        <5>5. At(n) = At(n - 1) + WordGap /\ At(n - 1) \in Nat
          <6>1. n - 1 \in Nat /\ (n - 1) + 1 = n
            BY <5>2, <5>3
          <6> QED
            BY <6>1, AtIs
        <5>6. Start(i) \in Int /\ Start(i) >= TimeOf(i + 1) - WordGap + 4 /\ TimeOf(i + 1) \in Nat
          BY <5>1, PaceAt, WordsIs
        <5> QED
          BY <1>1, <1>4, <1>7, <4>1, <5>2, <5>4, <5>5, <5>6
      <4>3. tx'.stm \notin Sending /\ tx'.stm \notin Header /\ tx'.stm # "DELAYING"
        BY <3>1, <4>1 DEF Sending, Header, CrcStates
      <4>4. tx'.stm = "WAITING" => i = tx'.frame_num
        BY <1>8, <3>1, <4>1
      <4>5. tx'.stm = "STARTING" => i \in {0, 4}
        BY <1>8, <4>1
      <4> QED
        BY <1>1, <1>6, <2>2, <2>4, <2>5, <4>1, <4>2, <4>3, <4>4, <4>5 DEF InTime, j, r
    <3> QED
      BY <3>9, <3>10
  <2> QED
    BY <1>13, <2>6, <2>7
<1>14. ~TellsNibble /\ ~Listens(tx, tx', Answered')
  BY StreamingIs DEF StreamingFacts, TellsNibble, Told, Listens
<1>15. SendsNibble => p < FrameLen - 1 \/ p = FrameLen - 1
  <2>1. SendsNibble => p \in 0 .. FrameLen - 1
    BY DEF SendsNibble, Nibbled, p
  <2> QED
    BY <1>7, <2>1
<1> QED
  BY <1>11, <1>12, <1>13, <1>14, <1>15 DEF TxEvent

-----------------------------------------------------------------------------
(***************************************************************************)
(* Before data is asked for, and when it is.                               *)
(***************************************************************************)
\* A sweep starts when the last frame of the one before has left.
LEMMA StartStep ==
  ASSUME TxInv, TxInv', TxEvent, SourceInv, SourceInv', MemoryType, Streaming, InTime, SweepStart,
         FrameInv, History
  PROVE  InTime' /\ MemoryType'
<1> DEFINE j == Index'
           r == Phase'
<1>1. Index = 4 /\ tx.stm = "STARTING" /\ Len(words) = 0 /\ part = 0 /\ Fetched = 0
  BY SweepStarts
<1>2. /\ Came' = 0 /\ dataMux = NoWord /\ sweep' = sweep + 1 /\ sweep \in Nat /\ Fresh \in 0 .. 1
      /\ Fresh' = 0 /\ Clock' \in Int /\ Clock' <= 0
  <2>1. sweep \in Nat
    BY Gaps DEF SourceInv
  <2> QED
    BY <2>1, CameStep, ClockStep DEF Source
<1>3. /\ words' \in Seq(Nat \X Nat) /\ Len(words') = 0 /\ part' = 0 /\ readCount' = 0 /\ emptyWas'
      /\ emptyWas' \in BOOLEAN
  <2>1. FifoWords \in Nat /\ FifoWords >= 1 /\ 0 % (4 * FifoWords) = 0
    BY Gaps
  <2>2. NoInput \/ Source
    BY DEF Source
  <2>3. /\ words' \in Seq(Nat \X Nat) /\ emptyWas' \in BOOLEAN /\ (emptyWas' <=> Len(words) = 0)
        /\ Len(words') = 0 /\ part' = part
    BY <1>1, <1>2, <2>2, MemoryStep
  <2>4. readCount' = (4 * Len(words) - part) % (4 * FifoWords)
    BY <2>2, MemoryStep
  <2>5. 4 * Len(words) - part = 0
    BY <1>1
  <2> QED
    BY <1>1, <2>1, <2>3, <2>4, <2>5
<1>4. ~FrameReady
  <2>1. readCount = 4 * (Len(words) - Fresh) /\ (emptyWas <=> readCount = 0) /\ readCount \in Nat
    BY <1>1 DEF InTime, MemoryType
  <2>2. readCount = 0
    BY <1>1, <1>2, <2>1
  <2> QED
    BY <2>1, <2>2 DEF FrameReady
<1>5. tx'.stm = "STARTING" /\ ~tx'.dv
  <2>1. ~TellsNibble /\ ~Listens(tx, tx', Answered') /\ ~SendsNibble /\ ~Delays(tx, tx')
    BY <1>1 DEF TellsNibble, Told, Listens, SendsNibble, Nibbled, Delays, Answering,
                Sending, Header, CrcStates
  <2> QED
    BY <1>1, <1>4, <2>1 DEF TxEvent, Waits
<1>6. sentFrames' \in Nat /\ j = 0
  <2>1. Done \in Nat /\ Done' = Done /\ sentFrames' \in Nat
    <3>1. ~LastNibble
      BY <1>1 DEF LastNibble, Sending, Header, CrcStates
    <3> QED
      BY <1>1, <3>1, DoneStep
  <2>2. Done - 4 * (sweep - 1) = 4 /\ j = Done' - 4 * ((sweep + 1) - 1)
    BY <1>1, <1>2 DEF Index
  <2> HIDE DEF j
  <2> QED
    BY <1>2, <2>1, <2>2
<1>7. r = -1
  BY <1>5, PhaseRange DEF TxInv, Phase
<1> HIDE DEF j, r
<1>8. Fetched' = 0 /\ Taken' = 0
  <2>1. r <= HeadLen - 4
    BY <1>7, Lengths
  <2>2. Fetched' = 0
    BY <1>7, <2>1, FetchedIs DEF Fetched, r
  <2>3. Taken' = j * FrameWords + (Fetched' \div 4)
    BY DEF Taken, j
  <2> QED
    BY <1>6, <2>2, <2>3, Gaps
<1>9. Clock' <= Start(j) + r
  <2>1. Start(0) \in Int /\ Start(0) >= 4
    BY PaceAt
  <2> QED
    BY <1>2, <1>6, <1>7, <2>1
<1>10. tx'.stm \notin Sending /\ tx'.stm \notin Header /\ tx'.stm \notin {"WAITING", "DELAYING"}
  BY <1>5 DEF Sending, Header, CrcStates
<1>11. Len(words') = Came' - Taken' /\ part' = Fetched' % 4 /\ Len(words') <= FifoWords
       /\ readCount' = 4 * (Len(words') - Fresh') /\ (emptyWas' <=> readCount' = 0)
  BY <1>2, <1>3, <1>8, Gaps
<1>12. MemoryType'
  BY <1>3, <1>6, <1>11 DEF MemoryType
<1>13. InTime'
  BY <1>5, <1>6, <1>9, <1>10, <1>11 DEF InTime, j, r
<1> QED
  BY <1>12, <1>13

\* Before data is asked for, the memory fills.
LEMMA FillStep ==
  ASSUME TxInv, SourceInv, MemoryType, ~Streaming, NotYet, NoInput \/ Source
  PROVE  /\ words' \in Seq(Nat \X Nat) /\ Len(words) \in Nat /\ Len(words') \in Nat
         /\ Len(words') <= FifoWords /\ part' = 0 /\ emptyWas' \in BOOLEAN /\ readCount' \in Nat
         /\ Fresh' \in 0 .. 1 /\ sweep \in Nat /\ sweep' \in Nat /\ Came \in Nat /\ Came' \in Nat
         /\ Clock \in Int /\ Clock' \in Int
         /\ Len(words') = (IF Len(words) < FifoWords THEN Len(words) + Fresh' ELSE Len(words))
         /\ Len(words) < FifoWords =>
              readCount' = 4 * Len(words) /\ (emptyWas' <=> Len(words) = 0)
         /\ sweep' = 0 => sweep = 0 /\ Len(words) = 0 /\ Len(words') = 0 /\ Came' = SweepWords
         /\ sweep = 0 /\ sweep' # 0 =>
              /\ sweep' = 1 /\ Len(words) = 0 /\ Len(words') = 0 /\ Came' = 0 /\ Clock' <= 0
         /\ sweep = 1 /\ sweep' = 1 => Came' = Came + Fresh' /\ Clock' <= Clock + 1
         /\ sweep' > 1 => sweep >= 1 /\ Len(words) = FifoWords
<1> DEFINE L == Len(words)
<1>1. /\ tx.stm \in {"WAITING_REQUEST"} \cup Answering /\ ~tx.rd_data
  <2>1. tx.stm \in {"WAITING_REQUEST"} \cup Answering
    BY StreamingIs DEF StreamingFacts
  <2>2. tx.stm \notin Sending
    BY <2>1, AnsweringIs DEF Sending, Header, CrcStates
  <2> QED
    BY <2>1, <2>2 DEF TxInv, TxGood, TxAsks
<1>2. /\ FifoWords \in Nat /\ FifoWords >= 2 /\ FifoWords < SweepWords /\ SweepWords \in Nat
      /\ SweepGap > 4 /\ SweepGap \in Nat
  BY Gaps
<1>3. /\ part = 0 /\ L <= FifoWords
      /\ sweep = 0 => words = <<>>
      /\ sweep = 1 => L = Came \/ L = FifoWords
      /\ sweep > 1 => L = FifoWords
  BY DEF NotYet, MemoryType
<1>4. /\ Came \in Nat /\ Came' \in Nat /\ Came <= SweepWords /\ Came' <= SweepWords
      /\ Fresh' \in 0 .. 1 /\ (Fresh' = 1 <=> dataMux # NoWord)
      /\ NoInput \/ SweepWord => Came' = Came + Fresh' /\ sweep' = sweep
      /\ SweepStart => Came' = 0 /\ Came = SweepWords /\ dataMux = NoWord /\ sweep' = sweep + 1
  BY CameStep
<1>5. /\ Clock \in Int /\ Clock' \in Int
      /\ NoInput \/ SweepWord => Clock' <= Clock + 1
      /\ SweepStart => Clock' <= 0
  BY ClockStep
<1>6. /\ words' \in Seq(Nat \X Nat) /\ part' = part /\ readCount' \in Nat
      /\ emptyWas' \in BOOLEAN /\ (emptyWas' <=> L = 0) /\ L \in Nat
      /\ Len(words') = L + (IF dataMux # NoWord /\ L < FifoWords THEN 1 ELSE 0)
      /\ readCount' = (4 * L - part) % (4 * FifoWords)
  <2>1. L + (IF dataMux # NoWord /\ L < FifoWords THEN 1 ELSE 0) - 0
        = L + (IF dataMux # NoWord /\ L < FifoWords THEN 1 ELSE 0)
    <3>1. L \in Nat
      BY LenProperties DEF MemoryType
    <3> QED
      BY <3>1
  <2> QED
    BY <1>1, <2>1, MemoryStep
<1>7. sweep = 0 => L = 0 /\ dataMux = NoWord /\ Came = SweepWords /\ ~SweepWord
  <2> SUFFICES ASSUME sweep = 0 PROVE L = 0 /\ dataMux = NoWord /\ Came = SweepWords /\ ~SweepWord
    OBVIOUS
  <2>1. nextWord = SweepWords + 1 /\ since = SweepGap
    BY DEF SourceInv
  <2>2. ~(nextWord <= SweepWords) /\ nextWord > 1 /\ since # 1
    BY <1>2, <2>1
  <2>3. dataMux = NoWord
    BY <2>2 DEF SourceInv
  <2>4. Came = SweepWords
    BY <1>2, <2>1, <2>3 DEF Came
  <2> QED
    BY <1>3, <2>2, <2>3, <2>4, LenProperties DEF SweepWord
<1>8. sweep \in Nat
  BY Gaps DEF SourceInv
<1> HIDE DEF L
<1>11. L \in Nat /\ (L < FifoWords \/ L = FifoWords)
  BY <1>2, <1>3, <1>6
<1>12. Len(words') = (IF L < FifoWords THEN L + Fresh' ELSE L)
  <2>1. CASE dataMux = NoWord
    <3>1. Fresh' = 0 /\ Len(words') = L + 0 /\ L + 0 = L
      BY <1>4, <1>6, <1>11, <2>1
    <3> QED
      BY <3>1
  <2>2. CASE dataMux # NoWord
    <3>1. Fresh' = 1 /\ Len(words') = L + (IF L < FifoWords THEN 1 ELSE 0) /\ L + 0 = L
      BY <1>4, <1>6, <1>11, <2>2
    <3> QED
      BY <1>11, <3>1
  <2> QED
    BY <2>1, <2>2
<1>13. Len(words') \in Nat /\ Len(words') <= FifoWords
  <2>1. Fresh' = 0 \/ Fresh' = 1
    BY <1>4
  <2>2. Len(words') = L \/ (Len(words') = L + 1 /\ L < FifoWords)
    BY <1>11, <1>12, <2>1
  <2>3. FifoWords \in Nat /\ L \in Nat
    BY <1>2, <1>11
  <2> QED
    BY <1>11, <2>2, <2>3
<1>9. CASE NoInput \/ SweepWord
  <2>2. L < FifoWords => readCount' = 4 * L
    <3> SUFFICES ASSUME L < FifoWords PROVE readCount' = 4 * L
      OBVIOUS
    <3>1. 4 * L - part = 4 * L /\ 4 * L \in 0 .. 4 * FifoWords - 1 /\ 4 * FifoWords \in Nat \ {0}
      BY <1>2, <1>3, <1>6
    <3>2. \A a \in Int, b \in Nat \ {0} : a \in 0 .. b - 1 => a % b = a
      OBVIOUS
    <3>3. 4 * L \in Int
      BY <1>6
    <3> HIDE DEF L
    <3> QED
      BY <1>6, <3>1, <3>2, <3>3
  <2>3. sweep = 0 => Len(words') = 0 /\ Came' = SweepWords
    <3> SUFFICES ASSUME sweep = 0 PROVE Len(words') = 0 /\ Came' = SweepWords
      OBVIOUS
    <3>1. L = 0 /\ dataMux = NoWord /\ Came = SweepWords /\ Fresh' = 0 /\ Came' = Came + Fresh'
      BY <1>4, <1>7, <1>9
    <3> QED
      BY <1>2, <1>12, <3>1
  <2>4. sweep' = sweep /\ Came' = Came + Fresh' /\ Clock' <= Clock + 1
    BY <1>4, <1>5, <1>9
  <2>6. sweep > 1 => L = FifoWords
    BY <1>3
  <2>7. sweep' > 1 => sweep >= 1
    BY <1>8, <2>4
  <2> HIDE DEF L
  <2> QED
    BY <1>3, <1>4, <1>5, <1>6, <1>8, <1>7, <1>12, <2>2, <2>3, <2>4, <1>13, <2>6, <2>7 DEF L
<1>10. CASE SweepStart
  <2>1. Came' = 0 /\ Came = SweepWords /\ dataMux = NoWord /\ sweep' = sweep + 1 /\ Fresh' = 0
        /\ Clock' <= 0
    BY <1>4, <1>5, <1>10
  <2>2. Len(words') = L /\ Len(words') = (IF L < FifoWords THEN L + Fresh' ELSE L)
    BY <1>6, <1>11, <1>12, <2>1
  <2>3. sweep # 0 => L = FifoWords /\ sweep' > 1
    BY <1>2, <1>3, <1>6, <1>8, <2>1
  <2>4. L < FifoWords => readCount' = 4 * L
    <3>1. L < FifoWords => L = 0
      BY <1>2, <1>7, <2>3
    <3>2. 0 % (4 * FifoWords) = 0
      BY <1>2
    <3> QED
      BY <1>3, <1>6, <3>1, <3>2
  <2>6. sweep = 0 => sweep' = 1 /\ Len(words') = 0
    BY <1>7, <2>1, <2>2
  <2>7. sweep = 1 => sweep' # 1
    BY <2>1
  <2>8. sweep' # 0 /\ (sweep' > 1 => sweep >= 1 /\ sweep # 0)
    BY <1>8, <2>1
  <2> QED
    BY <1>3, <1>4, <1>5, <1>6, <1>8, <1>7, <1>12, <2>1, <2>3, <2>4, <1>13, <2>6, <2>7, <2>8 DEF L
<1> QED
  BY <1>9, <1>10 DEF Source

\* A request for data that was accepted finds room in the memory.
LEMMA AskedIs ==
  ASSUME TxInv, SourceInv, RxInv, MemoryType, ~Streaming, NotYet, rx.new, rx.type = 1
  PROVE  /\ sweep <= 1 /\ Len(words) < FifoWords
         /\ sweep = 1 => Len(words) = Came /\ Clock <= At(Window) + 2 + (RequestGap - rx.left)
<1>1. /\ sweep <= 1
      /\ sweep = 1 => Len(words) = Came /\ Clock <= Window * WordGap + 2 + (RequestGap - rx.left)
      /\ sweep = 0 => words = <<>>
  BY DEF NotYet
<1>2. /\ Window \in Nat /\ RequestGap \in Nat /\ FifoWords \in Nat /\ FifoWords >= 2
      /\ FifoWords = 2 * FrameWords /\ WordGap \in Nat /\ FrameWords \in Nat /\ sweep \in Nat
  BY Lengths, Gaps DEF SourceInv
<1>3. rx.left \in 0 .. RequestGap /\ rx.left + 1 >= RequestGap
  BY DEF RxInv
<1>4. At(Window) = Window * WordGap /\ At(Window) \in Nat
  BY <1>2, AtIs DEF At
<1>5. CameFacts /\ ClockFacts
  BY CameIs, ClockIs
<1>6. ASSUME sweep = 1 PROVE Len(words) < FifoWords
  <2>1. Clock <= At(Window) + 3 /\ Clock \in Int /\ Came \in Nat /\ Len(words) = Came
    <3>1. Clock <= At(Window) + 2 + (RequestGap - rx.left) /\ Clock \in Int
      BY <1>1, <1>4, <1>5, <1>6 DEF ClockFacts
    <3>2. Came \in Nat /\ Len(words) = Came
      BY <1>1, <1>5, <1>6 DEF CameFacts
    <3> QED
      BY <1>2, <1>3, <1>4, <3>1, <3>2
  <2>2. At(FifoWords) = At(FifoWords - 1) + WordGap /\ At(FifoWords - 1) \in Nat
        /\ At(FifoWords) = 2 * FrameTime /\ FrameTime \in Nat
    <3>1. FifoWords - 1 \in Nat /\ (FifoWords - 1) + 1 = FifoWords
      BY <1>2
    <3> QED
      BY <1>2, <3>1, AtIs, PaceIs
  <2>3. Start(0) <= 2 * FrameTime - WordGap + 2 /\ Start(0) >= At(Window) + 5 /\ Start(0) \in Int
    BY PaceIs
  <2>4. Came >= FifoWords => Clock >= At(FifoWords - 1) + 2
    <3>1. FifoWords >= 1
      BY <1>2
    <3> QED
      BY <1>2, <3>1, ClockTells
  <2> QED
    BY <1>2, <1>4, <2>1, <2>2, <2>3, <2>4
<1>7. sweep = 0 => Len(words) < FifoWords
  BY <1>1, <1>2, LenProperties
<1>8. sweep = 0 \/ sweep = 1
  BY <1>1, <1>2
<1> QED
  BY <1>1, <1>4, <1>6, <1>7, <1>8

\* Data asked for finds at most Window words: the sweep is the first one.
LEMMA MayAsk ==
  ASSUME TxInv, SourceInv, MemoryType, ~Streaming, NotYet, Len(words) <= Window
  PROVE  /\ sweep <= 1 /\ Len(words) < FifoWords
         /\ sweep = 1 => Len(words) = Came /\ Clock <= At(Window) + 1
<1>1. /\ sweep = 1 => Len(words) = Came \/ Len(words) = FifoWords
      /\ sweep > 1 => Len(words) = FifoWords
  BY DEF NotYet
<1>2. /\ Window \in Nat /\ FifoWords \in Nat /\ Window < FifoWords /\ sweep \in Nat
      /\ FifoWords < SweepWords /\ SweepWords \in Nat /\ Len(words) \in Nat
  BY Lengths, Gaps, PaceIs, LenProperties DEF SourceInv, MemoryType
<1>3. Len(words) < FifoWords /\ sweep <= 1
  BY <1>1, <1>2
<1>4. sweep = 1 => Len(words) = Came
  BY <1>1, <1>2, <1>3
<1>5. sweep = 1 => Clock <= At(Window) + 1
  <2> SUFFICES ASSUME sweep = 1 PROVE Clock <= At(Window) + 1
    OBVIOUS
  <2> DEFINE n == Window + 1
  <2>1. n \in Nat /\ n >= 1 /\ n - 1 = Window /\ n <= SweepWords
    BY <1>2
  <2>2. Came < n
    BY <1>2, <1>4
  <2> HIDE DEF n
  <2>3. Clock <= At(n - 1) + 1
    BY <2>1, <2>2, ClockTells
  <2> QED
    BY <2>1, <2>3
<1> QED
  BY <1>3, <1>4, <1>5

\* The sweeps that fill the memory before data is asked for.
LEMMA NotYetStep ==
  ASSUME TxInv, TxInv', TxEvent, SourceInv, SourceInv', RxInv, MemoryType, ~Streaming, NotYet,
         NoInput \/ Source, Request, FrameInv, History
  PROVE  NotYet' /\ MemoryType'
<1>1. /\ words' \in Seq(Nat \X Nat) /\ Len(words) \in Nat /\ Len(words') \in Nat
      /\ Len(words') <= FifoWords /\ part' = 0 /\ emptyWas' \in BOOLEAN /\ readCount' \in Nat
      /\ Fresh' \in 0 .. 1 /\ sweep \in Nat /\ sweep' \in Nat /\ Came \in Nat /\ Came' \in Nat
      /\ Clock \in Int /\ Clock' \in Int
      /\ Len(words') = (IF Len(words) < FifoWords THEN Len(words) + Fresh' ELSE Len(words))
      /\ sweep' = 0 => sweep = 0 /\ Len(words) = 0 /\ Len(words') = 0 /\ Came' = SweepWords
      /\ sweep = 0 /\ sweep' # 0 =>
           /\ sweep' = 1 /\ Len(words) = 0 /\ Len(words') = 0 /\ Came' = 0 /\ Clock' <= 0
      /\ sweep = 1 /\ sweep' = 1 => Came' = Came + Fresh' /\ Clock' <= Clock + 1
      /\ sweep' > 1 => sweep >= 1 /\ Len(words) = FifoWords
  BY FillStep
<1>a. /\ sweep \in Nat /\ sweep' \in Nat /\ Came \in Nat /\ Came' \in Nat /\ Clock \in Int
      /\ Clock' \in Int /\ Len(words) \in Nat /\ Fresh' \in {0, 1}
      /\ Len(words) <= FifoWords
      /\ Len(words') = (IF Len(words) < FifoWords THEN Len(words) + Fresh' ELSE Len(words))
  BY <1>1 DEF MemoryType
<1>b. ASSUME sweep = 0, sweep' = 1 PROVE Len(words') = 0 /\ Came' = 0 /\ Clock' <= 0
  <2>1. sweep' # 0
    BY <1>b
  <2> QED
    BY <1>1, <1>b, <2>1
<1>c. ASSUME sweep = 1, sweep' = 1 PROVE Came' = Came + Fresh' /\ Clock' <= Clock + 1
  BY <1>1, <1>c
<1>2. sentFrames' = 0
  <2>1. sentFrames' = sentFrames
    BY DoneStep
  <2> QED
    BY <2>1 DEF NotYet
<1>3. MemoryType'
  BY <1>1, <1>2 DEF MemoryType
<1>4. sweep' = 0 => words' = <<>>
  BY <1>1, EmptySeq, LenProperties
<1>5. FifoWords \in Nat /\ Window \in Nat /\ RequestGap \in Nat /\ At(Window) \in Nat
  <2>1. FifoWords \in Nat /\ Window \in Nat /\ RequestGap \in Nat
    BY Lengths, Gaps
  <2> QED
    BY <2>1, AtIs
<1>6. sweep' = 1 => Len(words') = Came' \/ Len(words') = FifoWords
  <2> SUFFICES ASSUME sweep' = 1 PROVE Len(words') = Came' \/ Len(words') = FifoWords
    OBVIOUS
  <2>1. CASE sweep = 0
    BY <1>b, <2>1
  <2>2. CASE sweep # 0
    <3>1. sweep = 1
      <4>1. sweep' = sweep \/ sweep' = sweep + 1
        BY CameStep DEF Source
      <4> QED
        BY <1>a, <2>2, <4>1
    <3>2. Len(words) = Came \/ Len(words) = FifoWords
      BY <3>1 DEF NotYet
    <3>3. Came' = Came + Fresh'
      BY <1>c, <3>1
    <3> QED
      BY <1>5, <1>a, <3>2, <3>3
  <2> QED
    BY <2>1, <2>2
<1>7. sweep' > 1 => Len(words') = FifoWords
  BY <1>1, <1>5
<1>8. ASSUME rx'.new, rx'.type = 1
      PROVE  /\ sweep <= 1 /\ Len(words) < FifoWords /\ rx'.left \in Int
             /\ sweep = 1 => /\ Len(words) = Came
                             /\ Clock <= At(Window) + 1 + (RequestGap - rx'.left)
  <2>1. CASE rx' = (IF rx.left = 0 THEN NoRequest
                    ELSE [rx EXCEPT !.left = @ - 1, !.new = rx.left + 1 > RequestGap])
    <3>1. rx.left # 0
      <4>1. NoRequest.new = FALSE
        BY DEF NoRequest
      <4> QED
        BY <1>8, <2>1, <4>1
    <3>2. rx' = [rx EXCEPT !.left = rx.left - 1, !.new = rx.left + 1 > RequestGap]
      BY <2>1, <3>1
    <3>3. rx'.left = rx.left - 1 /\ rx.left + 1 > RequestGap /\ rx.type = 1
      BY <1>8, <3>2 DEF RxInv
    <3>4. rx.left = RequestGap /\ rx.new
      BY <1>5, <3>3 DEF RxInv
    <3>5. /\ sweep <= 1 /\ Len(words) < FifoWords
          /\ sweep = 1 => Len(words) = Came /\ Clock <= At(Window) + 2 + (RequestGap - rx.left)
      BY <3>3, <3>4, AskedIs
    <3> QED
      BY <1>1, <1>5, <3>3, <3>4, <3>5, SMTT(30)
  <2>2. CASE \E type \in {0, 1, 2} :
               /\ type = 1 => Len(words) <= Window
               /\ rx' = [new |-> TRUE, type |-> type, no |-> requests + 1, left |-> RequestGap]
    <3>1. Len(words) <= Window /\ rx'.left = RequestGap
      BY <1>8, <2>2
    <3>2. /\ sweep <= 1 /\ Len(words) < FifoWords
          /\ sweep = 1 => Len(words) = Came /\ Clock <= At(Window) + 1
      BY <3>1, MayAsk
    <3> QED
      BY <1>1, <1>5, <3>1, <3>2
  <2> QED
    BY <2>1, <2>2 DEF Request
<1>9. rx'.new /\ rx'.type = 1 =>
        /\ sweep' <= 1
        /\ sweep' = 1 => /\ Len(words') = Came'
                         /\ Clock' <= Window * WordGap + 2 + (RequestGap - rx'.left)
  <2> SUFFICES ASSUME rx'.new, rx'.type = 1
               PROVE  /\ sweep' <= 1
                      /\ sweep' = 1 => /\ Len(words') = Came'
                                       /\ Clock' <= At(Window) + 2 + (RequestGap - rx'.left)
    <3>1. At(Window) = Window * WordGap
      BY DEF At
    <3> QED
      BY <3>1
  <2>1. /\ sweep <= 1 /\ Len(words) < FifoWords /\ rx'.left \in Int
        /\ sweep = 1 => /\ Len(words) = Came
                        /\ Clock <= At(Window) + 1 + (RequestGap - rx'.left)
    BY <1>8
  <2>2. sweep' <= 1
    BY <1>1, <1>5, <2>1
  <2>3. ASSUME sweep' = 1, sweep = 1
        PROVE  Len(words') = Came' /\ Clock' <= At(Window) + 2 + (RequestGap - rx'.left)
    <3>1. Came' = Came + Fresh' /\ Clock' <= Clock + 1
      BY <1>c, <2>3
    <3>2. Len(words) = Came /\ Clock <= At(Window) + 1 + (RequestGap - rx'.left)
      BY <2>1, <2>3
    <3>3. Len(words') = Came'
      BY <1>a, <2>1, <3>1, <3>2
    <3> QED
      BY <1>5, <1>a, <2>1, <3>1, <3>2, <3>3, SMTT(30)
  <2>4. ASSUME sweep' = 1, sweep = 0
        PROVE  Len(words') = Came' /\ Clock' <= At(Window) + 2 + (RequestGap - rx'.left)
    <3>1. Len(words') = 0 /\ Came' = 0 /\ Clock' <= 0
      BY <1>b, <2>4
    <3>2. rx'.left <= RequestGap
      <4>1. RxInv'
        BY RxStep
      <4> QED
        BY <1>5, <4>1 DEF RxInv
    <3> QED
      BY <1>5, <1>a, <2>1, <3>1, <3>2, SMTT(30)
  <2>5. sweep = 0 \/ sweep = 1
    BY <1>1, <2>1
  <2> QED
    BY <2>2, <2>3, <2>4, <2>5
<1>10. part' = 0
  BY <1>1
<1> QED
  BY <1>2, <1>3, <1>4, <1>6, <1>7, <1>9, <1>10 DEF NotYet

\* The request for data finds the beginning of the first sweep in the memory, or nothing.
LEMMA AskStep ==
  ASSUME TxInv, TxInv', TxEvent, SourceInv, SourceInv', RxInv, MemoryType, ~Streaming, NotYet,
         NoInput \/ Source, FrameInv, History, Streaming'
  PROVE  InTime' /\ MemoryType'
<1> DEFINE j == Index'
           r == Phase'
<1>1. tx.stm = "WAITING_REQUEST" /\ rx.new /\ rx.type = 1 /\ tx'.stm = "STARTING" /\ ~tx'.dv
  <2>1. tx.stm \in {"WAITING_REQUEST"} \cup Answering
    BY StreamingIs DEF StreamingFacts
  <2>2. tx.stm \notin Sending \cup Resting
    BY <2>1, AnsweringIs DEF Sending, Header, CrcStates, Resting
  <2>3. ~SendsNibble /\ ~Waits(tx, tx', Phase') /\ ~Delays(tx, tx')
    BY <2>2 DEF SendsNibble, Nibbled, Waits, Delays, Resting
  <2>4. tx'.stm \notin {"WAITING_REQUEST"} \cup Answering
    BY StreamingNext DEF StreamingFacts
  <2>5. ~TellsNibble
    BY <2>4 DEF TellsNibble, Told
  <2> QED
    BY <2>3, <2>4, <2>5 DEF TxEvent, Listens
<1>2. /\ sweep <= 1 /\ Len(words) < FifoWords
      /\ sweep = 1 => Len(words) = Came /\ Clock <= At(Window) + 2 + (RequestGap - rx.left)
  BY <1>1, AskedIs
<1>3. /\ words' \in Seq(Nat \X Nat) /\ Len(words') <= FifoWords
      /\ part' = 0 /\ emptyWas' \in BOOLEAN /\ readCount' \in Nat
  BY FillStep
<1>4. /\ sweep \in Nat /\ sweep' \in Nat /\ Came \in Nat /\ Came' \in Nat /\ Clock \in Int
      /\ Clock' \in Int /\ Len(words) \in Nat /\ Len(words') \in Nat /\ Fresh' \in {0, 1}
      /\ Len(words') = Len(words) + Fresh'
      /\ readCount' = 4 * Len(words) /\ (emptyWas' <=> Len(words) = 0)
      /\ sweep' = 0 => sweep = 0 /\ Len(words') = 0 /\ Came' = SweepWords
  <2>1. Fresh' \in 0 .. 1
    BY FillStep
  <2> QED
    BY <1>2, <2>1, FillStep
<1>5. sweep' \in {0, 1}
  <2>1. sweep' > 1 => Len(words) = FifoWords
    BY FillStep
  <2>2. FifoWords \in Nat
    BY Gaps
  <2> QED
    BY <1>2, <1>4, <2>1, <2>2
<1>6. sentFrames' = 0 /\ j = 0 - 4 * (sweep' - 1)
  <2>1. sentFrames' = 0
    <3>1. sentFrames' = sentFrames
      BY DoneStep
    <3> QED
      BY <3>1 DEF NotYet
  <2>2. Done' = 0
    BY <1>1, <2>1 DEF Done
  <2> QED
    BY <2>1, <2>2 DEF Index
<1>7. (sweep' = 0 /\ j = 4) \/ (sweep' = 1 /\ j = 0)
  <2>1. CASE sweep' = 0
    BY <1>6, <2>1
  <2>2. CASE sweep' = 1
    BY <1>6, <2>2
  <2> QED
    BY <1>5, <2>1, <2>2
<1>8. r = -1
  BY <1>1, PhaseRange DEF TxInv, Phase
<1> HIDE DEF j, r
<1>9. Fetched' = 0
  <2>1. r <= HeadLen - 4
    BY <1>8, Lengths
  <2> QED
    BY <1>8, <2>1, FetchedIs DEF Fetched, r
<1>10. Taken' = WordsOf(j)
  <2>1. Taken' = WordsOf(j) + (Fetched' \div 4)
    BY DEF Taken, j, WordsOf
  <2>2. WordsOf(j) \in Nat
    <3>1. j \in 0 .. 5
      BY <1>7
    <3> QED
      BY <3>1, WordsIs
  <2> QED
    BY <1>9, <2>1, <2>2
<1>11. sweep' = 1 => Len(words') = Came'
  <2> SUFFICES ASSUME sweep' = 1 PROVE Len(words') = Came'
    OBVIOUS
  <2>1. CASE sweep = 1
    <3>1. Came' = Came + Fresh'
      BY <2>1, FillStep
    <3> QED
      BY <1>2, <1>4, <2>1, <3>1
  <2>2. CASE sweep = 0
    <3>1. sweep' # 0
      OBVIOUS
    <3> QED
      BY <2>2, <3>1, FillStep
  <2> QED
    BY <1>2, <1>4, <2>1, <2>2
<1>12. Len(words') = Came' - Taken'
  <2>1. CASE sweep' = 0
    <3>1. Taken' = SweepWords /\ SweepWords \in Nat
      BY <1>7, <1>10, <2>1, WordsIs, Gaps
    <3> QED
      BY <1>4, <2>1, <3>1
  <2>2. CASE sweep' = 1
    <3>1. Taken' = 0
      BY <1>7, <1>10, <2>2, WordsIs
    <3> QED
      BY <1>4, <1>11, <2>2, <3>1
  <2> QED
    BY <1>5, <2>1, <2>2
<1>13. j < 4 => Clock' <= Start(j) + r
  <2> SUFFICES ASSUME j < 4 PROVE Clock' <= Start(j) + r
    OBVIOUS
  <2>1. sweep' = 1 /\ j = 0
    BY <1>7
  <2>2. Start(0) \in Int /\ Start(0) >= At(Window) + 5 /\ Start(0) >= 4 /\ At(Window) \in Nat
    <3>1. Window \in Nat
      BY Lengths
    <3> QED
      BY <3>1, AtIs, PaceIs, PaceAt
  <2>3. CASE sweep = 1
    <3>1. Clock' <= Clock + 1
      BY <2>1, <2>3, FillStep
    <3>2. rx.left + 1 >= RequestGap /\ rx.left \in Int /\ RequestGap \in Int
      BY <1>1, Lengths DEF RxInv
    <3>3. Clock <= At(Window) + 2 + (RequestGap - rx.left)
      BY <1>2, <2>3
    <3>4. Clock <= At(Window) + 3 /\ Clock \in Int
      <4>1. RequestGap - rx.left <= 1 /\ RequestGap - rx.left \in Int
        BY <3>2
      <4>2. Clock \in Int
        BY <1>4
      <4> QED
        BY <2>2, <3>3, <4>1, <4>2
    <3>5. Clock' <= At(Window) + 4 /\ Clock' \in Int
      BY <1>4, <2>2, <3>1, <3>4, SMTT(30)
    <3>6. Clock' <= Start(0) - 1
      BY <2>2, <3>5
    <3> QED
      BY <1>8, <2>1, <2>2, <3>6
  <2>4. CASE sweep = 0
    <3>1. sweep' # 0
      BY <2>1
    <3>2. Clock' <= 0
      BY <2>4, <3>1, FillStep
    <3> QED
      BY <1>4, <1>8, <2>1, <2>2, <3>2
  <2> QED
    BY <1>2, <1>4, <2>3, <2>4
<1>14. /\ part' = Fetched' % 4 /\ readCount' = 4 * (Len(words') - Fresh')
       /\ emptyWas' <=> readCount' = 0
  BY <1>3, <1>4, <1>9
<1>15. MemoryType'
  BY <1>3, <1>4, <1>6 DEF MemoryType
<1>16. /\ tx'.stm \notin Sending /\ tx'.stm \notin Header /\ tx'.stm \notin {"WAITING", "DELAYING"}
       /\ j \in 0 .. 4 /\ j \in {0, 4}
  BY <1>1, <1>7 DEF Sending, Header, CrcStates
<1>17. InTime'
  BY <1>1, <1>12, <1>13, <1>14, <1>16 DEF InTime, j, r
<1> QED
  BY <1>15, <1>17

\* Where the transmitter goes from the answer or the wait for a request, and from a sweep.
LEMMA StreamingStep ==
  ASSUME TxInv, TxInv', TxEvent
  PROVE  Streaming => Streaming'
<1> SUFFICES ASSUME Streaming PROVE Streaming'
  OBVIOUS
<1>1. tx.stm \in Sending \cup Resting
  BY StreamingIs DEF StreamingFacts
<1>2. tx.stm \notin Answering /\ tx.stm # "WAITING_REQUEST"
  BY <1>1, AnsweringIs DEF Sending, Header, CrcStates, Resting
<1>3. ~TellsNibble /\ ~Listens(tx, tx', Answered')
  BY <1>2 DEF TellsNibble, Told, Listens
<1>4. Streaming' <=> tx'.stm \in Sending \cup Resting
  BY StreamingNext DEF StreamingFacts
<1>5. CASE SendsNibble
  <2>1. tx'.stm \in Sending \cup {"STARTING", "DELAYING"}
    <3>1. FrameLen \in Nat
      BY Lengths
    <3> QED
      BY <1>5, <3>1 DEF SendsNibble, Nibbled
  <2> QED
    BY <1>4, <2>1 DEF Resting
<1>6. CASE Waits(tx, tx', Phase') \/ Delays(tx, tx')
  <2>1. tx'.stm \in Sending \cup {"STARTING", "WAITING", "DELAYING"}
    BY <1>6 DEF Waits, Delays
  <2> QED
    BY <1>4, <2>1 DEF Resting
<1> QED
  BY <1>3, <1>5, <1>6 DEF TxEvent

\* The memory keeps pace with the sweeps.
LEMMA PaceStep ==
  ASSUME TxInv, TxInv', TxEvent, SourceInv, SourceInv', RxInv, PaceInv,
         NoInput \/ Source, Request, FrameInv, History
  PROVE  PaceInv'
<1>1. CASE Streaming
  <2>1. InTime /\ MemoryType
    BY <1>1 DEF PaceInv
  <2>2. InTime' /\ MemoryType'
    BY <1>1, <2>1, InTimeStep, StartStep DEF Source
  <2>3. Streaming'
    BY <1>1, StreamingStep
  <2> QED
    BY <2>2, <2>3 DEF PaceInv
<1>2. CASE ~Streaming
  <2>1. NotYet /\ MemoryType
    BY <1>2 DEF PaceInv
  <2>2. NotYet' /\ MemoryType'
    BY <1>2, <2>1, NotYetStep
  <2>3. Streaming' => InTime'
    BY <1>2, <2>1, AskStep
  <2> QED
    BY <2>2, <2>3 DEF PaceInv
<1> QED
  BY <1>1, <1>2

-----------------------------------------------------------------------------
(***************************************************************************)
(* The inductive invariant: the registers, the sweeps, the receiver, the   *)
(* frame on the wire and the pace.                                         *)
(***************************************************************************)
SenderInv == TxInv /\ SourceInv /\ RxInv /\ FrameInv /\ PaceInv

\* The invariant holds after the reset.
LEMMA InitSender == Init => SenderInv
<1> SUFFICES ASSUME Init PROVE SenderInv
  OBVIOUS
<1>1. /\ SweepWords \in Nat /\ SweepWords >= 4 /\ SweepGap \in Nat /\ SweepGap > 4
      /\ RequestGap \in Nat /\ RequestGap >= 1 /\ MaxSweeps \in Nat /\ FifoWords \in Nat
  <2>1. RequestGap >= 1
    BY Lengths, Paced DEF GapAssumption
  <2> QED
    BY <2>1, Gaps, Lengths
<1>2. /\ tx.stm = "WAITING_REQUEST" /\ tx.cnt_mac = 0 /\ tx.outrd_cnt = 0 /\ tx.read_cnt = 0
      /\ tx.frame_num = 0 /\ tx.delay_cnt = 0 /\ ~tx.rd_data /\ ~tx.rd_exp /\ ~tx.rd_direct /\ ~tx.dv
      /\ tx.rd_data \in BOOLEAN /\ tx.rd_exp \in BOOLEAN /\ tx.rd_direct \in BOOLEAN
      /\ tx.dv \in BOOLEAN /\ TxRecord(tx)
  BY DEF Init, TxRecord
<1>3. tx.stm \notin Sending /\ tx.stm \notin Header /\ tx.stm \notin Answering
  BY <1>2 DEF Sending, Header, CrcStates, Answering
<1>4. TxInv
  <2>1. TxType(tx)
    BY <1>2 DEF TxType
  <2>2. TxCounts(tx)
    BY <1>2, <1>3 DEF TxCounts
  <2>3. TxNumber(tx)
    BY <1>2, <1>3 DEF TxNumber
  <2>4. TxAsks(tx)
    BY <1>2, <1>3 DEF TxAsks
  <2>5. TxValid(tx)
    BY <1>2, <1>3 DEF TxValid
  <2> QED
    BY <2>1, <2>2, <2>3, <2>4, <2>5 DEF TxInv, TxGood
<1>5. SourceInv
  BY <1>1 DEF Init, SourceInv
<1>6. RxInv
  BY <1>1 DEF Init, RxInv, NoRequest
<1>7. FrameInv
  BY <1>2 DEF Init, FrameInv
<1>8. PaceInv
  <2>1. ~Streaming
    BY <1>2, StreamingIs DEF StreamingFacts
  <2>2. MemoryType
    BY <1>1 DEF Init, MemoryType
  <2>3. NotYet
    BY DEF Init, NotYet, NoRequest
  <2> QED
    BY <2>1, <2>2, <2>3 DEF PaceInv
<1> QED
  BY <1>4, <1>5, <1>6, <1>7, <1>8 DEF SenderInv

\* It does not depend on anything else.
LEMMA StutterSender == SenderInv /\ UNCHANGED vars => SenderInv'
  BY DEF vars, fifoVars, sideVars, sourceVars, SenderInv, TxInv, SourceInv, RxInv, FrameInv, PaceInv,
         MemoryType, NotYet, InTime, Streaming, Index, Done, Clock, Came, Fresh, Taken, Fetched, Phase

\* It is kept by every edge, and the edge is one of the five of the transmitter.
LEMMA NextSender ==
  ASSUME SenderInv, Next PROVE SenderInv' /\ TxEvent
<1>1. TxInv /\ SourceInv /\ RxInv /\ FrameInv /\ PaceInv
  BY DEF SenderInv
<1>2. Transmitter /\ (NoInput \/ Source) /\ Request /\ History
  BY DEF Next
<1>3. TxInv' /\ TxEvent
  BY <1>1, <1>2, TxStep
<1>4. SourceInv' /\ RxInv' /\ FrameInv'
  BY <1>1, <1>2, <1>3, SourceStep, RxStep, FrameStep
<1>5. PaceInv'
  BY <1>1, <1>2, <1>3, <1>4, PaceStep
<1> QED
  BY <1>3, <1>4, <1>5 DEF SenderInv

\* For all lengths and gaps that are paced: the registers are within their tables, every
\* word has its place in the memory in time, and each frame is read from its own words.
THEOREM SenderInvariant == Spec => []SenderInv
<1>1. Init => SenderInv
  BY InitSender
<1>2. SenderInv /\ [Next]_vars => SenderInv'
  BY NextSender, StutterSender
<1> QED
  BY <1>1, <1>2, PTL DEF Spec

-----------------------------------------------------------------------------
(***************************************************************************)
(* Frames are apart.                                                       *)
(***************************************************************************)
\* The count between the requests.
LEMMA RequestIs ==
  ASSUME RxInv, Request
  PROVE  /\ rx.left \in 0 .. RequestGap /\ RequestGap \in Nat /\ rx'.left \in 0 .. RequestGap
         /\ rx.new \in BOOLEAN /\ rx'.new \in BOOLEAN
         /\ rx.left > 0 => /\ rx'.left = rx.left - 1 /\ rx'.type = rx.type
                           /\ rx'.new => rx.left = RequestGap
         /\ rx.left = 0 => (rx'.new => rx'.left = RequestGap)
         /\ rx.left = RequestGap => rx.new
         /\ rx.new => rx.left + 1 >= RequestGap
<1>1. /\ rx.left \in 0 .. RequestGap /\ RequestGap \in Nat /\ rx'.left \in 0 .. RequestGap
      /\ rx.new \in BOOLEAN /\ rx'.new \in BOOLEAN /\ (rx.left = RequestGap => rx.new)
      /\ (rx.new => rx.left + 1 >= RequestGap)
  <2>1. RxInv'
    BY RxStep
  <2> QED
    BY <2>1, Lengths DEF RxInv
<1>2. CASE rx.left > 0
  <2>1. rx.left # 0
    BY <1>1, <1>2
  <2>2. rx' = [rx EXCEPT !.left = rx.left - 1, !.new = rx.left + 1 > RequestGap]
    BY <2>1 DEF Request
  <2>3. rx'.left = rx.left - 1 /\ rx'.type = rx.type /\ rx'.new = (rx.left + 1 > RequestGap)
    BY <2>2 DEF RxInv
  <2>4. rx'.new => rx.left = RequestGap
    <3>1. rx.left + 1 > RequestGap => rx.left = RequestGap
      BY <1>1
    <3> QED
      BY <2>3, <3>1
  <2> QED
    BY <1>1, <1>2, <2>3, <2>4
<1>3. CASE rx.left = 0
  <2>1. rx' = NoRequest \/ \E type \in {0, 1, 2} :
               rx' = [new |-> TRUE, type |-> type, no |-> requests + 1, left |-> RequestGap]
    BY <1>3 DEF Request
  <2>2. rx'.new => rx'.left = RequestGap
    BY <2>1 DEF NoRequest
  <2>3. ~(rx.left > 0)
    BY <1>3
  <2> QED
    BY <1>1, <2>2, <2>3
<1> QED
  BY <1>1, <1>2, <1>3

\* A frame is ready at the start of a sweep only when its words have come.
LEMMA ReadyIs ==
  ASSUME TxInv, SourceInv, MemoryType, Streaming, InTime, tx.stm = "STARTING", FrameReady
  PROVE  Index = 0 /\ Came >= FrameWords
<1>1. /\ readCount = 4 * (Len(words) - Fresh) /\ (emptyWas <=> readCount = 0) /\ readCount \in Nat
      /\ Index \in {0, 4}
  BY DEF InTime, MemoryType
<1>2. /\ FrameWords \in Nat /\ FrameWords >= 1 /\ DATAFRAME_LEN * 2 = 4 * FrameWords
      /\ SweepWords \in Nat
  BY Lengths, Gaps
<1>3. Fresh \in {0, 1}
  BY DEF Fresh
<1>4. /\ Came = Len(words) + WordsOf(Index) + (Fetched \div 4) /\ Len(words) \in Nat
      /\ Came \in Nat /\ Came <= SweepWords /\ Fetched \div 4 \in 0 .. FrameWords
  BY InTimeIs
<1>5. readCount >= 4 * FrameWords
  BY <1>2 DEF FrameReady
<1>6. Len(words) >= FrameWords
  BY <1>1, <1>2, <1>3, <1>4, <1>5
<1>7. WordsOf(0) = 0 /\ WordsOf(4) = SweepWords
  BY WordsIs
<1> QED
  BY <1>1, <1>2, <1>4, <1>6, <1>7

\* The pause since the last frame, state by state.
LEMMA IdleStep ==
  ASSUME SenderInv, SenderInv', TxEvent, NoInput \/ Source, Request, History, IdleInv
  PROVE  IdleInv'
<1>1. /\ TxInv /\ TxInv' /\ SourceInv /\ SourceInv' /\ RxInv /\ PaceInv /\ PaceInv' /\ FrameInv
      /\ TxGood(tx) /\ TxGood(tx')
  BY DEF SenderInv, TxInv
<1>2. /\ MinIdle \in Nat /\ DelayMax \in Nat /\ WordGap \in Nat /\ FrameTime \in Nat
      /\ MinIdle <= DelayMax + 2 /\ MinIdle <= FrameTime /\ AnswerLen + MinIdle <= RequestGap
      /\ AnswerLen \in Nat /\ AnswerLen >= 8
  <2>1. AnswerLen \in Nat /\ AnswerLen >= 8 /\ MinIdle \in Nat /\ DelayMax \in Nat
    BY Lengths
  <2> QED
    BY <2>1, Gaps, PaceIs, Paced DEF GapAssumption
<1>3. /\ idle \in 0 .. MinIdle /\ (tx.dv => idle = 0)
      /\ idle' = IF tx'.dv THEN 0 ELSE IF idle < MinIdle THEN idle + 1 ELSE idle
  BY DEF IdleInv, History
<1>4. idle' \in 0 .. MinIdle /\ (tx'.dv => idle' = 0)
      /\ (idle' < MinIdle /\ ~tx'.dv => idle < MinIdle /\ idle' = idle + 1)
  BY <1>2, <1>3
<1>5. /\ rx.left \in 0 .. RequestGap /\ RequestGap \in Nat /\ rx'.left \in 0 .. RequestGap
      /\ rx.left > 0 => /\ rx'.left = rx.left - 1 /\ rx'.type = rx.type
                        /\ rx'.new => rx.left = RequestGap
      /\ rx.left = 0 => (rx'.new => rx'.left = RequestGap)
      /\ rx.left = RequestGap => rx.new
  BY <1>1, RequestIs
<1>6. ASSUME tx.stm \in Sending \cup Resting
      PROVE  Streaming /\ Streaming' /\ InTime /\ InTime' /\ MemoryType /\ MemoryType'
             /\ tx'.stm \notin Answering /\ tx'.stm # "WAITING_REQUEST"
  <2>1. Streaming
    BY <1>6, StreamingIs DEF StreamingFacts
  <2>2. Streaming'
    BY <1>1, <2>1, StreamingStep
  <2>3. tx'.stm \in Sending \cup Resting
    BY <2>2, StreamingNext DEF StreamingFacts
  <2>4. tx'.stm \notin Answering /\ tx'.stm # "WAITING_REQUEST"
    BY <2>3, AnsweringIs DEF Sending, Header, CrcStates, Resting
  <2> QED
    BY <1>1, <2>1, <2>2, <2>4 DEF PaceInv
<1>7. CASE SendsNibble
  <2>1. /\ tx.stm \in Sending /\ tx'.dv /\ Phase \in 0 .. FrameLen - 1
        /\ tx'.stm \in Sending \/ tx'.stm \in {"STARTING", "DELAYING"}
        /\ tx'.stm = "DELAYING" => tx'.delay_cnt = DelayMax
    <3>1. FrameLen \in Nat
      BY Lengths
    <3>2. tx'.stm \in Sending => tx'.stm # "DELAYING"
      BY DEF Sending, Header, CrcStates
    <3> QED
      BY <1>7, <3>1, <3>2 DEF SendsNibble, Nibbled
  <2>2. idle' = 0
    BY <1>4, <2>1
  <2>3. tx'.stm \notin Answering /\ tx'.stm # "WAITING_REQUEST" /\ tx'.stm # "WAITING"
    BY <1>6, <2>1 DEF Sending, Header, CrcStates
  <2>4. tx'.stm = "DELAYING" => idle' >= DelayMax - tx'.delay_cnt
    BY <1>2, <2>1, <2>2
  <2>5. tx'.stm = "STARTING" => Index' # 0
    <3> SUFFICES ASSUME tx'.stm = "STARTING" PROVE Index' # 0
      OBVIOUS
    <3>1. InTime /\ InTime' /\ MemoryType /\ MemoryType' /\ Streaming
      BY <1>6, <2>1
    <3>2. Index \in 0 .. 3
      BY <1>1, <2>1, <3>1, InTimeIs
    <3>3. Phase = FrameLen - 1
      <4>1. Phase < FrameLen - 1 => tx'.stm \in Sending
        BY <1>7 DEF SendsNibble, Nibbled
      <4>2. tx'.stm \notin Sending
        BY DEF Sending, Header, CrcStates
      <4>3. FrameLen \in Nat
        BY Lengths
      <4> QED
        BY <2>1, <4>1, <4>2, <4>3
    <3>4. Done \in Nat /\ Done' = Done + 1
      <4>1. LastNibble
        BY <2>1, <3>3 DEF LastNibble
      <4>2. Index \in 0 .. 4
        BY <3>2
      <4> QED
        BY <1>1, <3>1, <4>1, <4>2, DoneStep
    <3>5. ~SweepStart
      <4>1. tx.stm # "STARTING"
        BY <2>1 DEF Sending, Header, CrcStates
      <4> QED
        BY <1>1, <3>1, <4>1, SweepStarts
    <3>6. sweep' = sweep /\ sweep \in Nat
      <4>1. NoInput \/ SweepWord
        BY <3>5 DEF Source
      <4> QED
        BY <1>1, <4>1, CameStep, Gaps DEF SourceInv
    <3> QED
      BY <3>2, <3>4, <3>6 DEF Index
  <2> QED
    BY <1>4, <2>1, <2>3, <2>4, <2>5 DEF IdleInv
<1>8. CASE TellsNibble
  <2> DEFINE a == Answered
  <2>1. /\ tx.stm \in Answering /\ tx'.dv /\ a \in 0 .. AnswerLen - 1
        /\ IF a < AnswerLen - 1 THEN tx'.stm \in Answering /\ Answered' = a + 1
           ELSE tx'.stm = "WAITING_REQUEST"
    BY <1>8 DEF TellsNibble, Told
  <2>2. rx.left + a = RequestGap - 1 /\ idle' = 0
    BY <1>4, <2>1 DEF IdleInv
  <2>3. tx'.stm \notin {"DELAYING", "WAITING", "STARTING"}
    BY <2>1, AnsweringIs
  <2> HIDE DEF a
  <2>4. CASE a < AnswerLen - 1
    <3>1. rx.left > 0 /\ rx.left # RequestGap
      BY <1>2, <1>5, <2>1, <2>2, <2>4
    <3>2. rx'.left + (a + 1) = RequestGap - 1 /\ ~rx'.new
      BY <1>2, <1>5, <2>1, <2>2, <3>1
    <3>3. tx'.stm # "WAITING_REQUEST" /\ Answered' = a + 1
      BY <2>1, <2>4, AnsweringIs
    <3> QED
      BY <1>4, <2>1, <2>3, <3>2, <3>3 DEF IdleInv
  <2>5. CASE ~(a < AnswerLen - 1)
    <3>1. tx'.stm = "WAITING_REQUEST" /\ rx.left = RequestGap - AnswerLen /\ rx.left >= MinIdle
          /\ rx.left # RequestGap
      BY <1>2, <1>5, <2>1, <2>2, <2>5
    <3>2. tx'.stm \notin Answering
      BY <3>1, AnsweringIs
    <3>3. idle' < MinIdle => idle' + rx'.left + 1 >= MinIdle /\ ~rx'.new
      BY <1>2, <1>5, <2>2, <3>1
    <3>4. rx'.new => rx'.left = RequestGap
      BY <1>5, <3>1
    <3> QED
      BY <1>4, <2>1, <2>3, <3>1, <3>2, <3>3, <3>4 DEF IdleInv
  <2> QED
    BY <2>4, <2>5
<1>9. CASE Listens(tx, tx', Answered')
  <2>1. /\ tx.stm = "WAITING_REQUEST" /\ ~tx'.dv
        /\ IF rx.new /\ rx.type = 0 THEN tx'.stm \in Answering /\ Answered' = 0
           ELSE IF rx.new /\ rx.type = 1 THEN tx'.stm = "STARTING"
           ELSE tx'.stm = "WAITING_REQUEST"
    BY <1>9 DEF Listens
  <2>2. /\ idle < MinIdle => idle + rx.left + 1 >= MinIdle /\ ~rx.new
        /\ rx.new /\ rx.type # 2 => rx.left = RequestGap
    BY <2>1 DEF IdleInv
  <2>3. CASE rx.new /\ rx.type \in {0, 1}
    <3>1. ~(idle' < MinIdle)
      BY <1>4, <2>1, <2>2, <2>3
    <3>2. tx'.stm # "WAITING_REQUEST" /\ (tx'.stm \in Answering => Answered' = 0)
      BY <2>1, <2>3, AnsweringIs DEF Answering
    <3>3. rx.left = RequestGap
      BY <2>2, <2>3
    <3>4. rx'.left = RequestGap - 1
      BY <1>2, <1>5, <3>3
    <3>5. tx'.stm \in Answering => rx'.left + Answered' = RequestGap - 1 /\ ~(Answered' > 0)
      <4>1. RequestGap - 1 + 0 = RequestGap - 1
        BY <1>5
      <4> SUFFICES ASSUME tx'.stm \in Answering
                   PROVE  rx'.left + Answered' = RequestGap - 1 /\ ~(Answered' > 0)
        OBVIOUS
      <4>2. Answered' = 0
        BY <3>2
      <4> QED
        BY <1>5, <3>4, <4>1, <4>2
    <3> QED
      BY <1>4, <3>1, <3>2, <3>5 DEF IdleInv
  <2>4. CASE ~(rx.new /\ rx.type \in {0, 1})
    <3>1. tx'.stm = "WAITING_REQUEST" /\ tx'.stm \notin Answering /\ tx'.stm \notin Sending
      <4>1. tx'.stm = "WAITING_REQUEST"
        BY <2>1, <2>4
      <4> QED
        BY <4>1, AnsweringIs DEF Sending, Header, CrcStates
    <3>2. idle' < MinIdle => idle' + rx'.left + 1 >= MinIdle /\ ~rx'.new
      <4> SUFFICES ASSUME idle' < MinIdle PROVE idle' + rx'.left + 1 >= MinIdle /\ ~rx'.new
        OBVIOUS
      <4>1. idle' = idle + 1 /\ idle < MinIdle /\ ~rx.new /\ idle + rx.left + 1 >= MinIdle
        BY <1>4, <2>1, <2>2
      <4>2. rx.left > 0 /\ rx.left # RequestGap
        BY <1>2, <1>3, <1>4, <1>5, <4>1
      <4> QED
        BY <1>2, <1>3, <1>5, <4>1, <4>2
    <3>3. rx'.new /\ rx'.type # 2 => rx'.left = RequestGap
      <4> SUFFICES ASSUME rx'.new, rx'.type # 2 PROVE rx'.left = RequestGap
        OBVIOUS
      <4>1. CASE rx.left = 0
        BY <1>5, <4>1
      <4>2. CASE rx.left > 0
        <5>1. rx.left = RequestGap /\ rx.new /\ rx.type # 2
          BY <1>5, <4>2
        <5>2. rx.type \in {0, 1, 2}
          BY <1>1 DEF RxInv
        <5> QED
          BY <2>4, <5>1, <5>2
      <4> QED
        BY <1>5, <4>1, <4>2
    <3> QED
      BY <1>4, <3>1, <3>2, <3>3 DEF IdleInv
  <2> QED
    BY <2>3, <2>4
<1>10. CASE Delays(tx, tx')
  <2>1. /\ tx.stm = "DELAYING" /\ ~tx'.dv
        /\ IF tx.delay_cnt > 0 THEN tx'.stm = "DELAYING" /\ tx'.delay_cnt = tx.delay_cnt - 1
           ELSE tx'.stm = "WAITING"
    BY <1>10 DEF Delays
  <2>2. tx.delay_cnt \in Nat /\ (idle < MinIdle => idle >= DelayMax - tx.delay_cnt)
    BY <1>1, <2>1, PhaseRange DEF IdleInv
  <2>3. /\ tx'.stm \in {"DELAYING", "WAITING"} /\ tx'.stm \notin Answering /\ tx'.stm \notin Sending
    <3>1. tx'.stm \in {"DELAYING", "WAITING"}
      BY <2>1
    <3> QED
      BY <3>1, AnsweringIs DEF Sending, Header, CrcStates
  <2>4. CASE tx.delay_cnt > 0
    <3>1. tx'.stm = "DELAYING" /\ tx'.delay_cnt = tx.delay_cnt - 1
      BY <2>1, <2>4
    <3>2. idle' < MinIdle => idle' >= DelayMax - tx'.delay_cnt
      BY <1>2, <1>3, <1>4, <2>1, <2>2, <3>1
    <3> QED
      BY <1>4, <2>3, <3>1, <3>2 DEF IdleInv
  <2>5. CASE ~(tx.delay_cnt > 0)
    <3>1. tx'.stm = "WAITING" /\ tx.delay_cnt = 0
      BY <2>1, <2>2, <2>5
    <3>2. idle' < MinIdle => idle' > DelayMax
      BY <1>2, <1>3, <1>4, <2>1, <2>2, <3>1
    <3> QED
      BY <1>4, <2>3, <3>1, <3>2 DEF IdleInv
  <2> QED
    BY <2>4, <2>5
<1>11. CASE Waits(tx, tx', Phase')
  <2>1. /\ tx.stm \in {"STARTING", "WAITING"} /\ ~tx'.dv
        /\ IF FrameReady THEN tx'.stm \in Sending ELSE tx'.stm = tx.stm
    BY <1>11 DEF Waits
  <2>2. Streaming /\ InTime /\ MemoryType /\ tx'.stm \notin Answering /\ tx'.stm # "WAITING_REQUEST"
    BY <1>6, <2>1 DEF Resting
  <2>3. Clock \in Int /\ Clock' \in Int
    <3>1. NoInput \/ Source
      OBVIOUS
    <3> QED
      BY <1>1, <3>1, ClockStep
  <2>4. CASE FrameReady
    <3>1. ~(idle' < MinIdle)
      <4>1. CASE tx.stm = "WAITING"
        <5>1. idle < MinIdle => idle > DelayMax
          BY <4>1 DEF IdleInv
        <5> QED
          BY <1>2, <1>3, <1>4, <2>1, <5>1
      <4>2. CASE tx.stm = "STARTING"
        <5>1. Index = 0 /\ Came >= FrameWords
          BY <1>1, <2>2, <2>4, <4>2, ReadyIs
        <5>2. idle < MinIdle => idle >= Clock + WordGap - 1
          BY <4>2, <5>1 DEF IdleInv
        <5>3. Clock >= At(FrameWords - 1) + 2
          BY <1>1, <5>1, ClockTells, Gaps
        <5>4. At(FrameWords - 1) + WordGap = FrameTime /\ At(FrameWords - 1) \in Nat
          <6>1. FrameWords - 1 \in Nat /\ (FrameWords - 1) + 1 = FrameWords
            BY Gaps
          <6> QED
            BY <6>1, AtIs, PaceIs
        <5> QED
          BY <1>2, <1>3, <1>4, <2>1, <2>3, <5>2, <5>3, <5>4
      <4> QED
        BY <2>1, <4>1, <4>2
    <3>2. tx'.stm \in Sending
      BY <2>1, <2>4
    <3> QED
      BY <1>4, <2>2, <3>1, <3>2 DEF IdleInv
  <2>5. CASE ~FrameReady
    <3>1. tx'.stm = tx.stm /\ tx'.stm \notin Sending /\ tx'.stm # "DELAYING"
      <4>1. tx'.stm = tx.stm
        BY <2>1, <2>5
      <4> QED
        BY <2>1, <4>1 DEF Sending, Header, CrcStates
    <3>2. tx'.stm = "WAITING" /\ idle' < MinIdle => idle' > DelayMax
      <4> SUFFICES ASSUME tx'.stm = "WAITING", idle' < MinIdle PROVE idle' > DelayMax
        OBVIOUS
      <4>1. idle' = idle + 1 /\ idle > DelayMax
        BY <1>4, <2>1, <3>1 DEF IdleInv
      <4> QED
        BY <1>2, <1>3, <4>1
    <3>3. tx'.stm = "STARTING" /\ Index' = 0 /\ idle' < MinIdle => idle' >= Clock' + WordGap - 1
      <4> SUFFICES ASSUME tx'.stm = "STARTING", Index' = 0, idle' < MinIdle
                   PROVE  idle' >= Clock' + WordGap - 1
        OBVIOUS
      <4>1. CASE SweepStart
        <5>1. Clock' = 1 - WordGap
          <6>1. nextWord' = 1 /\ since' = 1 /\ WordGap >= 4
            BY <4>1, Gaps DEF SweepStart
          <6> QED
            BY <1>2, <6>1 DEF Clock
        <5> QED
          BY <1>2, <1>4, <5>1
      <4>2. CASE NoInput \/ SweepWord
        <5>1. Clock' <= Clock + 1
          BY <1>1, <4>2, ClockStep DEF Source
        <5>2. Index = 0
          <6>1. ~LastNibble
            BY <3>1 DEF LastNibble
          <6>2. Index \in 0 .. 4
            BY <2>2 DEF InTime
          <6>3. Done \in Nat /\ Done' = Done
            BY <1>1, <2>2, <6>1, <6>2, DoneStep
          <6>4. sweep' = sweep /\ sweep \in Nat
            BY <1>1, <4>2, CameStep, Gaps DEF Source, SourceInv
          <6> QED
            BY <6>3, <6>4 DEF Index
        <5>3. idle' = idle + 1 /\ idle >= Clock + WordGap - 1
          BY <1>4, <2>1, <3>1, <5>2 DEF IdleInv
        <5>4. idle \in Int /\ WordGap \in Int
          BY <1>2, <1>3
        <5> DEFINE c == Clock
                   d == Clock'
                   g == WordGap
                   n == idle
        <5>5. c \in Int /\ d \in Int /\ g \in Int /\ n \in Int /\ d <= c + 1 /\ n >= c + g - 1
          BY <2>3, <5>1, <5>3, <5>4
        <5> HIDE DEF c, d, g, n
        <5>6. n + 1 >= d + g - 1
          BY <5>5
        <5> QED
          BY <5>3, <5>6 DEF d, g, n
      <4> QED
        BY <4>1, <4>2 DEF Source
    <3> QED
      BY <1>4, <2>2, <3>1, <3>2, <3>3 DEF IdleInv
  <2> QED
    BY <2>4, <2>5
<1> QED
  BY <1>7, <1>8, <1>9, <1>10, <1>11 DEF TxEvent

\* The pause when nothing happens.
LEMMA IdleStutter == IdleInv /\ UNCHANGED vars => IdleInv'
  BY DEF vars, fifoVars, sideVars, sourceVars, IdleInv, Index, Done, Clock, Answered

\* The pause after the reset.
LEMMA IdleInit == Init => IdleInv
<1> SUFFICES ASSUME Init PROVE IdleInv
  OBVIOUS
<1>1. /\ tx.stm = "WAITING_REQUEST" /\ ~tx.dv /\ idle = MinIdle /\ ~rx.new
  BY DEF Init, NoRequest
<1>2. MinIdle \in Nat
  BY Lengths
<1>3. tx.stm \notin Answering
  BY <1>1, AnsweringIs
<1> QED
  BY <1>1, <1>2, <1>3 DEF IdleInv

\* Two frames are never closer than Ethernet allows.
THEOREM SenderFramesApart == Spec => FramesApart
<1>1. Init => SenderInv /\ IdleInv
  BY InitSender, IdleInit
<1>2. SenderInv /\ IdleInv /\ [Next]_vars => SenderInv' /\ IdleInv'
  BY NextSender, StutterSender, IdleStep, IdleStutter DEF Next
<1>3. SenderInv /\ IdleInv /\ [Next]_vars => [~tx.dv /\ tx'.dv => idle >= MinIdle]_vars
  <2> SUFFICES ASSUME SenderInv, IdleInv, Next, ~tx.dv, tx'.dv PROVE idle >= MinIdle
    OBVIOUS
  <2>1. TxEvent
    BY NextSender
  <2>2. tx.stm \in Sending \cup Answering
    BY <2>1 DEF TxEvent, Listens, Waits, Delays, SendsNibble, Nibbled, TellsNibble, Told
  <2>3. idle \in 0 .. MinIdle /\ ~(idle < MinIdle) /\ MinIdle \in Nat
    BY <2>2, Lengths DEF IdleInv
  <2> QED
    BY <2>3
<1> QED
  BY <1>1, <1>2, <1>3, PTL DEF Spec, FramesApart

-----------------------------------------------------------------------------
(***************************************************************************)
(* What the memory holds and shows.                                        *)
(***************************************************************************)
\* Where the words of the memory are after an edge, and what its output shows.
LEMMA WordsStep ==
  ASSUME MemoryType, SourceInv, NoInput \/ Source,
         NEW take \in {0, 1}, tx.rd_data /\ Len(words) > 0 /\ part = 3 <=> take = 1
  PROVE  /\ \A k \in 1 .. Len(words') :
              words'[k] = IF k <= Len(words) - take THEN words[k + take] ELSE dataMux
         /\ q' = IF tx.rd_data /\ Len(words) > 0
                 THEN <<"nib", words[1][1], 4 * (words[1][2] - 1) + part + 1>> ELSE q
<1> DEFINE rest == IF Reads /\ part = 3 THEN Tail(words) ELSE words
           L == Len(words)
<1>1. \E word : DataFifo(word)
  BY DEF Source, NoInput, SweepStart, SweepWord
<1>2. /\ words' = IF Accept THEN Append(rest, dataMux) ELSE rest
      /\ q' = IF Reads THEN Nibble ELSE q
  BY <1>1 DEF DataFifo
<1>3. words \in Seq(Nat \X Nat) /\ L \in Nat /\ (words = <<>> <=> L = 0)
  BY EmptySeq, LenProperties DEF MemoryType
<1>4. Reads <=> tx.rd_data /\ L > 0
  BY <1>3 DEF Reads
<1>5. rest \in Seq(Nat \X Nat) /\ Len(rest) = L - take /\ Len(rest) \in Nat
      /\ \A k \in 1 .. Len(rest) : rest[k] = words[k + take]
  <2>1. CASE take = 1
    <3>1. rest = Tail(words) /\ words # <<>> /\ L > 0
      BY <1>3, <1>4, <2>1
    <3>2. /\ Tail(words) \in Seq(Nat \X Nat) /\ Len(Tail(words)) = L - 1
          /\ \A k \in 1 .. Len(Tail(words)) : Tail(words)[k] = words[k + 1]
      BY <1>3, <3>1, HeadTailProperties
    <3> HIDE DEF rest, L
    <3> QED
      BY <1>3, <2>1, <3>1, <3>2
  <2>2. CASE take = 0
    <3>1. rest = words
      BY <1>4, <2>2
    <3>2. L - 0 = L /\ \A k \in 1 .. L : k + 0 = k
      BY <1>3
    <3> HIDE DEF rest
    <3> QED
      BY <1>3, <2>2, <3>1, <3>2
  <2> QED
    BY <2>1, <2>2
<1>6. dataMux # NoWord => dataMux \in Nat \X Nat
  <2>1. sweep \in Nat /\ nextWord - 1 \in Nat
    BY Gaps DEF SourceInv
  <2> QED
    BY <2>1 DEF SourceInv
<1> HIDE DEF rest, L
<1>7. ASSUME NEW k \in 1 .. Len(words')
      PROVE  words'[k] = IF k <= L - take THEN words[k + take] ELSE dataMux
  <2>1. CASE Accept
    <3>1. words' = Append(rest, dataMux) /\ dataMux \in Nat \X Nat
      BY <1>2, <1>6, <2>1 DEF Accept
    <3>2. /\ Len(words') = Len(rest) + 1 /\ words'[Len(rest) + 1] = dataMux
          /\ \A m \in 1 .. Len(rest) : words'[m] = rest[m]
      BY <1>5, <3>1, AppendProperties
    <3>3. k \in 1 .. Len(rest) \/ k = Len(rest) + 1
      BY <1>5, <3>2
    <3>4. CASE k \in 1 .. Len(rest)
      <4>1. words'[k] = words[k + take] /\ k <= L - take
        BY <1>5, <3>2, <3>4
      <4> QED
        BY <4>1
    <3>5. CASE k = Len(rest) + 1
      <4>1. words'[k] = dataMux /\ ~(k <= L - take)
        BY <1>3, <1>5, <3>2, <3>5
      <4> QED
        BY <4>1
    <3> QED
      BY <3>3, <3>4, <3>5
  <2>2. CASE ~Accept
    <3>1. words' = rest
      BY <1>2, <2>2
    <3>2. words'[k] = words[k + take] /\ k <= L - take
      BY <1>5, <3>1
    <3> QED
      BY <3>2
  <2> QED
    BY <2>1, <2>2
<1>8. q' = IF tx.rd_data /\ L > 0
           THEN <<"nib", words[1][1], 4 * (words[1][2] - 1) + part + 1>> ELSE q
  <2>1. Head(words) = words[1]
    OBVIOUS
  <2> QED
    BY <1>2, <1>4, <2>1 DEF Nibble
<1> QED
  BY <1>7, <1>8 DEF L

\* The sweep and the frame after an edge.
LEMMA Indices ==
  ASSUME SenderInv, SenderInv', TxEvent, NoInput \/ Source, History, Streaming
  PROVE  /\ Streaming' /\ InTime /\ InTime' /\ Index \in 0 .. 4 /\ Index' \in 0 .. 4
         /\ sweep \in Nat /\ sweep' \in Nat /\ Done \in Nat /\ Done' \in Nat
         /\ Index < 4 => sweep >= 1
         /\ SweepStart => /\ tx.stm = "STARTING" /\ tx'.stm = "STARTING" /\ ~tx'.dv
                          /\ Index = 4 /\ Index' = 0 /\ sweep' = sweep + 1 /\ Len(words) = 0
         /\ ~SweepStart => sweep' = sweep /\ Index' = Index + (IF LastNibble THEN 1 ELSE 0)
<1>1. /\ TxInv /\ TxInv' /\ SourceInv /\ SourceInv' /\ FrameInv /\ MemoryType /\ MemoryType'
      /\ InTime /\ Streaming' /\ InTime'
  BY StreamingStep DEF SenderInv, PaceInv
<1>2. Index \in 0 .. 4 /\ Index' \in 0 .. 4
  BY <1>1 DEF InTime
<1>3. Done \in Nat /\ Done' = Done + (IF LastNibble THEN 1 ELSE 0) /\ Done' \in Nat
  <2>1. Done \in Nat /\ Done' = Done + (IF LastNibble THEN 1 ELSE 0)
    BY <1>1, <1>2, DoneStep
  <2> QED
    BY <2>1
<1>4. sweep \in Nat /\ sweep' \in Nat
  <2>1. MaxSweeps \in Nat
    BY Lengths
  <2> QED
    BY <1>1, <2>1 DEF SourceInv
<1>5. Index < 4 => sweep >= 1
  <2>1. Index = Done - 4 * (sweep - 1)
    BY DEF Index
  <2> QED
    BY <1>3, <1>4, <2>1
<1>6. ASSUME SweepStart
      PROVE  /\ tx.stm = "STARTING" /\ tx'.stm = "STARTING" /\ ~tx'.dv
             /\ Index = 4 /\ Index' = 0 /\ sweep' = sweep + 1 /\ Len(words) = 0
  <2>1. Index = 4 /\ tx.stm = "STARTING" /\ Len(words) = 0
    BY <1>1, <1>6, SweepStarts
  <2>2. ~FrameReady
    BY <1>1, <2>1, ReadyIs
  <2>3. ~TellsNibble /\ ~Listens(tx, tx', Answered') /\ ~SendsNibble /\ ~Delays(tx, tx')
    BY <2>1 DEF TellsNibble, Told, Listens, SendsNibble, Nibbled, Delays, Answering,
                Sending, Header, CrcStates
  <2>4. tx'.stm = "STARTING" /\ ~tx'.dv
    BY <2>1, <2>2, <2>3 DEF TxEvent, Waits
  <2>5. ~LastNibble
    BY <2>1 DEF LastNibble, Sending, Header, CrcStates
  <2>6. sweep' = sweep + 1
    BY <1>6 DEF SweepStart
  <2>7. Index' = 0
    <3>1. Index = Done - 4 * (sweep - 1) /\ Index' = Done' - 4 * (sweep' - 1)
      BY DEF Index
    <3> QED
      BY <1>3, <1>4, <2>1, <2>5, <2>6, <3>1
  <2> QED
    BY <2>1, <2>4, <2>6, <2>7
<1>7. ASSUME ~SweepStart
      PROVE  sweep' = sweep /\ Index' = Index + (IF LastNibble THEN 1 ELSE 0)
  <2>1. sweep' = sweep
    BY <1>1, <1>7, CameStep DEF Source
  <2>2. Index = Done - 4 * (sweep - 1) /\ Index' = Done' - 4 * (sweep - 1)
    BY <2>1 DEF Index
  <2> QED
    BY <1>3, <1>4, <2>1, <2>2
<1> QED
  BY <1>1, <1>2, <1>3, <1>4, <1>5, <1>6, <1>7

\* Whether the transmitter is within a data frame after an edge.
LEMMA Sends ==
  ASSUME TxInv, TxInv', TxEvent, Streaming, tx'.stm \in Sending
  PROVE  \/ SendsNibble /\ Phase < FrameLen - 1 /\ Phase' = Phase + 1
         \/ Waits(tx, tx', Phase') /\ Phase' = 0 /\ FrameReady
<1>1. ~TellsNibble /\ ~Listens(tx, tx', Answered')
  BY StreamingIs DEF StreamingFacts, TellsNibble, Told, Listens
<1>2. tx'.stm \notin {"STARTING", "WAITING", "DELAYING"}
  BY DEF Sending, Header, CrcStates
<1>3. ~Delays(tx, tx')
  BY <1>2 DEF Delays
<1>4. CASE SendsNibble
  <2>1. FrameLen \in Nat
    BY Lengths
  <2> QED
    BY <1>2, <1>4, <2>1 DEF SendsNibble, Nibbled
<1>5. CASE Waits(tx, tx', Phase')
  <2>1. Phase' = 0 /\ FrameReady
    BY <1>2, <1>5 DEF Waits
  <2> QED
    BY <1>5, <2>1
<1> QED
  BY <1>1, <1>3, <1>4, <1>5 DEF TxEvent

\* How the transmitter starts to stream.
LEMMA Asks ==
  ASSUME TxInv, TxInv', TxEvent, ~Streaming, Streaming'
  PROVE  tx.stm = "WAITING_REQUEST" /\ rx.new /\ rx.type = 1 /\ tx'.stm = "STARTING" /\ ~tx'.dv
<1>1. tx.stm \in {"WAITING_REQUEST"} \cup Answering
  BY StreamingIs DEF StreamingFacts
<1>2. tx.stm \notin Sending \cup Resting
  BY <1>1, AnsweringIs DEF Sending, Header, CrcStates, Resting
<1>3. ~SendsNibble /\ ~Waits(tx, tx', Phase') /\ ~Delays(tx, tx')
  BY <1>2 DEF SendsNibble, Nibbled, Waits, Delays, Resting
<1>4. tx'.stm \notin {"WAITING_REQUEST"} \cup Answering
  BY StreamingNext DEF StreamingFacts
<1>5. ~TellsNibble
  BY <1>4 DEF TellsNibble, Told
<1> QED
  BY <1>3, <1>4, <1>5 DEF TxEvent, Listens

\* The memory holds the next words of the sweep, and its output the last nibble read.
LEMMA ContentsStep ==
  ASSUME SenderInv, SenderInv', TxEvent, NoInput \/ Source, History, Contents
  PROVE  Contents'
<1>1. /\ TxInv /\ TxInv' /\ SourceInv /\ SourceInv' /\ RxInv /\ PaceInv /\ PaceInv' /\ FrameInv
      /\ MemoryType /\ MemoryType'
  BY DEF SenderInv, PaceInv
<1> DEFINE L == Len(words)
           M == Len(words')
           take == IF tx.rd_data /\ L > 0 /\ part = 3 THEN 1 ELSE 0
           put == IF dataMux # NoWord /\ L < FifoWords THEN 1 ELSE 0
<1>2. /\ take \in {0, 1} /\ (tx.rd_data /\ L > 0 /\ part = 3 <=> take = 1) /\ put \in {0, 1}
      /\ put = 1 <=> dataMux # NoWord /\ L < FifoWords
  OBVIOUS
<1>3. L \in Nat /\ M = L + put - take
  BY <1>1, MemoryStep
<1>4. M \in Nat
  BY <1>1, LenProperties DEF MemoryType
<1> HIDE DEF L, M, take, put
<1>5. /\ \A k \in 1 .. M : words'[k] = IF k <= L - take THEN words[k + take] ELSE dataMux
      /\ q' = IF tx.rd_data /\ L > 0
              THEN <<"nib", words[1][1], 4 * (words[1][2] - 1) + part + 1>> ELSE q
  BY <1>1, <1>2, WordsStep DEF L, M
<1>6. CameFacts /\ sweep \in Nat
  BY <1>1, CameIs, Gaps DEF SourceInv
<1>7. CASE Streaming
  <2>1. Streaming' /\ InTime /\ InTime'
    BY <1>1, <1>7, StreamingStep DEF PaceInv
  <2>2. /\ Index \in 0 .. 4 /\ Fetched \in 0 .. DataLen
        /\ Fetched \div 4 \in 0 .. FrameWords /\ part = Fetched % 4
        /\ Fetched = 4 * (Fetched \div 4) + part
        /\ Came \in Nat /\ Came = L + WordsOf(Index) + (Fetched \div 4)
    BY <1>1, <1>7, <2>1, InTimeIs DEF L
  <2>3. L = Came - Taken /\ M = Came' - Taken'
    BY <2>1 DEF InTime, L, M
  <2>4. Taken \in Nat /\ Taken = WordsOf(Index) + (Fetched \div 4)
    <3>1. WordsOf(Index) \in Nat
      <4>1. Index \in 0 .. 5
        BY <2>2
      <4> QED
        BY <4>1, WordsIs
    <3>2. Taken = WordsOf(Index) + (Fetched \div 4)
      BY DEF Taken, WordsOf
    <3> QED
      BY <2>2, <3>1, <3>2, Gaps
  <2>5. \A k \in 1 .. L : words[k] = <<sweep, Taken + k>>
    BY <1>7 DEF Contents, L
  <2>6. CASE SweepStart
    <3>1. L = 0 /\ tx'.stm = "STARTING" /\ dataMux = NoWord
      BY <1>1, <1>7, <2>6, Indices, CameStep DEF Source, L
    <3>2. M = 0
      BY <1>2, <1>3, <1>4, <3>1
    <3>4. tx'.stm \notin Sending
      BY <3>1 DEF Sending, Header, CrcStates
    <3>5. \A k \in 1 .. M : words'[k] = <<sweep', Taken' + k>>
      BY <3>2
    <3> QED
      BY <2>1, <3>4, <3>5 DEF Contents, M
  <2>7. CASE NoInput \/ SweepWord
    <3>1. /\ sweep' = sweep /\ Came' = Came + Fresh' /\ Fresh' = (IF dataMux = NoWord THEN 0 ELSE 1)
          /\ Came' \in Nat
      BY <1>1, <2>7, CameStep DEF Source
    <3>2. (dataMux # NoWord => L < FifoWords) /\ (tx.rd_data => L > 0 /\ Fetched < DataLen)
      BY <1>1, <1>7, <2>1, Room DEF L
    <3>3. Came' = Came + put
      BY <1>2, <3>1, <3>2
    <3>4. Taken' = Taken + take /\ Taken' \in Nat
      <4>1. Taken' \in Int
        <5>1. Index' \in 0 .. 4 /\ Index' \in 0 .. 5
          BY <2>1 DEF InTime
        <5>2. Fetched' \in 0 .. DataLen
          <6>1. Phase' \in Int
            BY <1>1, PhaseRange DEF TxInv, Phase
          <6> QED
            BY <6>1, FetchedIs DEF Fetched
        <5>3. Fetched' \div 4 \in Nat
          <6>1. Fetched' \in Nat
            BY <5>2, Lengths
          <6> QED
            BY <6>1, Quarters
        <5>4. Taken' = WordsOf(Index') + (Fetched' \div 4)
          BY DEF Taken, WordsOf
        <5>5. WordsOf(Index') \in Nat
          BY <5>1, WordsIs
        <5> QED
          BY <5>3, <5>4, <5>5
      <4>2. Taken' = Came' - M /\ Came' = Came + put /\ Came = L + Taken /\ M = L + put - take
        <5>1. Came = L + Taken
          <6>1. L = Came - Taken /\ Came \in Nat /\ Taken \in Nat
            BY <2>2, <2>3, <2>4
          <6> QED
            BY <6>1
        <5>2. Taken' = Came' - M
          <6>1. M = Came' - Taken'
            BY <2>3
          <6> QED
            BY <1>4, <3>1, <4>1, <6>1
        <5> QED
          BY <1>3, <3>3, <5>1, <5>2
      <4>3. Came \in Nat /\ put \in Nat /\ take \in Nat /\ L \in Nat /\ Taken \in Nat /\ M \in Nat
        BY <1>2, <1>3, <1>4, <2>2, <2>4
      <4>4. Taken' = Taken + take
        <5> QED
          BY <4>1, <4>2, <4>3
      <4> QED
        BY <4>3, <4>4
    <3>5. ASSUME NEW k \in 1 .. M PROVE words'[k] = <<sweep', Taken' + k>>
      <4>1. CASE k <= L - take
        <5>1. words'[k] = words[k + take] /\ k + take \in 1 .. L
          BY <1>2, <1>3, <1>4, <1>5, <4>1
        <5>2. words'[k] = <<sweep, Taken + (k + take)>>
          BY <2>5, <5>1
        <5>3. Taken + (k + take) = Taken' + k
          BY <1>2, <2>4, <3>4
        <5> QED
          BY <3>1, <5>2, <5>3
      <4>2. CASE ~(k <= L - take)
        <5>1. put = 1 /\ k = M /\ k = L + 1 - take
          BY <1>2, <1>3, <1>4, <4>2
        <5>2. words'[k] = <<sweep, Came + 1>>
          BY <1>2, <1>5, <1>6, <4>2, <5>1 DEF CameFacts
        <5>3. Taken' + k = Came + 1
          BY <1>2, <1>3, <2>2, <2>3, <2>4, <3>4, <5>1
        <5> QED
          BY <3>1, <5>2, <5>3
      <4> QED
        BY <4>1, <4>2
    <3>6. ASSUME tx'.stm \in Sending, Fetched' > 0
          PROVE  q' = <<"nib", sweep', Index' * DataLen + Fetched'>>
      <4>1. ~Waits(tx, tx', Phase') \/ Phase' # 0
        <5>1. 0 <= HeadLen - 4
          BY Lengths
        <5>2. FetchedAt(0) = 0
          BY <5>1, FetchedIs
        <5> QED
          BY <3>6, <5>2 DEF Fetched
      <4>2. SendsNibble /\ Phase < FrameLen - 1 /\ Phase' = Phase + 1
        BY <1>1, <1>7, <3>6, <4>1, Sends
      <4>3. tx.stm \in Sending /\ Phase \in Int /\ Phase \in 0 .. FrameLen - 1
        BY <4>2 DEF SendsNibble, Nibbled
      <4>4. Index' = Index
        <5>1. ~LastNibble /\ ~SweepStart
          <6>1. tx.stm # "STARTING"
            BY <4>3 DEF Sending, Header, CrcStates
          <6> QED
            BY <1>7, <4>2, <4>3, <6>1, Indices, Lengths DEF LastNibble
        <5> QED
          BY <1>7, <2>2, <5>1, Indices
      <4>5. IF tx.rd_data THEN Fetched' = Fetched + 1 ELSE Fetched' = Fetched
        <5>1. tx.rd_data <=> Phase = HeadLen - 4 \/ (HeadLen <= Phase /\ Phase <= HeadLen + DataLen - 2)
          BY <1>1, <4>3 DEF TxInv, TxGood, TxAsks, Phase
        <5>2. Fetched = FetchedAt(Phase) /\ Fetched' = FetchedAt(Phase + 1)
          BY <4>2 DEF Fetched
        <5> QED
          BY <4>3, <5>1, <5>2, FetchedNext
      <4>6. CASE ~tx.rd_data
        BY <1>5, <2>2, <3>1, <3>6, <4>3, <4>4, <4>5, <4>6 DEF Contents
      <4>7. CASE tx.rd_data
        <5>1. L > 0 /\ words[1] = <<sweep, Taken + 1>>
          <6>1. L > 0
            BY <3>2, <4>7
          <6> QED
            BY <1>3, <2>5, <6>1
        <5>2. q' = <<"nib", sweep, 4 * ((Taken + 1) - 1) + part + 1>>
          BY <1>5, <4>7, <5>1
        <5>3. 4 * ((Taken + 1) - 1) + part + 1 = Index * DataLen + (Fetched + 1)
          <6>1. 4 * WordsOf(Index) = Index * DataLen /\ WordsOf(Index) \in Nat /\ Index * DataLen \in Nat
            <7>1. DataLen = 4 * FrameWords /\ FrameWords \in Nat /\ Index \in Nat
              BY <2>2, Lengths
            <7> QED
              BY <7>1 DEF WordsOf
          <6>2. Fetched \in Nat /\ Fetched \div 4 \in Nat /\ part \in Nat
            BY <1>1, <2>2, Lengths DEF MemoryType
          <6> DEFINE w == WordsOf(Index)
                     d == Fetched \div 4
                     g == Index * DataLen
          <6>3. w \in Nat /\ d \in Nat /\ g \in Nat /\ 4 * w = g /\ Taken = w + d /\ Fetched = 4 * d + part
            BY <2>2, <2>4, <6>1, <6>2
          <6> HIDE DEF w, d, g
          <6>4. 4 * ((Taken + 1) - 1) + part + 1 = g + (Fetched + 1)
            BY <6>2, <6>3
          <6> QED
            BY <6>4 DEF g
        <5> QED
          BY <3>1, <4>4, <4>5, <4>7, <5>2, <5>3
      <4> QED
        BY <4>6, <4>7
    <3> QED
      BY <2>1, <3>5, <3>6 DEF Contents, M
  <2> QED
    BY <2>6, <2>7 DEF Source
<1>8. CASE ~Streaming
  <2>1. NotYet
    BY <1>1, <1>8 DEF PaceInv
  <2>2. ~tx.rd_data /\ take = 0
    <3>1. tx.stm \in {"WAITING_REQUEST"} \cup Answering
      BY <1>1, <1>8, StreamingIs DEF StreamingFacts
    <3>2. tx.stm \notin Sending
      BY <3>1, AnsweringIs DEF Sending, Header, CrcStates
    <3> QED
      BY <1>1, <3>2 DEF TxInv, TxGood, TxAsks, take
  <2>3. ASSUME sweep' = 1, NEW k \in 1 .. M PROVE words'[k] = <<1, k>>
    <3>1. sweep = 1
      <4>1. sweep = 0 => M = 0
        BY <1>1, <1>8, <2>1, <2>3, FillStep DEF M
      <4>2. sweep' = sweep \/ sweep' = sweep + 1
        BY <1>1, CameStep DEF Source
      <4> QED
        BY <1>6, <2>3, <4>1, <4>2
    <3>2. (L = Came \/ L = FifoWords) /\ \A m \in 1 .. L : words[m] = <<1, m>>
      BY <1>8, <2>1, <3>1 DEF NotYet, Contents, L
    <3>3. L - take = L /\ (k <= L \/ (k = L + 1 /\ put = 1))
      BY <1>2, <1>3, <1>4, <2>2
    <3>4. CASE k <= L
      <4>1. k \in 1 .. L /\ k + take = k
        BY <1>3, <2>2, <3>4
      <4>2. words'[k] = words[k]
        BY <1>5, <3>3, <3>4, <4>1
      <4> QED
        BY <3>2, <4>1, <4>2
    <3>5. CASE ~(k <= L)
      <4>1. k = L + 1 /\ dataMux # NoWord /\ L < FifoWords /\ words'[k] = dataMux
        BY <1>2, <1>5, <3>3, <3>5
      <4>2. dataMux = <<sweep, Came + 1>>
        BY <1>6, <4>1 DEF CameFacts
      <4>3. L # FifoWords
        BY <1>3, <4>1
      <4> QED
        BY <3>1, <3>2, <4>1, <4>2, <4>3
    <3> QED
      BY <3>4, <3>5
  <2>4. CASE ~Streaming'
    <3>1. tx'.stm \notin Sending
      BY <2>4, StreamingNext DEF StreamingFacts
    <3> QED
      BY <2>3, <2>4, <3>1 DEF Contents, M
  <2>5. CASE Streaming'
    <3>1. InTime'
      BY <1>1, <2>5 DEF PaceInv
    <3>2. tx.stm = "WAITING_REQUEST" /\ rx.new /\ rx.type = 1 /\ tx'.stm = "STARTING"
      BY <1>1, <1>8, <2>1, <2>5, Asks
    <3>3. tx'.stm \notin Sending
      BY <3>2 DEF Sending, Header, CrcStates
    <3>4. ASSUME NEW k \in 1 .. M PROVE words'[k] = <<sweep', Taken' + k>>
      <4>1. sweep <= 1
        BY <1>1, <1>8, <2>1, <3>2, AskedIs
      <4>2. sweep = 1
        <5>1. sweep = 0 => M = 0
          BY <1>1, <1>8, <2>1, FillStep DEF M
        <5> QED
          BY <1>6, <3>4, <4>1, <5>1
      <4>3. sweep' = 1
        <5>1. sweep' = sweep \/ sweep' = sweep + 1
          BY <1>1, CameStep DEF Source
        <5>2. sweep' > 1 => Len(words) = FifoWords
          BY <1>1, <1>8, <2>1, FillStep
        <5>3. Len(words) < FifoWords /\ FifoWords \in Nat /\ Len(words) \in Nat
          BY <1>1, <1>3, <1>8, <2>1, <3>2, AskedIs, Gaps DEF L
        <5> QED
          BY <4>2, <5>1, <5>2, <5>3
      <4>4. Taken' = 0
        <5>1. Index' \in {0, 4} /\ Index' \in 0 .. 4 /\ M = Came' - Taken'
          BY <3>1, <3>2 DEF InTime, M
        <5>2. Taken' = WordsOf(Index') + (Fetched' \div 4)
          BY DEF Taken, WordsOf
        <5>3. Fetched' = 0
          <6>1. Phase' = -1
            BY <1>1, <3>2, PhaseRange DEF TxInv, Phase
          <6>2. -1 <= HeadLen - 4
            BY Lengths
          <6> QED
            BY <6>1, <6>2, FetchedIs DEF Fetched
        <5>4. Index' = 4 => Taken' = SweepWords
          BY <5>2, <5>3, WordsIs, Gaps
        <5>5. Came' \in Nat /\ Came' <= SweepWords
          BY <1>1, CameStep
        <5>6. Index' # 4
          BY <1>4, <3>4, <5>1, <5>4, <5>5, Gaps
        <5> QED
          BY <5>1, <5>2, <5>3, <5>6, WordsIs
      <4> QED
        BY <2>3, <4>3, <4>4
    <3> QED
      BY <2>5, <3>3, <3>4 DEF Contents, M
  <2> QED
    BY <2>4, <2>5
<1> QED
  BY <1>7, <1>8

-----------------------------------------------------------------------------
(***************************************************************************)
(* Exponent and direction.                                                 *)
(***************************************************************************)
\* The two small FIFOs at an edge.
LEMMA SideStep ==
  ASSUME NoInput \/ Source
  PROVE  /\ expOut' = IF tx.rd_exp /\ Holds(expIn, expOut) THEN expOut + 1 ELSE expOut
         /\ dirOut' = IF tx.rd_direct /\ Holds(dirIn, dirOut) THEN dirOut + 1 ELSE dirOut
         /\ expReg' = Shown(expIn, expOut) /\ dirReg' = Shown(dirIn, dirOut)
  BY DEF NoInput, Source, SweepStart, SweepWord, SideFifos

\* A frame begins in PREAMBLE1.
LEMMA ZeroIs ==
  ASSUME NEW t, TxGood(t), t.stm \in Sending, PhaseOf(t) = 0
  PROVE  t.stm = "PREAMBLE1"
<1>1. t.cnt_mac \in Nat /\ t.read_cnt \in Nat
  BY DEF TxGood, TxType
<1>2. t.stm \in {"PREAMBLE1", "PREAMBLE2", "DESCR_MAC1", "DESCR_MAC2",
                 "DESCR_POS1", "DESCR_POS2", "DESCR_POS3", "DESCR_POS4", "READ_DATA"} \cup CrcStates
  BY DEF Sending, Header
<1>3. t.stm \notin CrcStates
  BY PhaseIs, Lengths DEF CrcStates
<1>4. t.stm \notin {"PREAMBLE2", "DESCR_MAC1", "DESCR_MAC2"}
  BY <1>1, PhaseIs, Lengths
<1>5. t.stm \notin {"DESCR_POS1", "DESCR_POS2", "DESCR_POS3", "DESCR_POS4", "READ_DATA"}
  BY <1>1, PhaseIs, Lengths
<1> QED
  BY <1>2, <1>3, <1>4, <1>5

\* One direction and one exponent are read per sweep, with its first frame.
LEMMA LabelsStep ==
  ASSUME SenderInv, SenderInv', TxEvent, NoInput \/ Source, History, Labels
  PROVE  Labels'
<1>1. /\ TxInv /\ TxInv' /\ SourceInv /\ PaceInv /\ TxGood(tx) /\ TxGood(tx') /\ MemoryType
  BY DEF SenderInv, TxInv, PaceInv
<1>2. /\ expOut \in Nat /\ dirOut = expOut /\ sweep \in Nat
  BY <1>1, Gaps DEF Labels, SourceInv
<1>3. HeadLen \in Nat /\ HeadLen >= 8 /\ FrameLen \in Nat /\ FrameLen > HeadLen
  BY Lengths
<1>4. CASE ~Streaming
  <2>1. tx.stm \in {"WAITING_REQUEST"} \cup Answering
    BY <1>1, <1>4, StreamingIs DEF StreamingFacts
  <2>2. tx.stm \notin Sending /\ tx.stm # "PREAMBLE1"
    BY <2>1, AnsweringIs DEF Sending, Header, CrcStates, Answering
  <2>3. ~tx.rd_exp /\ ~tx.rd_direct
    BY <1>1, <2>2 DEF TxGood, TxAsks
  <2>4. expOut' = 0 /\ dirOut' = 0
    BY <1>2, <1>4, <2>3, SideStep DEF Labels
  <2>5. CASE ~Streaming'
    <3>1. tx'.stm \notin Sending \cup Resting
      BY <2>5, StreamingNext DEF StreamingFacts
    <3> QED
      BY <2>4, <3>1 DEF Labels, Resting
  <2>6. CASE Streaming'
    <3>1. tx'.stm = "STARTING" /\ rx.new /\ rx.type = 1
      BY <1>1, <1>4, <2>6, Asks
    <3>2. tx'.stm \notin Sending
      BY <3>1 DEF Sending, Header, CrcStates
    <3>3. InTime' /\ NotYet
      BY <1>1, <1>4, <2>6 DEF SenderInv, PaceInv
    <3>4. sweep' - (IF Index' = 4 THEN 1 ELSE 2) <= 0 /\ sweep' \in Nat
      <4>1. Index' \in {0, 4}
        BY <3>1, <3>3 DEF InTime
      <4>2. sweep <= 1 /\ Len(words) < FifoWords /\ RxInv
        BY <1>1, <1>4, <3>1, <3>3, AskedIs DEF SenderInv
      <4>3. sweep' \in Nat /\ sweep' <= 1
        <5>1. sweep' > 1 => Len(words) = FifoWords
          BY <1>1, <1>4, <3>3, FillStep
        <5>2. sweep' \in Nat /\ Len(words) \in Nat /\ FifoWords \in Nat
          BY <1>1, <1>4, <3>3, FillStep, Gaps
        <5> QED
          BY <4>2, <5>1, <5>2
      <4>4. sweep' = 0 \/ sweep' = 1
        BY <4>3
      <4>5. CASE Index' = 4
        BY <4>4, <4>5
      <4>6. CASE Index' = 0
        BY <4>4, <4>6
      <4> QED
        BY <4>1, <4>3, <4>5, <4>6
    <3>5. Later(sweep' - (IF Index' = 4 THEN 1 ELSE 2), 0) = 0
      <4>1. (IF Index' = 4 THEN 1 ELSE 2) \in {1, 2}
        OBVIOUS
      <4> DEFINE b == IF Index' = 4 THEN 1 ELSE 2
                 s == sweep'
      <4>2. s \in Nat /\ b \in {1, 2} /\ s - b <= 0
        BY <3>4, <4>1
      <4>3. Later(s - b, 0) = 0
        <5> HIDE DEF s, b
        <5> QED
          BY <4>2 DEF Later
      <4> QED
        BY <4>3
    <3> QED
      BY <2>4, <2>6, <3>1, <3>2, <3>5 DEF Labels
  <2> QED
    BY <2>5, <2>6
<1>5. CASE Streaming
  <2>1. /\ Streaming' /\ InTime /\ InTime' /\ Index \in 0 .. 4 /\ Index' \in 0 .. 4
        /\ sweep' \in Nat
        /\ Index < 4 => sweep >= 1
        /\ SweepStart => /\ tx.stm = "STARTING" /\ tx'.stm = "STARTING"
                         /\ Index = 4 /\ Index' = 0 /\ sweep' = sweep + 1
        /\ ~SweepStart => sweep' = sweep /\ Index' = Index + (IF LastNibble THEN 1 ELSE 0)
    BY <1>5, Indices
  <2>2. /\ tx.stm \in Sending <=> Phase \in 0 .. FrameLen - 1
        /\ tx.stm \in Sending => Index \in 0 .. 3 /\ Came >= WordsOf(Index + 1)
        /\ tx.stm # "STARTING" => Index \in 0 .. 3
    BY <1>1, <1>5, <2>1, InTimeIs
  <2>3. Phase \in Int /\ Phase' \in Int
    BY <1>1, PhaseRange DEF Phase
  <2>4. ASSUME tx.stm \in Sending
        PROVE  /\ sweep >= 1 /\ expIn = sweep /\ dirIn = sweep
               /\ tx.rd_exp <=> Phase = 0 /\ Index = 0
               /\ tx.rd_direct <=> Phase = 0 /\ Index = 0
               /\ ~SweepStart
    <3>1. Came >= 1 /\ Came \in Nat
      <4>1. WordsOf(Index + 1) = WordsOf(Index) + FrameWords /\ WordsOf(Index) \in Nat
        <5>1. Index \in 0 .. 4 /\ Index \in 0 .. 5
          BY <2>1
        <5> QED
          BY <5>1, WordsIs
      <4>2. FrameWords \in Nat /\ FrameWords >= 1 /\ Came \in Nat
        BY <1>1, CameStep, Gaps
      <4> QED
        BY <2>2, <2>4, <4>1, <4>2
    <3>2. nextWord # 1 /\ nextWord \in Nat /\ nextWord >= 1
      <4>1. nextWord \in Nat /\ nextWord >= 1
        BY <1>1, Gaps DEF SourceInv
      <4>2. nextWord = 1 => Came <= 0
        BY <1>1, CameIs DEF CameFacts
      <4> QED
        BY <3>1, <4>1, <4>2
    <3>3. sweep >= 1
      BY <2>1, <2>2, <2>4
    <3>4. expIn = sweep /\ dirIn = sweep
      BY <1>1, <3>2 DEF SourceInv
    <3>5. tx.stm = "PREAMBLE1" /\ tx.cnt_mac = 0 <=> Phase = 0
      <4>1. tx.cnt_mac \in Nat /\ PRMBLE_LEN >= 1 /\ PRMBLE_LEN \in Nat
        BY <1>1, Lengths DEF TxGood, TxType
      <4>2. tx.stm = "PREAMBLE1" => Phase = 2 * tx.cnt_mac
        BY PhaseIs DEF Phase
      <4>3. Phase = 0 => tx.stm = "PREAMBLE1"
        BY <1>1, <2>4, ZeroIs DEF Phase
      <4> QED
        BY <4>1, <4>2, <4>3
    <3>6. tx.stm = "PREAMBLE1" => tx.frame_num = Index
      BY <2>1 DEF InTime, Header
    <3>7. /\ tx.rd_exp <=> tx.stm = "PREAMBLE1" /\ tx.cnt_mac = 0 /\ tx.frame_num = 0
          /\ tx.rd_direct <=> tx.stm = "PREAMBLE1" /\ tx.cnt_mac = 0 /\ tx.frame_num = 0
      BY <1>1 DEF TxGood, TxAsks
    <3>8. ~SweepStart
      <4>1. tx.stm # "STARTING"
        BY <2>4 DEF Sending, Header, CrcStates
      <4> QED
        BY <2>1, <4>1
    <3> QED
      BY <3>3, <3>4, <3>5, <3>6, <3>7, <3>8
  <2>5. ASSUME tx.stm \notin Sending
        PROVE  expOut' = expOut /\ dirOut' = dirOut
    <3>1. tx.stm # "PREAMBLE1"
      BY <2>5 DEF Sending, Header
    <3>2. ~tx.rd_exp /\ ~tx.rd_direct
      BY <1>1, <3>1 DEF TxGood, TxAsks
    <3> QED
      BY <3>2, SideStep
  <2>6. ASSUME tx.stm \in Sending
        PROVE  expOut' = sweep - 1 /\ dirOut' = sweep - 1
    <3>1. CASE Phase = 0 /\ Index = 0
      <4>1. expOut = Later(sweep - 2, 0)
        BY <2>6, <3>1 DEF Labels
      <4>2. Holds(sweep, expOut) <=> sweep >= 2
        BY <1>2, <2>4, <2>6, <4>1 DEF Holds, Later
      <4>3. expOut = (IF sweep >= 2 THEN sweep - 2 ELSE 0)
        BY <1>2, <4>1 DEF Later
      <4>4. /\ expOut' = IF sweep >= 2 THEN expOut + 1 ELSE expOut
            /\ dirOut' = IF sweep >= 2 THEN expOut + 1 ELSE expOut
        BY <1>2, <2>4, <2>6, <3>1, <4>2, SideStep
      <4> QED
        BY <1>2, <2>4, <2>6, <4>3, <4>4
    <3>2. CASE ~(Phase = 0 /\ Index = 0)
      <4>1. expOut = sweep - 1
        BY <2>6, <3>2 DEF Labels
      <4> QED
        BY <1>2, <2>4, <2>6, <3>2, <4>1, SideStep
    <3> QED
      BY <3>1, <3>2
  <2>7. CASE tx'.stm \in Sending
    <3>1. tx'.stm \notin {"STARTING", "DELAYING", "WAITING"}
      BY <2>7 DEF Sending, Header, CrcStates
    <3>2. \/ SendsNibble /\ Phase < FrameLen - 1 /\ Phase' = Phase + 1
          \/ Waits(tx, tx', Phase') /\ Phase' = 0 /\ FrameReady
      BY <1>1, <1>5, <2>7, Sends
    <3>3. CASE SendsNibble /\ Phase < FrameLen - 1 /\ Phase' = Phase + 1
      <4>1. tx.stm \in Sending /\ Phase \in 0 .. FrameLen - 1
            /\ tx'.sig_dir = (IF Phase = HeadLen - 5 THEN dirReg ELSE tx.sig_dir)
        BY <3>3 DEF SendsNibble, Nibbled
      <4>2. sweep' = sweep /\ sweep >= 1 /\ Phase' # 0
        BY <2>1, <2>4, <3>3, <4>1
      <4>3. expOut' = sweep' - 1 /\ dirOut' = expOut' /\ expOut' \in Nat
        BY <1>2, <2>6, <4>1, <4>2
      <4>4. Phase' >= 2 => expReg' = sweep' /\ dirReg' = sweep'
        <5> SUFFICES ASSUME Phase' >= 2 PROVE expReg' = sweep' /\ dirReg' = sweep'
          OBVIOUS
        <5>1. Phase # 0
          BY <3>3
        <5>2. expOut = sweep - 1
          BY <4>1, <5>1 DEF Labels
        <5>3. Shown(sweep, sweep - 1) = sweep
          BY <1>2, <4>2 DEF Shown
        <5> QED
          BY <1>2, <2>4, <4>1, <4>2, <5>2, <5>3, SideStep
      <4>5. Phase' >= HeadLen - 4 => tx'.sig_dir = sweep'
        <5> SUFFICES ASSUME Phase' >= HeadLen - 4 PROVE tx'.sig_dir = sweep'
          OBVIOUS
        <5>1. Phase >= HeadLen - 5 /\ Phase >= 2
          BY <1>3, <2>3, <3>3
        <5>2. dirReg = sweep
          BY <4>1, <5>1 DEF Labels
        <5>3. Phase # HeadLen - 5 => tx.sig_dir = sweep
          <6>1. Phase # HeadLen - 5 => Phase >= HeadLen - 4
            BY <1>3, <2>3, <5>1
          <6> QED
            BY <4>1, <6>1 DEF Labels
        <5> QED
          BY <4>1, <4>2, <5>2, <5>3
      <4> QED
        BY <2>1, <2>7, <3>1, <4>2, <4>3, <4>4, <4>5 DEF Labels
    <3>4. CASE Waits(tx, tx', Phase') /\ Phase' = 0 /\ FrameReady
      <4>1. tx.stm \in {"STARTING", "WAITING"}
        BY <3>4 DEF Waits
      <4>2. tx.stm \notin Sending
        BY <4>1 DEF Sending, Header, CrcStates
      <4>3. sweep' = sweep /\ Index' = Index
        <5>1. ~SweepStart /\ ~LastNibble
          BY <2>1, <3>1, <4>2, <2>7 DEF LastNibble
        <5> QED
          BY <2>1, <5>1
      <4>4. expOut' = expOut /\ dirOut' = expOut
        BY <1>2, <2>5, <4>2
      <4>5. CASE tx.stm = "STARTING"
        <5>1. Index = 0
          BY <1>1, <1>5, <2>1, <3>4, <4>5, ReadyIs
        <5>2. expOut' = Later(sweep' - 2, 0)
          BY <4>3, <4>4, <4>5, <5>1 DEF Labels
        <5> QED
          BY <1>2, <1>3, <2>1, <2>7, <3>1, <3>4, <4>3, <4>4, <5>1, <5>2 DEF Labels
      <4>6. CASE tx.stm = "WAITING"
        <5>1. Index \in 1 .. 3
          BY <1>1, <2>1, <4>6 DEF InTime, TxGood, TxNumber
        <5>2. expOut = sweep - 1
          BY <4>6 DEF Labels
        <5>3. expOut' = sweep' - 1 /\ dirOut' = expOut' /\ expOut' \in Nat
          BY <1>2, <4>3, <4>4, <5>2
        <5>4. Index' # 0
          BY <4>3, <5>1
        <5>5. ~(Phase' >= 2) /\ ~(Phase' >= HeadLen - 4)
          BY <1>3, <3>4
        <5> QED
          BY <2>1, <2>7, <3>1, <5>3, <5>4, <5>5 DEF Labels
      <4> QED
        BY <4>1, <4>5, <4>6
    <3> QED
      BY <3>2, <3>3, <3>4
  <2>8. CASE tx'.stm \notin Sending
    <3>1. tx'.stm \in Resting
      BY <2>1, <2>8, StreamingNext DEF StreamingFacts
    <3>2. CASE tx.stm \in Sending
      <4>1. SendsNibble /\ LastNibble
        <5>1. SendsNibble
          <6>1. ~TellsNibble /\ ~Listens(tx, tx', Answered') /\ ~Waits(tx, tx', Phase') /\ ~Delays(tx, tx')
            <7>1. tx.stm \notin Answering /\ tx.stm \notin {"WAITING_REQUEST", "STARTING", "WAITING", "DELAYING"}
              BY <3>2, AnsweringIs DEF Sending, Header, CrcStates
            <7> QED
              BY <7>1 DEF TellsNibble, Told, Listens, Waits, Delays
          <6> QED
            BY <6>1 DEF TxEvent
        <5>2. Phase \in 0 .. FrameLen - 1 /\ ~(Phase < FrameLen - 1)
          BY <2>8, <5>1 DEF SendsNibble, Nibbled
        <5> QED
          BY <1>3, <3>2, <5>1, <5>2 DEF LastNibble
      <4>2. tx'.stm \in {"STARTING", "DELAYING"}
        BY <4>1 DEF SendsNibble, Nibbled, LastNibble
      <4>3. sweep' = sweep /\ sweep >= 1 /\ Index' = Index + 1
        BY <2>1, <2>4, <3>2, <4>1
      <4>4. expOut' = sweep' - 1 /\ dirOut' = expOut' /\ expOut' \in Nat
        BY <1>2, <2>6, <3>2, <4>3
      <4>5. tx'.stm = "STARTING" => expOut' = Later(sweep' - (IF Index' = 4 THEN 1 ELSE 2), 0)
        <5> SUFFICES ASSUME tx'.stm = "STARTING"
                     PROVE  expOut' = Later(sweep' - (IF Index' = 4 THEN 1 ELSE 2), 0)
          OBVIOUS
        <5>1. Index' = 4
          <6>1. Index' \in {0, 4}
            BY <2>1 DEF InTime
          <6> QED
            BY <2>1, <4>3, <6>1
        <5> QED
          BY <1>2, <4>3, <4>4, <5>1 DEF Later
      <4> QED
        BY <2>1, <2>8, <4>2, <4>4, <4>5 DEF Labels
    <3>3. CASE tx.stm \notin Sending
      <4>1. expOut' = expOut /\ dirOut' = expOut /\ expOut' \in Nat
        BY <1>2, <2>5, <3>3
      <4>2. Waits(tx, tx', Phase') \/ Delays(tx, tx')
        <5>1. ~TellsNibble /\ ~Listens(tx, tx', Answered') /\ ~SendsNibble
          BY <1>5, <3>3, StreamingIs DEF StreamingFacts, TellsNibble, Told, Listens, SendsNibble, Nibbled
        <5> QED
          BY <5>1 DEF TxEvent
      <4>3. CASE tx.stm = "STARTING"
        <5>1. tx'.stm = "STARTING"
          BY <2>8, <4>2, <4>3 DEF Waits, Delays
        <5>2. expOut = Later(sweep - (IF Index = 4 THEN 1 ELSE 2), 0)
          BY <4>3 DEF Labels
        <5>3. expOut' = Later(sweep' - (IF Index' = 4 THEN 1 ELSE 2), 0)
          <6>1. CASE SweepStart
            <7>1. Index = 4 /\ Index' = 0 /\ sweep' = sweep + 1
              BY <2>1, <6>1
            <7>2. sweep - 1 = sweep' - 2
              BY <1>2, <7>1
            <7> QED
              BY <4>1, <5>2, <7>1, <7>2
          <6>2. CASE ~SweepStart
            <7>1. ~LastNibble
              BY <3>3 DEF LastNibble
            <7> QED
              BY <2>1, <4>1, <5>2, <6>2, <7>1
          <6> QED
            BY <6>1, <6>2
        <5> QED
          BY <2>1, <2>8, <4>1, <5>1, <5>3 DEF Labels
      <4>4. CASE tx.stm \in {"WAITING", "DELAYING"}
        <5>1. tx'.stm \in {"WAITING", "DELAYING"}
          BY <2>8, <4>2, <4>4 DEF Waits, Delays
        <5>2. expOut = sweep - 1
          BY <4>4 DEF Labels
        <5>3. sweep' = sweep
          BY <2>1, <4>4
        <5> QED
          BY <2>1, <2>8, <4>1, <5>1, <5>2, <5>3 DEF Labels
      <4>5. tx.stm \in Resting
        BY <1>5, <3>3, StreamingIs DEF StreamingFacts
      <4> QED
        BY <4>3, <4>4, <4>5 DEF Resting
    <3> QED
      BY <3>2, <3>3
  <2> QED
    BY <2>7, <2>8
<1> QED
  BY <1>4, <1>5

-----------------------------------------------------------------------------
(***************************************************************************)
(* Frames, symbol by symbol.                                               *)
(***************************************************************************)
\* Sequences given symbol by symbol: two of them joined, and one with a symbol more.
LEMMA Joined ==
  ASSUME NEW m \in Nat, NEW n \in Nat, NEW f, NEW g,
         f = [k \in 1 .. m |-> f[k]], g = [k \in 1 .. n |-> g[k]]
  PROVE  f \o g = [k \in 1 .. m + n |-> IF k <= m THEN f[k] ELSE g[k - m]]
<1> DEFINE S == {f[k] : k \in 1 .. m} \cup {g[k] : k \in 1 .. n}
<1>1. f \in Seq(S) /\ Len(f) = m
  <2>1. f \in [1 .. m -> S]
    OBVIOUS
  <2> HIDE DEF S
  <2>2. f \in Seq(S)
    BY <2>1, SeqDef
  <2>3. DOMAIN f = 1 .. m
    OBVIOUS
  <2>4. Len(f) = m
    BY <2>2, <2>3, LenProperties
  <2> QED
    BY <2>2, <2>4
<1>2. g \in Seq(S) /\ Len(g) = n
  <2>1. g \in [1 .. n -> S]
    OBVIOUS
  <2> HIDE DEF S
  <2>2. g \in Seq(S)
    BY <2>1, SeqDef
  <2>3. DOMAIN g = 1 .. n
    OBVIOUS
  <2>4. Len(g) = n
    BY <2>2, <2>3, LenProperties
  <2> QED
    BY <2>2, <2>4
<1> HIDE DEF S
<1>3. /\ f \o g \in Seq(S) /\ Len(f \o g) = m + n
      /\ \A i \in 1 .. m + n : (f \o g)[i] = IF i <= m THEN f[i] ELSE g[i - m]
  BY <1>1, <1>2, ConcatProperties, ZenonT(60)
<1> DEFINE h == f \o g
<1>4. h \in Seq(S) /\ Len(h) = m + n /\ \A i \in 1 .. m + n : h[i] = IF i <= m THEN f[i] ELSE g[i - m]
  BY <1>3
<1> HIDE DEF h
<1>5. h \in [1 .. m + n -> S]
  BY <1>4, LenProperties
<1>6. h = [k \in 1 .. m + n |-> h[k]]
  BY <1>5
<1>7. h = [k \in 1 .. m + n |-> IF k <= m THEN f[k] ELSE g[k - m]]
  BY <1>4, <1>6
<1> QED
  BY <1>7 DEF h

\* One symbol more.
LEMMA Extended ==
  ASSUME NEW m \in Nat, NEW f, NEW e, f = [k \in 1 .. m |-> f[k]]
  PROVE  Append(f, e) = [k \in 1 .. m + 1 |-> IF k <= m THEN f[k] ELSE e]
<1> DEFINE S == {f[k] : k \in 1 .. m} \cup {e}
<1>1. f \in Seq(S) /\ Len(f) = m
  <2>1. f \in [1 .. m -> S]
    OBVIOUS
  <2> HIDE DEF S
  <2>2. f \in Seq(S)
    BY <2>1, SeqDef
  <2>3. DOMAIN f = 1 .. m
    OBVIOUS
  <2>4. Len(f) = m
    BY <2>2, <2>3, LenProperties
  <2> QED
    BY <2>2, <2>4
<1>2. e \in S
  OBVIOUS
<1> HIDE DEF S
<1> DEFINE h == Append(f, e)
<1>3. /\ h \in Seq(S) /\ Len(h) = m + 1 /\ \A i \in 1 .. m : h[i] = f[i]
      /\ h[m + 1] = e
  BY <1>1, <1>2, AppendProperties
<1> HIDE DEF h
<1>4. h \in [1 .. m + 1 -> S]
  BY <1>3, LenProperties
<1>5. h = [k \in 1 .. m + 1 |-> h[k]]
  BY <1>4
<1>6. \A k \in 1 .. m + 1 : h[k] = IF k <= m THEN f[k] ELSE e
  <2> SUFFICES ASSUME NEW k \in 1 .. m + 1 PROVE h[k] = IF k <= m THEN f[k] ELSE e
    OBVIOUS
  <2>1. k \in 1 .. m \/ k = m + 1
    OBVIOUS
  <2> QED
    BY <1>3, <2>1
<1>7. h = [k \in 1 .. m + 1 |-> IF k <= m THEN f[k] ELSE e]
  BY <1>5, <1>6
<1> QED
  BY <1>7 DEF h

\* The symbols of a table.
LEMMA TableIs ==
  ASSUME NEW tag, NEW len \in Nat
  PROVE  Table(tag, len) = [k \in 1 .. 2 * len |-> <<tag, (k - 1) \div 2, (k - 1) % 2>>]
  BY DEF Table

\* What the checksum covers, symbol by symbol.
LEMMA CoveredIs ==
  ASSUME NEW s, NEW n \in 0 .. 3
  PROVE  Covered(s, n) = [k \in 1 .. CoveredLen |-> CoveredAt(s, n, k)]
<1> DEFINE H == 2 * HEADER_LEN
           a == Table("mac", HEADER_LEN)
           b == << <<"dir", s>>, <<"num", n>>, <<"exp", s, 0>>, <<"exp", s, 1>> >>
           c == [i \in 1 .. DATAFRAME_LEN * 2 |-> <<"nib", s, n * DATAFRAME_LEN * 2 + i>>]
<1>1. /\ H \in Nat /\ DataLen \in Nat /\ DATAFRAME_LEN * 2 = DataLen /\ CoveredLen = H + 4 + DataLen
      /\ DATAFRAME_LEN \in Nat /\ HEADER_LEN \in Nat
  BY Lengths DEF CoveredLen, DataLen
<1>2. n * DATAFRAME_LEN * 2 = n * DataLen
  <2>1. n = 0 \/ n = 1 \/ n = 2 \/ n = 3
    OBVIOUS
  <2> QED
    BY <1>1, <2>1
<1>3. a = [k \in 1 .. H |-> <<"mac", (k - 1) \div 2, (k - 1) % 2>>]
  BY <1>1, TableIs
<1>4. c = [k \in 1 .. DataLen |-> <<"nib", s, n * DataLen + k>>]
  BY <1>1, <1>2
<1>5. b = [k \in 1 .. 4 |-> b[k]] /\ b[1] = <<"dir", s>> /\ b[2] = <<"num", n>>
      /\ b[3] = <<"exp", s, 0>> /\ b[4] = <<"exp", s, 1>>
  OBVIOUS
<1>6. a = [k \in 1 .. H |-> a[k]] /\ c = [k \in 1 .. DataLen |-> c[k]]
  BY <1>3, <1>4
<1>7. Covered(s, n) = (a \o b) \o c
  BY DEF Covered
<1> HIDE DEF a, b, c
<1> DEFINE d == a \o b
<1>8. d = [k \in 1 .. H + 4 |-> IF k <= H THEN a[k] ELSE b[k - H]]
  <2>1. H \in Nat /\ 4 \in Nat
    BY <1>1
  <2>2. a = [k \in 1 .. H |-> a[k]] /\ b = [k \in 1 .. 4 |-> b[k]]
    BY <1>5, <1>6
  <2> HIDE DEF H
  <2> QED
    BY <2>1, <2>2, Joined
<1>9. d = [k \in 1 .. H + 4 |-> d[k]]
  BY <1>8
<1> HIDE DEF d
<1>11. d \o c = [k \in 1 .. (H + 4) + DataLen |-> IF k <= H + 4 THEN d[k] ELSE c[k - (H + 4)]]
  <2> DEFINE I == H + 4
  <2>1. I \in Nat /\ DataLen \in Nat /\ d = [k \in 1 .. I |-> d[k]] /\ c = [k \in 1 .. DataLen |-> c[k]]
    BY <1>1, <1>6, <1>9
  <2> HIDE DEF I
  <2>2. d \o c = [k \in 1 .. I + DataLen |-> IF k <= I THEN d[k] ELSE c[k - I]]
    BY <2>1, Joined
  <2> QED
    BY <2>2 DEF I
<1> HIDE DEF H
<1>12. ASSUME NEW k \in 1 .. (H + 4) + DataLen
       PROVE  (IF k <= H + 4 THEN d[k] ELSE c[k - (H + 4)]) = CoveredAt(s, n, k)
  <2>1. CASE k <= H
    <3>1. k \in 1 .. H /\ k \in 1 .. H + 4
      BY <1>1, <2>1
    <3>2. d[k] = <<"mac", (k - 1) \div 2, (k - 1) % 2>>
      BY <1>3, <1>8, <2>1, <3>1
    <3> QED
      BY <1>1, <2>1, <3>1, <3>2 DEF CoveredAt, H
  <2>2. CASE H < k /\ k <= H + 4
    <3>1. k \in 1 .. H + 4 /\ ~(k <= H)
      BY <1>1, <2>2
    <3>2. d[k] = b[k - H]
      BY <1>8, <3>1
    <3>3. k = H + 1 \/ k = H + 2 \/ k = H + 3 \/ k = H + 4
      BY <1>1, <2>2
    <3>4. CASE k = H + 1
      <4>1. k - H = 1
        BY <1>1, <3>4
      <4> QED
        BY <1>1, <1>5, <3>1, <3>2, <3>4, <4>1 DEF CoveredAt, H
    <3>5. CASE k = H + 2
      <4>1. k - H = 2 /\ k # H + 1
        BY <1>1, <3>5
      <4> QED
        BY <1>1, <1>5, <3>1, <3>2, <3>5, <4>1 DEF CoveredAt, H
    <3>6. CASE k = H + 3
      <4>1. k - H = 3 /\ k # H + 1 /\ k # H + 2
        BY <1>1, <3>6
      <4> QED
        BY <1>1, <1>5, <3>1, <3>2, <3>6, <4>1 DEF CoveredAt, H
    <3>7. CASE k = H + 4
      <4>1. k - H = 4 /\ k # H + 1 /\ k # H + 2 /\ k # H + 3
        BY <1>1, <3>7
      <4> QED
        BY <1>1, <1>5, <3>1, <3>2, <3>7, <4>1 DEF CoveredAt, H
    <3> QED
      BY <3>3, <3>4, <3>5, <3>6, <3>7
  <2>3. CASE H + 4 < k
    <3>1. /\ k - (H + 4) \in 1 .. DataLen /\ ~(k <= H + 4) /\ ~(k <= H)
          /\ k # H + 1 /\ k # H + 2 /\ k # H + 3 /\ k # H + 4
      BY <1>1, <2>3
    <3>2. c[k - (H + 4)] = <<"nib", s, n * DataLen + (k - (H + 4))>>
      BY <1>4, <3>1
    <3> QED
      BY <3>1, <3>2 DEF CoveredAt, H
  <2> QED
    BY <1>1, <2>1, <2>2, <2>3
<1> QED
  BY <1>1, <1>7, <1>11, <1>12 DEF d

\* A data frame, symbol by symbol.
LEMMA DataFrameIs ==
  ASSUME NEW s, NEW n \in 0 .. 3
  PROVE  DataFrame(s, n) = [k \in 1 .. FrameLen |-> FrameAt(s, n, k)]
<1> DEFINE P == 2 * PRMBLE_LEN
           E == HeadLen + DataLen
           v == Covered(s, n)
           a == Table("pre", PRMBLE_LEN)
           c == [i \in 1 .. 8 |-> <<"crc", 9 - i, v>>]
<1>1. /\ P \in Nat /\ CoveredLen \in Nat /\ E = P + CoveredLen /\ E \in Nat /\ FrameLen = E + 8
      /\ PRMBLE_LEN \in Nat
  BY Lengths DEF CoveredLen
<1>2. v = [k \in 1 .. CoveredLen |-> CoveredAt(s, n, k)]
  BY CoveredIs
<1>3. a = [k \in 1 .. P |-> <<"pre", (k - 1) \div 2, (k - 1) % 2>>]
  BY <1>1, TableIs
<1>4. c = [k \in 1 .. 8 |-> c[k]] /\ \A k \in 1 .. 8 : c[k] = <<"crc", 9 - k, Covered(s, n)>>
  OBVIOUS
<1>5. DataFrame(s, n) = (a \o v) \o c
  BY DEF DataFrame
<1> HIDE DEF a, c, v
<1>6. a = [k \in 1 .. P |-> a[k]] /\ v = [k \in 1 .. CoveredLen |-> v[k]]
  BY <1>2, <1>3
<1> DEFINE d == a \o v
<1>7. d = [k \in 1 .. P + CoveredLen |-> IF k <= P THEN a[k] ELSE v[k - P]]
  <2>1. P \in Nat /\ CoveredLen \in Nat
    BY <1>1
  <2> HIDE DEF P
  <2> QED
    BY <1>6, <2>1, Joined
<1> HIDE DEF d
<1>8. d = [k \in 1 .. E |-> IF k <= P THEN a[k] ELSE v[k - P]]
  BY <1>1, <1>7
<1>9. d = [k \in 1 .. E |-> d[k]]
  BY <1>8
<1> HIDE DEF P, E
<1>10. d \o c = [k \in 1 .. E + 8 |-> IF k <= E THEN d[k] ELSE c[k - E]]
  <2>1. E \in Nat /\ 8 \in Nat
    BY <1>1
  <2> QED
    BY <1>4, <1>9, <2>1, Joined, SMTT(30)
<1>11. ASSUME NEW k \in 1 .. E + 8
       PROVE  (IF k <= E THEN d[k] ELSE c[k - E]) = FrameAt(s, n, k)
  <2>1. CASE k <= P
    <3>1. k \in 1 .. P /\ k \in 1 .. E
      BY <1>1, <2>1
    <3>2. d[k] = <<"pre", (k - 1) \div 2, (k - 1) % 2>>
      BY <1>3, <1>8, <2>1, <3>1
    <3> QED
      BY <2>1, <3>1, <3>2 DEF FrameAt, P
  <2>2. CASE P < k /\ k <= E
    <3>1. k \in 1 .. E /\ ~(k <= P) /\ k - P \in 1 .. CoveredLen
      BY <1>1, <2>2
    <3>2. d[k] = CoveredAt(s, n, k - P)
      BY <1>2, <1>8, <3>1
    <3> QED
      BY <2>2, <3>1, <3>2 DEF FrameAt, P, E
  <2>3. CASE E < k
    <3>1. ~(k <= E) /\ ~(k <= P) /\ k - E \in 1 .. 8
      BY <1>1, <2>3
    <3>2. c[k - E] = <<"crc", 9 - (k - E), Covered(s, n)>>
      BY <1>4, <3>1
    <3> QED
      BY <3>1, <3>2 DEF FrameAt, P, E
  <2> QED
    BY <1>1, <2>1, <2>2, <2>3
<1> QED
  BY <1>1, <1>5, <1>10, <1>11 DEF d

\* The answer to a status request, symbol by symbol.
LEMMA StatusFrameIs ==
  ASSUME NEW no
  PROVE  StatusFrame(no) = [k \in 1 .. AnswerLen |-> AnswerAt(no, k)]
<1> DEFINE P == 2 * PRMBLE_LEN
           R == 2 * RADAR_STATUS_LEN
           Z == 2 * ZEROS_LEN
           a == Table("pre", PRMBLE_LEN)
           b == Table("state", RADAR_STATUS_LEN)
           c == << <<"no", no, 0>>, <<"no", no, 1>> >>
           e == [i \in 1 .. Z |-> <<"zero">>]
<1>1. /\ P \in Nat /\ R \in Nat /\ Z \in Nat /\ AnswerLen = P + R + 2 + Z
      /\ PRMBLE_LEN \in Nat /\ RADAR_STATUS_LEN \in Nat
  BY Lengths
<1>2. a = [k \in 1 .. P |-> <<"pre", (k - 1) \div 2, (k - 1) % 2>>]
  BY <1>1, TableIs
<1>3. b = [k \in 1 .. R |-> <<"state", (k - 1) \div 2, (k - 1) % 2>>]
  BY <1>1, TableIs
<1>4. c = [k \in 1 .. 2 |-> c[k]] /\ c[1] = <<"no", no, 0>> /\ c[2] = <<"no", no, 1>>
  OBVIOUS
<1>5. e = [k \in 1 .. Z |-> e[k]] /\ \A k \in 1 .. Z : e[k] = <<"zero">>
  OBVIOUS
<1>6. StatusFrame(no) = ((a \o b) \o c) \o e
  BY DEF StatusFrame
<1> HIDE DEF a, b, c, e
<1>7. a = [k \in 1 .. P |-> a[k]] /\ b = [k \in 1 .. R |-> b[k]]
  BY <1>2, <1>3
<1> HIDE DEF P, R, Z
<1> DEFINE d == a \o b
           f == d \o c
<1>8. d = [k \in 1 .. P + R |-> IF k <= P THEN a[k] ELSE b[k - P]]
  <2>1. P \in Nat /\ R \in Nat
    BY <1>1
  <2> HIDE DEF f
  <2> QED
    BY <2>1, <1>7, Joined
<1>9. d = [k \in 1 .. P + R |-> d[k]] /\ P + R \in Nat /\ P + R + 2 \in Nat
  BY <1>1, <1>8
<1> HIDE DEF d
<1>10. f = [k \in 1 .. P + R + 2 |-> IF k <= P + R THEN d[k] ELSE c[k - (P + R)]]
  <2> DEFINE I == P + R
  <2>1. I \in Nat /\ 2 \in Nat /\ d = [k \in 1 .. I |-> d[k]] /\ c = [k \in 1 .. 2 |-> c[k]]
    BY <1>4, <1>9
  <2> HIDE DEF I
  <2>2. d \o c = [k \in 1 .. I + 2 |-> IF k <= I THEN d[k] ELSE c[k - I]]
    BY <2>1, Joined
  <2> QED
    BY <2>2 DEF I
<1>11. f = [k \in 1 .. P + R + 2 |-> f[k]]
  BY <1>10
<1> HIDE DEF f
<1>12. f \o e = [k \in 1 .. (P + R + 2) + Z |-> IF k <= P + R + 2 THEN f[k] ELSE e[k - (P + R + 2)]]
  <2> DEFINE I == P + R + 2
  <2>1. I \in Nat /\ Z \in Nat /\ f = [k \in 1 .. I |-> f[k]] /\ e = [k \in 1 .. Z |-> e[k]]
    BY <1>1, <1>5, <1>9, <1>11
  <2> HIDE DEF I
  <2>2. f \o e = [k \in 1 .. I + Z |-> IF k <= I THEN f[k] ELSE e[k - I]]
    BY <2>1, Joined
  <2> QED
    BY <2>2 DEF I
<1>13. ASSUME NEW k \in 1 .. (P + R + 2) + Z
       PROVE  (IF k <= P + R + 2 THEN f[k] ELSE e[k - (P + R + 2)]) = AnswerAt(no, k)
  <2>1. CASE k <= P
    <3>1. k \in 1 .. P /\ k \in 1 .. P + R /\ k \in 1 .. P + R + 2 /\ k <= P + R
      BY <1>1, <2>1
    <3>2. f[k] = <<"pre", (k - 1) \div 2, (k - 1) % 2>>
      BY <1>2, <1>8, <1>10, <2>1, <3>1
    <3>3. k <= P + R + 2
      BY <3>1
    <3> QED
      BY <2>1, <3>2, <3>3 DEF AnswerAt, P
  <2>2. CASE P < k /\ k <= P + R
    <3>1. k - P \in 1 .. R /\ k \in 1 .. P + R /\ k \in 1 .. P + R + 2 /\ ~(k <= P) /\ k <= P + R + 2
      BY <1>1, <2>2
    <3>2. f[k] = <<"state", (k - P - 1) \div 2, (k - P - 1) % 2>>
      BY <1>3, <1>8, <1>10, <2>2, <3>1
    <3> QED
      BY <2>2, <3>1, <3>2 DEF AnswerAt, P, R
  <2>3. CASE P + R < k /\ k <= P + R + 2
    <3>1. k \in 1 .. P + R + 2 /\ ~(k <= P) /\ ~(k <= P + R)
      BY <1>1, <2>3
    <3>2. f[k] = c[k - (P + R)]
      BY <1>10, <3>1
    <3>3. k = P + R + 1 \/ k = P + R + 2
      BY <1>1, <2>3
    <3>4. k - (P + R) = 1 \/ k - (P + R) = 2
      BY <1>1, <3>3
    <3>5. f[k] = <<"no", no, k - (P + R) - 1>>
      <4>1. CASE k - (P + R) = 1
        BY <1>4, <3>2, <4>1
      <4>2. CASE k - (P + R) = 2
        BY <1>4, <3>2, <4>2
      <4> QED
        BY <3>4, <4>1, <4>2
    <3> QED
      BY <2>3, <3>1, <3>5 DEF AnswerAt, P, R
  <2>4. CASE P + R + 2 < k
    <3>1. k - (P + R + 2) \in 1 .. Z /\ ~(k <= P) /\ ~(k <= P + R) /\ ~(k <= P + R + 2)
      BY <1>1, <2>4
    <3> QED
      BY <1>5, <3>1 DEF AnswerAt, P, R
  <2> QED
    BY <1>1, <2>1, <2>2, <2>3, <2>4
<1> QED
  BY <1>1, <1>6, <1>12, <1>13 DEF f, d

-----------------------------------------------------------------------------
(***************************************************************************)
(* Every frame that leaves is whole.                                       *)
(***************************************************************************)
\* The registers, the memory's output and the exponent are those of the sweep,
\* each where the frame shows it.
Matches(t, p, s, n, exp, nibble) ==
  /\ p = HeadLen - 4 => t.sig_dir = s
  /\ p = HeadLen - 3 => t.frame_num = n
  /\ p = HeadLen - 2 \/ p = HeadLen - 1 => exp = s
  /\ HeadLen <= p /\ p < HeadLen + DataLen => nibble = <<"nib", s, n * DataLen + (p - HeadLen + 1)>>
  /\ p >= HeadLen + DataLen => t.crc = Covered(s, n)

\* The symbol that leaves next is then the next one of the frame.
LEMMA SymbolIs ==
  ASSUME NEW t, NEW p \in 0 .. FrameLen - 1, NEW s, NEW n, NEW exp, NEW nibble,
         Matches(t, p, s, n, exp, nibble)
  PROVE  SymbolOf(t, p, exp, nibble) = FrameAt(s, n, p + 1)
<1> DEFINE P == 2 * PRMBLE_LEN
           H == 2 * HEADER_LEN
           D == DataLen
<1>1. /\ P \in Nat /\ H \in Nat /\ D \in Nat /\ HeadLen = P + H + 4 /\ FrameLen = HeadLen + D + 8
      /\ p \in Nat /\ p < FrameLen
  BY Lengths
<1> DEFINE k == p + 1
           j == k - P
<1>2. /\ k \in Int /\ j \in Int /\ k - 1 = p /\ j - 1 = p - P
      /\ k <= P <=> p < P
      /\ k <= HeadLen + D <=> p < HeadLen + D
      /\ j <= H <=> p < HeadLen - 4
      /\ j = H + 1 <=> p = HeadLen - 4
      /\ j = H + 2 <=> p = HeadLen - 3
      /\ j = H + 3 <=> p = HeadLen - 2
      /\ j = H + 4 <=> p = HeadLen - 1
      /\ j - (H + 4) = p - HeadLen + 1
      /\ 9 - (k - (HeadLen + D)) = FrameLen - p
  BY <1>1
<1>3. FrameAt(s, n, k) = IF k <= P THEN <<"pre", (k - 1) \div 2, (k - 1) % 2>>
                         ELSE IF k <= HeadLen + D THEN CoveredAt(s, n, j)
                         ELSE <<"crc", 9 - (k - (HeadLen + D)), Covered(s, n)>>
  BY DEF FrameAt
<1>4. CoveredAt(s, n, j) = IF j <= H THEN <<"mac", (j - 1) \div 2, (j - 1) % 2>>
                           ELSE IF j = H + 1 THEN <<"dir", s>>
                           ELSE IF j = H + 2 THEN <<"num", n>>
                           ELSE IF j = H + 3 THEN <<"exp", s, 0>>
                           ELSE IF j = H + 4 THEN <<"exp", s, 1>>
                           ELSE <<"nib", s, n * DataLen + (j - (H + 4))>>
  BY DEF CoveredAt
<1>5. SymbolOf(t, p, exp, nibble) =
        IF p < P THEN <<"pre", p \div 2, p % 2>>
        ELSE IF p < HeadLen - 4 THEN <<"mac", (p - P) \div 2, (p - P) % 2>>
        ELSE IF p = HeadLen - 4 THEN <<"dir", t.sig_dir>>
        ELSE IF p = HeadLen - 3 THEN <<"num", t.frame_num>>
        ELSE IF p = HeadLen - 2 THEN <<"exp", exp, 0>>
        ELSE IF p = HeadLen - 1 THEN <<"exp", exp, 1>>
        ELSE IF p < HeadLen + D THEN nibble
        ELSE <<"crc", FrameLen - p, t.crc>>
  BY DEF SymbolOf
<1>10. /\ p = HeadLen - 4 => t.sig_dir = s
       /\ p = HeadLen - 3 => t.frame_num = n
       /\ p = HeadLen - 2 \/ p = HeadLen - 1 => exp = s
       /\ HeadLen <= p /\ p < HeadLen + DataLen => nibble = <<"nib", s, n * DataLen + (p - HeadLen + 1)>>
       /\ p >= HeadLen + DataLen => t.crc = Covered(s, n)
  BY DEF Matches
<1> HIDE DEF k, j, P, H, D
<1>6. CASE p < P
  BY <1>2, <1>3, <1>5, <1>6
<1>7. CASE ~(p < P) /\ p < HeadLen - 4
  <2>1. p < HeadLen + D
    BY <1>1, <1>7
  <2> QED
    BY <1>2, <1>3, <1>4, <1>5, <1>7, <2>1
<1>8. CASE p \in {HeadLen - 4, HeadLen - 3, HeadLen - 2, HeadLen - 1}
  <2>1. ~(p < P) /\ ~(p < HeadLen - 4) /\ p < HeadLen + D
    BY <1>1, <1>8
  <2>2. CASE p = HeadLen - 4
    BY <1>2, <1>3, <1>4, <1>5, <1>10, <2>1, <2>2
  <2>3. CASE p = HeadLen - 3
    <3>1. p # HeadLen - 4
      BY <1>1, <2>3
    <3> QED
      BY <1>2, <1>3, <1>4, <1>5, <1>10, <2>1, <2>3, <3>1
  <2>4. CASE p = HeadLen - 2
    <3>1. p # HeadLen - 4 /\ p # HeadLen - 3
      BY <1>1, <2>4
    <3> QED
      BY <1>2, <1>3, <1>4, <1>5, <1>10, <2>1, <2>4, <3>1
  <2>5. CASE p = HeadLen - 1
    <3>1. p # HeadLen - 4 /\ p # HeadLen - 3 /\ p # HeadLen - 2
      BY <1>1, <2>5
    <3> QED
      BY <1>2, <1>3, <1>4, <1>5, <1>10, <2>1, <2>5, <3>1
  <2> QED
    BY <1>8, <2>2, <2>3, <2>4, <2>5
<1>9. CASE HeadLen <= p
  <2>1. ~(p < P) /\ ~(p < HeadLen - 4) /\ p # HeadLen - 4 /\ p # HeadLen - 3
        /\ p # HeadLen - 2 /\ p # HeadLen - 1
    BY <1>1, <1>9
  <2>2. CASE p < HeadLen + D
    <3>1. nibble = <<"nib", s, n * DataLen + (p - HeadLen + 1)>>
      BY <1>9, <1>10, <2>2 DEF D
    <3>2. SymbolOf(t, p, exp, nibble) = nibble
      BY <1>5, <2>1, <2>2
    <3>3. FrameAt(s, n, k) = <<"nib", s, n * DataLen + (j - (H + 4))>>
      BY <1>2, <1>3, <1>4, <2>1, <2>2
    <3> QED
      BY <1>2, <3>1, <3>2, <3>3 DEF k
  <2>3. CASE ~(p < HeadLen + D)
    <3>1. t.crc = Covered(s, n)
      <4>1. p >= HeadLen + DataLen
        BY <1>1, <2>3 DEF D
      <4> QED
        BY <1>10, <4>1
    <3>2. SymbolOf(t, p, exp, nibble) = <<"crc", FrameLen - p, Covered(s, n)>>
      BY <1>5, <1>10, <2>1, <2>3, <3>1
    <3>3. FrameAt(s, n, k) = <<"crc", 9 - (k - (HeadLen + D)), Covered(s, n)>>
      BY <1>2, <1>3, <2>1, <2>3
    <3> QED
      BY <1>2, <3>2, <3>3 DEF k
  <2> QED
    BY <2>2, <2>3
<1> QED
  BY <1>1, <1>6, <1>7, <1>8, <1>9 DEF k

\* The same for the answer to a status request.
LEMMA AnswerIs ==
  ASSUME NEW t, NEW a \in 0 .. AnswerLen - 1
  PROVE  AnswerOf(t, a) = AnswerAt(t.request_number, a + 1)
<1> DEFINE P == 2 * PRMBLE_LEN
           R == 2 * RADAR_STATUS_LEN
           no == t.request_number
           k == a + 1
<1>1. P \in Nat /\ R \in Nat /\ a \in Nat
  BY Lengths
<1>2. /\ k - 1 = a /\ k - P - 1 = a - P /\ k - (P + R) - 1 = a - (P + R)
      /\ k <= P <=> a < P
      /\ k <= P + R <=> a < P + R
      /\ k <= P + R + 2 <=> a < P + R + 2
  BY <1>1
<1>3. AnswerAt(no, k) = IF k <= P THEN <<"pre", (k - 1) \div 2, (k - 1) % 2>>
                        ELSE IF k <= P + R THEN <<"state", (k - P - 1) \div 2, (k - P - 1) % 2>>
                        ELSE IF k <= P + R + 2 THEN <<"no", no, k - (P + R) - 1>>
                        ELSE <<"zero">>
  BY DEF AnswerAt
<1>4. AnswerOf(t, a) = IF a < P THEN <<"pre", a \div 2, a % 2>>
                       ELSE IF a < P + R THEN <<"state", (a - P) \div 2, (a - P) % 2>>
                       ELSE IF a < P + R + 2 THEN <<"no", no, a - (P + R)>>
                       ELSE <<"zero">>
  BY DEF AnswerOf
<1> HIDE DEF P, R, no, k
<1>5. AnswerOf(t, a) = AnswerAt(no, k)
  BY <1>2, <1>3, <1>4
<1> QED
  BY <1>5 DEF no, k

\* The frame so far, with the symbol that leaves.
LEMMA FrameGrows ==
  ASSUME History, tx'.dv, NEW m \in Nat, NEW f, f = [k \in 1 .. m |-> f[k]],
         tx.dv => frame = f, ~tx.dv => f = <<>>
  PROVE  frame' = [k \in 1 .. m + 1 |-> IF k <= m THEN f[k] ELSE tx'.out]
<1>1. frame' = Append(f, tx'.out)
  BY DEF History
<1> QED
  BY <1>1, Extended

\* The frame on the wire and its checksum, while the nibbles of it leave.
LEMMA DrawnSends ==
  ASSUME SenderInv, SenderInv', NoInput \/ Source, History, TxEvent, Contents, Labels, Drawn, SendsNibble
  PROVE  Drawn'
<1>1. /\ TxInv /\ TxInv' /\ SourceInv /\ TxGood(tx) /\ TxGood(tx') /\ MemoryType
  BY DEF SenderInv, TxInv, PaceInv
<1>2. /\ tx.stm \in Sending /\ tx'.dv /\ tx'.request_number = tx.request_number
      /\ Phase \in 0 .. FrameLen - 1
      /\ Phase < FrameLen - 1 => tx'.stm \in Sending /\ Phase' = Phase + 1
      /\ Phase = FrameLen - 1 => tx'.stm \in {"STARTING", "DELAYING"}
      /\ tx'.out = SymbolOf(tx, Phase, expReg, q)
      /\ tx'.crc = (IF 2 * PRMBLE_LEN <= Phase /\ Phase < HeadLen + DataLen
                    THEN Append(tx.crc, tx'.out) ELSE tx.crc)
  BY DEF SendsNibble, Nibbled
<1>3. Streaming /\ tx.stm # "STARTING" /\ tx.stm # "DELAYING"
  BY <1>2, StreamingIs DEF StreamingFacts, Sending, Header, CrcStates
<1>4. /\ Streaming' /\ InTime /\ Done \in Nat /\ sweep \in Nat
      /\ sweep' = sweep /\ Index' = Index + (IF LastNibble THEN 1 ELSE 0)
  BY <1>3, Indices
<1>5. Index \in 0 .. 3
  BY <1>1, <1>2, <1>3, <1>4, InTimeIs
<1> DEFINE p == Phase
           s == sweep
           n == Index
           out == tx'.out
<1>6. /\ HeadLen \in Nat /\ HeadLen >= 8 /\ DataLen \in Nat /\ DataLen >= 4
      /\ PRMBLE_LEN \in Nat /\ PRMBLE_LEN >= 1 /\ 2 * PRMBLE_LEN < HeadLen - 4
      /\ FrameLen = HeadLen + DataLen + 8 /\ FrameLen \in Nat /\ CoveredLen = HeadLen + DataLen - 2 * PRMBLE_LEN
      /\ p \in Nat /\ p <= FrameLen - 1
  <2>1. 2 * PRMBLE_LEN < HeadLen - 4
    BY Lengths
  <2> QED
    BY <1>2, <2>1, Lengths DEF CoveredLen
<1>7. out = FrameAt(s, n, p + 1)
  <2>1. p = HeadLen - 4 => tx.sig_dir = s
    BY <1>2, <1>6 DEF Labels
  <2>2. p = HeadLen - 3 => tx.frame_num = n
    <3>1. p = HeadLen - 3 => tx.stm \in Header
      BY <1>1, <1>2, <1>6, PhaseRange DEF Phase
    <3> QED
      BY <1>4, <3>1 DEF InTime
  <2>3. p = HeadLen - 2 \/ p = HeadLen - 1 => expReg = s
    <3>1. p = HeadLen - 2 \/ p = HeadLen - 1 => p >= 2
      BY <1>6
    <3> QED
      BY <1>2, <3>1 DEF Labels
  <2>4. HeadLen <= p /\ p < HeadLen + DataLen => q = <<"nib", s, n * DataLen + (p - HeadLen + 1)>>
    <3> SUFFICES ASSUME HeadLen <= p, p < HeadLen + DataLen
                 PROVE  q = <<"nib", s, n * DataLen + (p - HeadLen + 1)>>
      OBVIOUS
    <3>1. FetchedAt(p) = p - HeadLen + 1
      BY <1>6 DEF FetchedAt
    <3>2. Fetched = p - HeadLen + 1 /\ Fetched > 0
      BY <1>6, <3>1 DEF Fetched
    <3> QED
      BY <1>2, <3>2 DEF Contents
  <2>5. p >= HeadLen + DataLen => tx.crc = Covered(s, n)
    <3>1. p >= HeadLen + DataLen => CrcLen(p) = CoveredLen
      BY <1>6 DEF CrcLen
    <3>2. tx.crc = [k \in 1 .. CrcLen(p) |-> CoveredAt(s, n, k)]
      BY <1>2 DEF Drawn
    <3> QED
      BY <1>5, <3>1, <3>2, CoveredIs
  <2>6. Matches(tx, p, s, n, expReg, q)
    BY <2>1, <2>2, <2>3, <2>4, <2>5 DEF Matches
  <2>7. p \in 0 .. FrameLen - 1
    BY <1>2
  <2> QED
    BY <1>2, <2>6, <2>7, SymbolIs
<1>8. frame' = [k \in 1 .. p + 1 |-> FrameAt(s, n, k)]
  <2> DEFINE f == [k \in 1 .. p |-> FrameAt(s, n, k)]
  <2>1. tx.dv <=> p # 0
    BY <1>1, <1>2 DEF TxGood, TxValid, Phase
  <2>2. tx.dv => frame = f
    <3>1. tx.dv => p >= 1
      BY <1>6, <2>1
    <3> QED
      BY <1>2, <3>1 DEF Drawn
  <2>3. ~tx.dv => f = <<>>
    BY <2>1
  <2>4. f = [k \in 1 .. p |-> f[k]] /\ \A k \in 1 .. p : f[k] = FrameAt(s, n, k)
    OBVIOUS
  <2> HIDE DEF f, p, s, n, out
  <2>5. frame' = [k \in 1 .. p + 1 |-> IF k <= p THEN f[k] ELSE out]
    BY <1>2, <1>6, <2>2, <2>3, <2>4, FrameGrows DEF out
  <2>6. ASSUME NEW k \in 1 .. p + 1
        PROVE  (IF k <= p THEN f[k] ELSE out) = FrameAt(s, n, k)
    <3>1. k \in 1 .. p \/ k = p + 1
      BY <1>6
    <3> QED
      BY <1>6, <1>7, <2>4, <3>1, SMTT(30)
  <2> QED
    BY <2>5, <2>6
<1>9. CASE p < FrameLen - 1
  <2>1. tx'.stm \in Sending /\ Phase' = p + 1
    BY <1>2, <1>9
  <2>2. Index' = n
    <3>1. ~LastNibble
      BY <1>6, <1>9 DEF LastNibble
    <3> QED
      BY <1>4, <1>5, <3>1
  <2>3. tx'.stm \notin Answering \cup {"STARTING", "DELAYING", "WAITING_REQUEST"}
    BY <2>1, AnsweringIs DEF Sending, Header, CrcStates
  <2>4. tx.crc = [k \in 1 .. CrcLen(p) |-> CoveredAt(s, n, k)]
    BY <1>2 DEF Drawn
  <2>5. tx'.crc = [k \in 1 .. CrcLen(p + 1) |-> CoveredAt(s, n, k)]
    <3>1. CASE 2 * PRMBLE_LEN <= p /\ p < HeadLen + DataLen
      <4> DEFINE m == p - 2 * PRMBLE_LEN
                 f == [k \in 1 .. m |-> CoveredAt(s, n, k)]
      <4>1. m \in Nat /\ CrcLen(p) = m /\ CrcLen(p + 1) = m + 1 /\ (p + 1) - 2 * PRMBLE_LEN = m + 1
            /\ ~(p + 1 <= 2 * PRMBLE_LEN) /\ p + 1 <= HeadLen + DataLen
        BY <1>6, <3>1 DEF CrcLen
      <4>2. out = CoveredAt(s, n, m + 1)
        BY <1>7, <4>1 DEF FrameAt
      <4>3. tx.crc = f /\ tx'.crc = Append(f, out)
        BY <1>2, <2>4, <3>1, <4>1
      <4>4. f = [k \in 1 .. m |-> f[k]] /\ \A k \in 1 .. m : f[k] = CoveredAt(s, n, k)
        OBVIOUS
      <4> HIDE DEF f, m, out, s, n
      <4>5. Append(f, out) = [k \in 1 .. m + 1 |-> IF k <= m THEN f[k] ELSE out]
        BY <4>1, <4>4, Extended
      <4>6. ASSUME NEW k \in 1 .. m + 1
            PROVE  (IF k <= m THEN f[k] ELSE out) = CoveredAt(s, n, k)
        <5>1. k \in 1 .. m \/ k = m + 1
          BY <4>1
        <5> QED
          BY <4>1, <4>2, <4>4, <5>1
      <4> QED
        BY <4>1, <4>3, <4>5, <4>6
    <3>2. CASE ~(2 * PRMBLE_LEN <= p /\ p < HeadLen + DataLen)
      <4>1. CrcLen(p + 1) = CrcLen(p)
        BY <1>6, <1>9, <3>2 DEF CrcLen
      <4>2. tx'.crc = tx.crc
        BY <1>2, <3>2
      <4> QED
        BY <2>4, <4>1, <4>2
    <3> QED
      BY <3>1, <3>2
  <2> QED
    BY <1>4, <1>8, <2>1, <2>2, <2>3, <2>5 DEF Drawn
<1>10. CASE p = FrameLen - 1
  <2>1. tx'.stm \in {"STARTING", "DELAYING"}
    BY <1>2, <1>10
  <2>2. tx'.stm \notin Sending /\ tx'.stm \notin Answering /\ tx'.stm # "WAITING_REQUEST"
    BY <2>1, AnsweringIs DEF Sending, Header, CrcStates
  <2>3. frame' = DataFrame(s, n)
    <3>1. p + 1 = FrameLen
      BY <1>6, <1>10
    <3> QED
      BY <1>5, <1>8, <3>1, DataFrameIs
  <2>4. sentFrames' \div Frames + 1 = s /\ sentFrames' % Frames = n
    <3>1. sentFrames' = sentFrames /\ sentFrames \in Nat
      BY <1>1, <1>2 DEF History, MemoryType
    <3>2. Done = sentFrames
      BY <1>1, <1>3, <3>1 DEF Done
    <3>3. s \in Nat /\ n = sentFrames - 4 * (s - 1)
      BY <1>4, <3>2 DEF Index
    <3>4. sentFrames = 4 * (s - 1) + n /\ n \in 0 .. 3
      BY <1>5, <3>1, <3>3
    <3>5. sentFrames \div 4 = s - 1 /\ sentFrames % 4 = n
      <4> HIDE DEF s, n
      <4> QED
        BY <3>1, <3>3, <3>4, Quarters
    <3> QED
      BY <3>1, <3>3, <3>5 DEF Frames
  <2> QED
    BY <2>1, <2>2, <2>3, <2>4 DEF Drawn
<1> QED
  BY <1>6, <1>9, <1>10

\* The same for the answer to a status request.
LEMMA DrawnTells ==
  ASSUME TxInv, TxInv', History, Drawn, TellsNibble
  PROVE  Drawn'
<1>1. /\ tx.stm \in Answering /\ tx'.dv /\ tx'.request_number = tx.request_number
      /\ Answered \in 0 .. AnswerLen - 1
      /\ IF Answered < AnswerLen - 1 THEN tx'.stm \in Answering /\ Answered' = Answered + 1
         ELSE tx'.stm = "WAITING_REQUEST"
      /\ tx'.out = AnswerOf(tx, Answered)
  BY DEF TellsNibble, Told
<1> DEFINE a == Answered
           no == tx.request_number
           f == [k \in 1 .. a |-> AnswerAt(no, k)]
           out == tx'.out
<1>2. out = AnswerAt(no, a + 1)
  BY <1>1, AnswerIs
<1>3. tx.dv <=> a # 0
  BY <1>1 DEF TxInv, TxGood, TxValid, Answered
<1>4. a \in Nat /\ AnswerLen \in Nat
  BY <1>1, Lengths
<1>5. tx.dv => frame = f
  <2>1. tx.dv => a >= 1
    BY <1>3, <1>4
  <2> QED
    BY <1>1, <2>1 DEF Drawn
<1>6. ~tx.dv => f = <<>>
  BY <1>3
<1>7. f = [k \in 1 .. a |-> f[k]] /\ \A k \in 1 .. a : f[k] = AnswerAt(no, k)
  OBVIOUS
<1>8. frame' = [k \in 1 .. a + 1 |-> AnswerAt(no, k)]
  <2> HIDE DEF f, a, no, out
  <2>1. frame' = [k \in 1 .. a + 1 |-> IF k <= a THEN f[k] ELSE out]
    BY <1>1, <1>4, <1>5, <1>6, <1>7, FrameGrows DEF out
  <2>2. ASSUME NEW k \in 1 .. a + 1
        PROVE  (IF k <= a THEN f[k] ELSE out) = AnswerAt(no, k)
    <3>1. k \in 1 .. a \/ k = a + 1
      BY <1>4
    <3> QED
      BY <1>2, <1>4, <1>7, <3>1
  <2> QED
    BY <2>1, <2>2
<1>9. CASE a < AnswerLen - 1
  <2>1. tx'.stm \in Answering /\ Answered' = a + 1
    BY <1>1, <1>9
  <2>2. tx'.stm \notin Sending \cup {"STARTING", "DELAYING", "WAITING_REQUEST"}
    BY <2>1, AnsweringIs
  <2> QED
    BY <1>1, <1>8, <2>1, <2>2 DEF Drawn
<1>10. CASE ~(a < AnswerLen - 1)
  <2>1. tx'.stm = "WAITING_REQUEST" /\ a + 1 = AnswerLen
    BY <1>1, <1>4, <1>10
  <2>2. tx'.stm \notin Sending \cup {"STARTING", "DELAYING"} \cup Answering
    BY <2>1 DEF Sending, Header, CrcStates, Answering
  <2>3. frame' = StatusFrame(no)
    BY <1>8, <2>1, StatusFrameIs
  <2> QED
    BY <1>1, <2>1, <2>2, <2>3 DEF Drawn
<1> QED
  BY <1>9, <1>10

\* The frame on the wire, whatever the transmitter does.
LEMMA DrawnStep ==
  ASSUME SenderInv, SenderInv', TxEvent, NoInput \/ Source, History, Contents, Labels, Drawn
  PROVE  Drawn'
<1>1. TxInv /\ TxInv'
  BY DEF SenderInv
<1>2. CASE SendsNibble
  BY <1>2, DrawnSends
<1>3. CASE TellsNibble
  BY <1>1, <1>3, DrawnTells
<1>4. CASE Listens(tx, tx', Answered')
  <2>1. ~tx'.dv /\ (tx'.stm \in {"STARTING", "WAITING_REQUEST"} \/ (tx'.stm \in Answering /\ Answered' = 0))
    BY <1>4 DEF Listens
  <2>2. tx'.stm \notin Sending
    BY <2>1, AnsweringIs DEF Sending, Header, CrcStates
  <2>3. ~(tx'.stm \in Answering /\ Answered' >= 1)
    BY <2>1 DEF Answering
  <2> QED
    BY <2>1, <2>2, <2>3 DEF Drawn
<1>5. CASE Waits(tx, tx', Phase')
  <2>1. ~tx'.dv /\ tx'.crc = <<>>
        /\ (tx'.stm \in {"STARTING", "WAITING"} \/ (tx'.stm \in Sending /\ Phase' = 0))
    BY <1>5 DEF Waits
  <2>2. tx'.stm \notin Answering
    BY <2>1 DEF Answering, Sending, Header, CrcStates
  <2>3. tx'.stm \in Sending => Phase' = 0 /\ ~(Phase' >= 1)
    BY <2>1 DEF Sending, Header, CrcStates
  <2>4. CrcLen(0) = 0
    BY Lengths DEF CrcLen
  <2>5. tx'.stm \in Sending => tx'.crc = [k \in 1 .. CrcLen(Phase') |-> CoveredAt(sweep', Index', k)]
    BY <2>1, <2>3, <2>4
  <2> QED
    BY <2>1, <2>2, <2>3, <2>5 DEF Drawn
<1>6. CASE Delays(tx, tx')
  <2>1. ~tx'.dv /\ tx'.stm \in {"DELAYING", "WAITING"}
    BY <1>6 DEF Delays
  <2>2. tx'.stm \notin Sending /\ tx'.stm \notin Answering
    BY <2>1 DEF Sending, Header, CrcStates, Answering
  <2> QED
    BY <2>1, <2>2 DEF Drawn
<1> QED
  BY <1>2, <1>3, <1>4, <1>5, <1>6 DEF TxEvent

\* Nothing was sent after the reset.
LEMMA DrawnInit == Init => Contents /\ Labels /\ Drawn
<1> SUFFICES ASSUME Init PROVE Contents /\ Labels /\ Drawn
  OBVIOUS
<1>1. /\ tx.stm = "WAITING_REQUEST" /\ ~tx.dv /\ words = <<>> /\ expOut = 0 /\ dirOut = 0
  BY DEF Init
<1>2. tx.stm \notin Sending /\ tx.stm \notin Answering /\ tx.stm \notin {"STARTING", "DELAYING", "WAITING"}
  BY <1>1 DEF Sending, Header, CrcStates, Answering
<1>3. ~Streaming
  BY <1>1, StreamingIs DEF StreamingFacts
<1>4. \A k \in 1 .. Len(words) : words[k] = <<1, k>>
  BY <1>1
<1> QED
  BY <1>1, <1>2, <1>3, <1>4 DEF Contents, Labels, Drawn

\* Nothing is sent when nothing happens.
LEMMA DrawnStutter ==
  Contents /\ Labels /\ Drawn /\ UNCHANGED vars => Contents' /\ Labels' /\ Drawn'
<1> SUFFICES ASSUME Contents, Labels, Drawn, UNCHANGED vars PROVE Contents' /\ Labels' /\ Drawn'
  OBVIOUS
<1>1. /\ tx' = tx /\ words' = words /\ part' = part /\ q' = q /\ dataMux' = dataMux
      /\ expOut' = expOut /\ dirOut' = dirOut /\ expReg' = expReg /\ dirReg' = dirReg
      /\ sweep' = sweep /\ frame' = frame /\ sentFrames' = sentFrames
  BY DEF vars, fifoVars, sideVars, sourceVars
<1>2. Phase' = Phase /\ Answered' = Answered /\ (Streaming' <=> Streaming) /\ Done' = Done
  BY <1>1 DEF Phase, Answered, Streaming, Done
<1>3. Index' = Index /\ Fetched' = Fetched
  BY <1>1, <1>2 DEF Index, Fetched
<1>4. Taken' = Taken
  BY <1>3 DEF Taken
<1>5. Contents'
  BY <1>1, <1>2, <1>3, <1>4 DEF Contents
<1>6. Labels'
  BY <1>1, <1>2, <1>3 DEF Labels
<1>7. Drawn'
  BY <1>1, <1>2, <1>3 DEF Drawn
<1> QED
  BY <1>5, <1>6, <1>7

\* Every frame that leaves the board is whole.
THEOREM SenderFramesWhole == Spec => FramesWhole
<1> DEFINE J == SenderInv /\ Contents /\ Labels /\ Drawn
           A == tx.dv /\ ~tx'.dv =>
                  \/ frame = StatusFrame(tx.request_number)
                  \/ frame = DataFrame(sentFrames \div Frames + 1, sentFrames % Frames)
<1>1. Init => J
  BY InitSender, DrawnInit
<1>2. J /\ [Next]_vars => J'
  <2>1. ASSUME J, Next PROVE J'
    <3>1. SenderInv' /\ TxEvent /\ (NoInput \/ Source) /\ History
      BY <2>1, NextSender DEF Next
    <3> QED
      BY <2>1, <3>1, ContentsStep, LabelsStep, DrawnStep
  <2> QED
    BY <2>1, StutterSender, DrawnStutter
<1>3. J /\ [Next]_vars => [A]_vars
  <2> SUFFICES ASSUME J, Next, tx.dv, ~tx'.dv
               PROVE  \/ frame = StatusFrame(tx.request_number)
                      \/ frame = DataFrame(sentFrames \div Frames + 1, sentFrames % Frames)
    OBVIOUS
  <2>1. TxEvent /\ TxInv
    BY NextSender DEF SenderInv
  <2>2. Listens(tx, tx', Answered') \/ Waits(tx, tx', Phase') \/ Delays(tx, tx')
    BY <2>1 DEF TxEvent, SendsNibble, Nibbled, TellsNibble, Told
  <2>3. tx.stm \in {"WAITING_REQUEST", "STARTING", "DELAYING"}
    BY <2>1, <2>2 DEF Listens, Waits, Delays, TxInv, TxGood, TxValid
  <2> QED
    BY <2>3 DEF Drawn
<1> QED
  BY <1>1, <1>2, <1>3, PTL DEF Spec, FramesWhole

-----------------------------------------------------------------------------
(***************************************************************************)
(* The memory, and the numbers of the code.                                *)
(***************************************************************************)
\* No sample is dropped while data is sent, because there is a place for each
\* word that comes, and none is asked of an empty memory (fifo_all.vhd:82-98).
KeepsUp ==
  Streaming => /\ dataMux # NoWord => Len(words) < FifoWords
               /\ tx.rd_data => words # <<>>

THEOREM SenderKeepsUp == Spec => []KeepsUp
<1>1. SenderInv => KeepsUp
  <2> SUFFICES ASSUME SenderInv, Streaming
               PROVE  /\ dataMux # NoWord => Len(words) < FifoWords
                      /\ tx.rd_data => words # <<>>
    BY DEF KeepsUp
  <2>1. TxInv /\ SourceInv /\ MemoryType /\ InTime
    BY DEF SenderInv, PaceInv
  <2>2. /\ dataMux # NoWord => Len(words) < FifoWords
        /\ tx.rd_data => Len(words) > 0
    BY <2>1, Room
  <2>3. words = <<>> => Len(words) = 0
    OBVIOUS
  <2> QED
    BY <2>2, <2>3
<1> QED
  BY <1>1, SenderInvariant, PTL

\* The assumptions hold of the lengths in send_udp.vhd and fifo_all.vhd, of the
\* pace of tb.vhd (a sample takes 25 edges, signal_start comes every 16384 samples
\* in line 176, and at least 10000 of them after the last word of a sweep; 298
\* are enough) and of a client that sends whole Ethernet frames (84 bytes with
\* preamble and gap, two edges each) and asks before 508 words wait.
THEOREM CodeIsPaced ==
  ASSUME PRMBLE_LEN = 8, HEADER_LEN = 42, DATAFRAME_LEN = 512, RADAR_STATUS_LEN = 43, ZEROS_LEN = 16,
         DelayMax = 31, FifoWords = 512, WordGap = 25, SweepGap = 250000, MinIdle = 24,
         RequestGap = 168, Window = 507
  PROVE  PaceAssumption /\ GapAssumption
<1>1. /\ FrameTime = 6400 /\ HeadLen = 104 /\ FrameLen = 1136 /\ CycleTime = 1169 /\ AnswerLen = 136
      /\ Window * WordGap + 1 = 12676
  BY DEF FrameTime, FrameWords, HeadLen, FrameLen, DataLen, CycleTime, AnswerLen
<1>2. Later(FrameTime - WordGap, Window * WordGap + 1) = 12676 /\ Later(FrameTime, CycleTime) = 6400
  BY <1>1 DEF Later
<1>3. Start(0) = 12680 /\ Start(1) = 19080 /\ Start(2) = 25480 /\ Start(3) = 31880
  BY <1>2 DEF Start
<1>4. PaceAssumption
  BY <1>1, <1>3 DEF PaceAssumption
<1>5. GapAssumption
  BY <1>1 DEF GapAssumption
<1> QED
  BY <1>4, <1>5
=============================================================================
