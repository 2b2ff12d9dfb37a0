------------------------------- MODULE AFifo -------------------------------
(***************************************************************************)
(* aFifo.vhd with its two GrayCounters: a memory with a writing and a      *)
(* reading port in different clock domains, flags that are set at once     *)
(* when the pointers meet and cleared by the next edge of their own clock. *)
(*                                                                         *)
(* A pointer is the Gray code of a count.  The model keeps the count: the  *)
(* code is one to one, so equal pointers are equal counts, and the two     *)
(* upper bits that the quadrant selectors look at follow from it.  The     *)
(* memory holds the numbers of the words written, 0 before the first.      *)
(***************************************************************************)
EXTENDS Integers, AFifoCounts

CONSTANTS
  Depth,      \* 2**ADDR_WIDTH
  MaxWords,   \* bound: words accepted by the writing port
  MaxWrEdges  \* edges of WClk between two edges of RClk, at most

ASSUME FifoAssumption ==
  /\ Depth \in Nat /\ Depth >= 4 /\ Depth % 4 = 0  \* ADDR_WIDTH is 2 or more
  /\ MaxWords \in Nat
  /\ MaxWrEdges \in Nat \ {0}

VARIABLES
  wrBin, wrPtr,     \* BinaryCount and GrayCount_out of GrayCounter_pWr
  rdBin, rdPtr,     \* the same of GrayCounter_pRd
  status,           \* the latch: the last move brought the pointers nearer to "full"
  full, empty,      \* the flags of the two ports
  mem,              \* Mem
  rdAddr, dataOut,  \* read_addrb and Data_out
  written, taken,   \* history: words accepted, reads accepted
  fetching,         \* history: the number of the read that rdAddr belongs to, or 0
  got,              \* history: the number of the read that dataOut answers, or 0
  settled,          \* history: edges of RClk since a pointer moved, up to 2
  wrEdges           \* edges of WClk since the last edge of RClk

counters == <<wrBin, wrPtr, rdBin, rdPtr>>
history == <<written, taken, fetching, got, settled, wrEdges>>
aFifoVars == <<counters, status, full, empty, mem, rdAddr, dataOut, history>>

Address == 0 .. Depth - 1

Succ(p) == IF p + 1 = Depth THEN 0 ELSE p + 1

\* After a reset that lasted for an edge of either clock.
AFifoInit ==
  /\ wrBin = 1 /\ wrPtr = 1 /\ rdBin = 1 /\ rdPtr = 1
  /\ status = FALSE /\ full = FALSE /\ empty = TRUE
  /\ mem = [a \in Address |-> 0]
  /\ rdAddr = 1 /\ dataOut = 0
  /\ written = 0 /\ taken = 0 /\ fetching = 0 /\ got = 0 /\ settled = 0 /\ wrEdges = 0

\* The two upper bits of the Gray code of p.
UpperBit(p) == 2 * p >= Depth
NextBit(p)  == 4 * p >= Depth /\ 4 * p < 3 * Depth

\* The quadrant selectors: w is one quadrant behind r, or one ahead of it.
SetStatus(w, r) == NextBit(w) = UpperBit(r) /\ UpperBit(w) # NextBit(r)
RstStatus(w, r) == NextBit(w) # UpperBit(r) /\ UpperBit(w) = NextBit(r)

\* Mutant: the latch is never reset.
LatchSticky(w, r, s) == s \/ SetStatus(w, r)

Latch(w, r, s) == ~RstStatus(w, r) /\ (SetStatus(w, r) \/ s)

\* Mutants: a full FIFO accepts words; an empty one is read.
AcceptsAlways(we) == we
GivesAlways(re) == re

Accepts(we) == we /\ ~full
Gives(re)   == re /\ ~empty

\* Mutant: the pointer and the count move together, also from the start.
PointAhead(ptr, bin, en) == IF en THEN Succ(bin) ELSE ptr

\* A GrayCounter: the pointer takes over the count of before the edge, so
\* the first edge after a reset leaves it where it is.
Count(bin, en) == IF en THEN Succ(bin) ELSE bin
Point(ptr, bin, en) == IF en THEN bin ELSE ptr

\* The memory and its registered reading port, at the same edges.
Ports(w, wEn, r) ==
  /\ mem' = IF wEn THEN [mem EXCEPT ![wrPtr] = written + 1] ELSE mem
  /\ rdAddr' = IF r THEN rdPtr ELSE rdAddr
  /\ dataOut' = IF r THEN mem[rdAddr] ELSE dataOut

AFifoHistory(w, wEn, r, rEn) ==
  /\ written' = IF wEn THEN written + 1 ELSE written
  /\ taken' = IF rEn THEN taken + 1 ELSE taken
  /\ got' = IF r THEN fetching ELSE got
  /\ fetching' = IF rEn THEN taken + 1 ELSE IF r THEN 0 ELSE fetching
  /\ settled' = IF wEn \/ rEn THEN 0 ELSE IF r /\ settled < 2 THEN settled + 1 ELSE settled
  /\ wrEdges' = IF r THEN (IF w THEN 1 ELSE 0) ELSE wrEdges + 1

\* What presets the flags.
PresetFull  == status /\ wrPtr = rdPtr
PresetEmpty == ~status /\ wrPtr = rdPtr

(***************************************************************************)
(* An edge of WClk (w), of RClk (r) or of both at once, with the enables   *)
(* that the ports see at it.  A flag is preset without a clock; an edge    *)
(* clears it when it was not preset before.                                *)
(***************************************************************************)
Edge(w, r, we, re) ==
  LET wEn == w /\ Accepts(we)
      rEn == r /\ Gives(re)
  IN  /\ wrBin' = Count(wrBin, wEn) /\ wrPtr' = Point(wrPtr, wrBin, wEn)
      /\ rdBin' = Count(rdBin, rEn) /\ rdPtr' = Point(rdPtr, rdBin, rEn)
      /\ status' = Latch(wrPtr', rdPtr', status)
      /\ full' = (PresetFull' \/ (full /\ (~w \/ PresetFull)))
      /\ empty' = (PresetEmpty' \/ (empty /\ (~r \/ PresetEmpty)))
      /\ Ports(w, wEn, r)
      /\ AFifoHistory(w, wEn, r, rEn)

WriteEdge ==
  /\ wrEdges < MaxWrEdges
  /\ \E we \in BOOLEAN : (we => written < MaxWords) /\ Edge(TRUE, FALSE, we, FALSE)

ReadEdge == \E re \in BOOLEAN : Edge(FALSE, TRUE, FALSE, re)

BothEdges ==
  \E we, re \in BOOLEAN : (we => written < MaxWords) /\ Edge(TRUE, TRUE, we, re)

AFifoNext == WriteEdge \/ ReadEdge \/ BothEdges

AFifoSpec == AFifoInit /\ [][AFifoNext]_aFifoVars

-----------------------------------------------------------------------------
\* From the second word on, the n-th read gives the n-th word: none is
\* overwritten before it is read, skipped or read twice (aFifo.vhd:87-102,
\* flags 134-183).
ReadsFollowWrites == got # 0 => dataOut = Later(got, 2)

\* The latch tells a full FIFO from an empty one when the pointers are
\* equal, wherever they meet and however long they were apart
\* (aFifo.vhd:137-163).
StatusTellsFull ==
  wrPtr = rdPtr => (status <=> Later(written, 1) = Later(taken, 1) + Depth)

\* No overflow and no underflow: the words between the pointers fit, and the
\* flag that stops a port is up whenever its next access would break that,
\* although each flag is cleared by the clock of its own port only
\* (aFifo.vhd:106-107, 162-185).
FlagsInTime ==
  /\ Later(taken, 1) <= Later(written, 1)
  /\ Later(written, 1) <= Later(taken, 1) + Depth
  /\ Later(written, 1) = Later(taken, 1) + Depth => full
  /\ Later(written, 1) = Later(taken, 1) => empty

\* What send_udp.vhd samples: with the ports at rest the output is the word
\* at the reading pointer, not the one read last.
OutputShowsNext ==
  settled = 2 /\ (taken >= 2 => written > taken) => dataOut = Shown(written, taken)
=============================================================================
