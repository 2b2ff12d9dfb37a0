------------------------- MODULE SweepCollectProofs -------------------------
(***************************************************************************)
(* What holds of SweepCollect for every number of packets per sweep, every *)
(* size of the socket and every number of faults: no frame is in two       *)
(* captures, a capture is short, undisturbed captures follow each other,   *)
(* and a collection ends in time.                                          *)
(*                                                                         *)
(* Four arguments carry it.  Frames keep the sender's order on their way   *)
(* socket, slots, captures, except that disturbed ones may be twins or     *)
(* neighbours in the wrong order (Before).  An undisturbed frame that is   *)
(* newer than one that was read waits in the socket or has its slot filled *)
(* (Complete), so a slot is filled by the first undisturbed frame that     *)
(* fits (First).  The frame after the one read last waits (LastRead).      *)
(* And wherever the thread stands, the next frame for a slot is at most a  *)
(* period away, and one more for each fault (Serves).                      *)
(***************************************************************************)
EXTENDS SweepCollect, FiniteSetTheorems, SequenceTheorems, TLAPS

SlotAt(n) == <<Direction(n), Number(n)>>

Positions == 1 .. Len(socket)
Waits(y) == \E i \in Positions : socket[i] = Frame(y)
Filled(s) == sweeps[s] # NoPacket

\* x came before y on the socket: in the order of the sender, or both were
\* disturbed and came as twins or swapped.
Before(x, y) == x <= y + 1 /\ (x \notin disturbed \/ y \notin disturbed => x < y)

Datagram == Packet \cup Foreign
Capture == [slots : [Slots -> Packet], discards : Nat]

CollectTypes ==
  /\ next \in Nat /\ faults \in Nat /\ received \in Nat /\ discards \in Nat
  /\ socket \in Seq(Datagram)
  /\ disturbed \subseteq Nat
  /\ pc \in {"clear", "recv"}
  /\ sweeps \in [Slots -> Packet \cup {NoPacket}]
  /\ captures \in Seq(Capture)

\* Every frame was sent, and is in its own slot.
Placed ==
  /\ \A x \in disturbed : x < next
  /\ \A i \in Positions : socket[i] \in Packet => socket[i].n < next
  /\ \A s \in Slots : Filled(s) => sweeps[s].n < next /\ SlotAt(sweeps[s].n) = s
  /\ \A k \in DOMAIN captures : \A s \in Slots :
       captures[k].slots[s].n < next /\ SlotAt(captures[k].slots[s].n) = s

SocketInOrder ==
  \A i, j \in Positions : i < j /\ socket[i] \in Packet /\ socket[j] \in Packet
    => Before(socket[i].n, socket[j].n)

KeptInOrder ==
  pc = "recv" => \A s \in Slots : \A i \in Positions : Filled(s) /\ socket[i] \in Packet
    => Before(sweeps[s].n, socket[i].n)

CaptureWaits ==
  \A k \in DOMAIN captures : \A s \in Slots : \A i \in Positions :
    socket[i] \in Packet => Before(captures[k].slots[s].n, socket[i].n)

CaptureKept ==
  pc = "recv" => \A k \in DOMAIN captures : \A s, t \in Slots :
    Filled(t) => Before(captures[k].slots[s].n, sweeps[t].n)

CapturesInOrder ==
  \A k, l \in DOMAIN captures : \A s, t \in Slots :
    k < l => Before(captures[k].slots[s].n, captures[l].slots[t].n)

OrderInv ==
  /\ CollectTypes /\ Placed
  /\ SocketInOrder /\ KeptInOrder /\ CaptureWaits /\ CaptureKept /\ CapturesInOrder

SocketComplete ==
  \A i \in Positions : \A y \in Nat :
    socket[i] \in Packet /\ socket[i].n < y /\ y < next /\ y \notin disturbed => Waits(y)

KeptComplete ==
  pc = "recv" => \A s \in Slots : \A y \in Nat :
    Filled(s) /\ sweeps[s].n < y /\ y < next /\ y \notin disturbed => Waits(y) \/ Filled(SlotAt(y))

\* An undisturbed frame that slot s did not take is older than all others.
First(slots, s, t) ==
  \A y \in Nat : y < slots[s].n /\ SlotAt(y) = s /\ y \notin disturbed => y < slots[t].n

KeptFirst ==
  pc = "recv" => \A s, t \in Slots : Filled(s) /\ Filled(t) => First(sweeps, s, t)

CapturedFirst ==
  \A k \in DOMAIN captures : \A s, t \in Slots : First(captures[k].slots, s, t)

ShortInv == SocketComplete /\ KeptComplete /\ KeptFirst /\ CapturedFirst

StartsEmpty == pc = "recv" /\ received = 0 => \A s \in Slots : ~Filled(s)

\* z is the frame read last.
LastRead(z) ==
  /\ z < next
  /\ \A s \in Slots : Filled(s) /\ (sweeps[s].n \notin disturbed \/ z \notin disturbed) => sweeps[s].n <= z
  /\ \A i \in Positions : socket[i] \in Packet => Before(z, socket[i].n)
  /\ \A y \in Nat : z < y /\ y < next /\ y \notin disturbed => Waits(y)
  /\ Collected => \E s \in Slots : sweeps[s] = Frame(z)

SomethingRead == pc = "recv" /\ received > 0 => \E z \in Nat : LastRead(z)

DiscardsGrow == \A k \in DOMAIN captures : captures[k].discards <= discards

\* h is the newest frame of capture k, and no fault touched it.
NewestOf(k, h) ==
  /\ \E s \in Slots : captures[k].slots[s].n = h
  /\ \A s \in Slots : captures[k].slots[s].n <= h
  /\ h \notin disturbed

\* The frame after h is in the next capture, in a slot, or waits.
CaptureFollows(k, h) ==
  /\ h + 1 < next
  /\ h + 1 \notin disturbed => \E s \in Slots : captures[k + 1].slots[s].n = h + 1
KeptFollows(h) ==
  /\ h + 1 < next
  /\ h + 1 \notin disturbed => \E s \in Slots : sweeps[s] = Frame(h + 1)
WaitingFollows(h) == h + 1 < next /\ h + 1 \notin disturbed => Waits(h + 1)

Started == pc = "recv" /\ received > 0

Followed ==
  \A k \in DOMAIN captures : \A h \in Nat :
    k + 1 \in DOMAIN captures /\ captures[k + 1].discards = captures[k].discards /\ NewestOf(k, h)
      => CaptureFollows(k, h)

FollowsNow ==
  \A h \in Nat : captures # <<>> /\ captures[Len(captures)].discards = discards /\ NewestOf(Len(captures), h)
    => IF Started THEN KeptFollows(h) ELSE WaitingFollows(h)

SkipInv == StartsEmpty /\ SomethingRead /\ DiscardsGrow /\ Followed /\ FollowsNow

Patience == Period * (1 + faults)

\* With a datagrams more than the first i of the socket counted, the next
\* frame for slot s comes in time.
Serves(i, a, s) ==
  \/ \E j \in Positions : i < j /\ a + j <= Patience /\ socket[j] \in Packet /\ SlotAt(socket[j].n) = s
  \/ \E m \in Nat : next <= m /\ SlotAt(m) = s /\ a + Len(socket) + 1 + (m - next) <= Patience

SocketServes == \A i \in 0 .. Len(socket) : \A s \in Slots : Serves(i, 0 - i, s)
CollectionServes == pc = "recv" => \A s \in Slots : ~Filled(s) => Serves(0, received, s)

EndInv == CollectionEnds /\ SocketServes /\ CollectionServes

CollectInv == OrderInv /\ ShortInv /\ SkipInv /\ EndInv

-----------------------------------------------------------------------------
(* Numbers, slots and frames *)

\* Division with remainder.
LEMMA DivMod ==
  ASSUME NEW N \in Nat \ {0}, NEW a \in Nat
  PROVE  a \div N \in Nat /\ a % N \in 0 .. N - 1 /\ a = N * (a \div N) + (a % N)
OBVIOUS

\* Quotient and remainder are the only ones.
LEMMA DivModUnique ==
  ASSUME NEW N \in Nat \ {0}, NEW q \in Nat, NEW r \in 0 .. N - 1
  PROVE  (N * q + r) \div N = q /\ (N * q + r) % N = r
<1> DEFINE a == N * q + r
           p == a \div N
           t == a % N
<1>1. a \in Nat
  OBVIOUS
<1>2. p \in Nat /\ t \in 0 .. N - 1 /\ N * q + r = N * p + t
  BY <1>1, DivMod
<1> HIDE DEF p, t
<1>3. ~ p < q
  <2> SUFFICES ASSUME p < q PROVE FALSE
    OBVIOUS
  <2>1. PICK d \in Nat : q = p + 1 + d
    BY <1>2
  <2>2. N * q = N * p + N + N * d
    BY <2>1, <1>2
  <2>3. N * d \in Nat
    BY <2>1
  <2> QED BY <2>2, <2>3, <1>2
<1>4. ~ q < p
  <2> SUFFICES ASSUME q < p PROVE FALSE
    OBVIOUS
  <2>1. PICK d \in Nat : p = q + 1 + d
    BY <1>2
  <2>2. N * p = N * q + N + N * d
    BY <2>1, <1>2
  <2>3. N * d \in Nat
    BY <2>1
  <2> QED BY <2>2, <2>3, <1>2
<1> QED BY <1>2, <1>3, <1>4 DEF p, t

\* The slot of frame r of sweep q.
LEMMA SlotAtIs ==
  ASSUME NEW q \in Nat, NEW r \in Numbers
  PROVE  NFrames * q + r \in Nat /\ SlotAt(NFrames * q + r) = <<q % 2, r>>
<1>1. NFrames \in Nat \ {0}
  BY CollectAssumption
<1>2. r \in 0 .. NFrames - 1
  BY DEF Numbers
<1>3. (NFrames * q + r) \div NFrames = q /\ (NFrames * q + r) % NFrames = r
  BY <1>1, <1>2, DivModUnique
<1>4. NFrames * q + r \in Nat
  BY <1>1, <1>2
<1> QED BY <1>3, <1>4 DEF SlotAt, Direction, Number

\* Every frame has a slot.
LEMMA SlotAtType ==
  ASSUME NEW n \in Nat
  PROVE  SlotAt(n) \in Slots
<1>1. NFrames \in Nat \ {0}
  BY CollectAssumption
<1>2. n \div NFrames \in Nat /\ n % NFrames \in Numbers
  BY <1>1, DivMod DEF Numbers
<1>3. (n \div NFrames) % 2 \in Directions
  BY <1>2 DEF Directions
<1> QED BY <1>2, <1>3 DEF SlotAt, Direction, Number, Slots

\* The period is two sweeps, of one packet or more.
LEMMA PeriodType == Period \in Nat /\ Period >= 2 /\ Period = 2 * NFrames /\ NFrames \in Nat \ {0}
BY CollectAssumption DEF Period

\* The slots repeat with the period of the sender.
LEMMA SlotPeriods ==
  ASSUME NEW n \in Nat, NEW i \in Nat
  PROVE  n + Period * i \in Nat /\ SlotAt(n + Period * i) = SlotAt(n)
<1> DEFINE q == n \div NFrames
           r == n % NFrames
           u == q \div 2
           v == q % 2
<1>1. q \in Nat /\ r \in Numbers /\ n = NFrames * q + r
  BY PeriodType, DivMod DEF Numbers
<1> HIDE DEF q, r
<1>2. n + Period * i = NFrames * (q + 2 * i) + r
  <2>1. NFrames * (q + 2 * i) = NFrames * q + Period * i
    BY <1>1, PeriodType
  <2>2. NFrames * q \in Nat /\ Period * i \in Nat /\ r \in Nat
    BY <1>1, PeriodType DEF Numbers
  <2> QED BY <1>1, <2>1, <2>2
<1>3. q + 2 * i \in Nat /\ (q + 2 * i) % 2 = q % 2
  <2>1. u \in Nat /\ v \in 0 .. 1 /\ q = 2 * u + v
    BY <1>1
  <2> HIDE DEF u, v
  <2>2. q + 2 * i = 2 * (u + i) + v /\ u + i \in Nat
    BY <2>1
  <2>3. q % 2 = v /\ (q + 2 * i) % 2 = v
    BY <2>1, <2>2
  <2> QED BY <1>1, <2>3
<1>4. /\ NFrames * q + r \in Nat /\ SlotAt(NFrames * q + r) = <<q % 2, r>>
      /\ NFrames * (q + 2 * i) + r \in Nat
      /\ SlotAt(NFrames * (q + 2 * i) + r) = <<(q + 2 * i) % 2, r>>
  BY <1>1, <1>3, SlotAtIs
<1> QED BY <1>1, <1>2, <1>3, <1>4

\* One period later comes the same slot.
LEMMA SlotPeriod ==
  ASSUME NEW n \in Nat
  PROVE  SlotAt(n + Period) = SlotAt(n)
<1>1. Period * 1 = Period
  BY PeriodType
<1> QED BY <1>1, SlotPeriods

\* Every slot comes once in a period.
LEMMA SlotCover ==
  ASSUME NEW n \in Nat, NEW s \in Slots
  PROVE  \E m \in n .. n + Period - 1 : SlotAt(m) = s
<1>1. PICK i \in Directions, j \in Numbers : s = <<i, j>>
  BY DEF Slots
<1> DEFINE b == n \div Period
           t == n % Period
<1>2. b \in Nat /\ t \in 0 .. Period - 1 /\ n = Period * b + t
  <2>1. Period \in Nat \ {0}
    BY PeriodType
  <2> QED BY <2>1, DivMod
<1> HIDE DEF b, t
<1> DEFINE m == NFrames * (2 * b + i) + j
<1>3. i \in 0 .. 1 /\ j \in 0 .. NFrames - 1
  BY DEF Directions, Numbers
<1>4. (2 * b + i) \in Nat /\ (2 * b + i) % 2 = i
  BY <1>2, <1>3
<1>5. m \in Nat /\ SlotAt(m) = s
  BY <1>1, <1>4, SlotAtIs
<1>6. Period * b <= m /\ m < Period * b + Period
  <2>1. NFrames * (2 * b + i) = Period * b + NFrames * i
    BY <1>2, <1>3, PeriodType
  <2>2. NFrames * i \in 0 .. NFrames
    BY <1>3, PeriodType
  <2>3. Period * b \in Nat
    BY <1>2, PeriodType
  <2>4. NFrames * i = 0 \/ NFrames * i = NFrames
    BY <1>3, PeriodType
  <2> QED BY <2>1, <2>2, <2>3, <2>4, <1>3, PeriodType
<1>7. Period * b \in Nat
  BY <1>2, PeriodType
<1> HIDE DEF m
<1>8. CASE n <= m
  BY <1>8, <1>2, <1>5, <1>6, <1>7, PeriodType
<1>9. CASE m < n
  <2>1. SlotAt(m + Period) = s
    BY <1>5, SlotPeriod
  <2>2. m + Period \in n .. n + Period - 1
    BY <1>9, <1>2, <1>5, <1>6, <1>7, PeriodType
  <2> QED BY <2>1, <2>2
<1> QED BY <1>8, <1>9, <1>5

\* A frame is a packet, and nothing else is.
LEMMA Frames ==
  /\ \A x \in Nat : Frame(x) \in Packet /\ Frame(x).n = x /\ Frame(x) # NoPacket
  /\ \A p \in Packet : p.n \in Nat /\ p = Frame(p.n) /\ p # NoPacket /\ p \notin Foreign
  /\ \A p \in Packet : SlotOf(p) = SlotAt(p.n)
BY DEF Frame, Packet, NoPacket, Foreign, SlotOf, SlotAt

\* What the types say of the frames that are kept and captured.
LEMMA Numbered ==
  ASSUME CollectTypes
  PROVE  /\ Len(socket) \in Nat /\ \A i \in Positions : socket[i] \in Datagram
         /\ \A s \in Slots : Filled(s) => sweeps[s] \in Packet /\ sweeps[s].n \in Nat
         /\ \A k \in DOMAIN captures : \A s \in Slots :
              captures[k].slots[s] \in Packet /\ captures[k].slots[s].n \in Nat
         /\ \A k \in DOMAIN captures : captures[k].discards \in Nat
         /\ DOMAIN captures = 1 .. Len(captures) /\ Len(captures) \in Nat
<1>1. Len(socket) \in Nat /\ \A i \in Positions : socket[i] \in Datagram
  BY ElementOfSeq DEF CollectTypes, Positions
<1>2. \A s \in Slots : Filled(s) => sweeps[s] \in Packet
  BY DEF CollectTypes, Filled
<1>3. DOMAIN captures = 1 .. Len(captures) /\ Len(captures) \in Nat
  BY LenProperties DEF CollectTypes
<1>4. \A k \in DOMAIN captures : captures[k] \in Capture
  BY <1>3, ElementOfSeq DEF CollectTypes
<1>5. \A k \in DOMAIN captures : captures[k].discards \in Nat /\ \A s \in Slots : captures[k].slots[s] \in Packet
  BY <1>4 DEF Capture
<1> QED BY <1>1, <1>2, <1>3, <1>5, Frames

\* The thread starts with nothing read, and a period ahead of it.
LEMMA InitCollectInv == Init => CollectInv
<1> SUFFICES ASSUME Init PROVE CollectInv
  OBVIOUS
<1>1. /\ next \in Nat /\ socket = <<>> /\ faults = 0 /\ disturbed = {}
      /\ pc = "clear" /\ sweeps = NoSweeps /\ received = 0 /\ discards = 0 /\ captures = <<>>
  BY PeriodType DEF Init
<1>2. Len(socket) = 0 /\ Positions = {} /\ DOMAIN captures = {}
  BY <1>1 DEF Positions
<1>3. CollectTypes
  <2>1. sweeps \in [Slots -> Packet \cup {NoPacket}]
    BY <1>1 DEF NoSweeps
  <2>2. socket \in Seq(Datagram) /\ captures \in Seq(Capture)
    BY <1>1, EmptySeq
  <2> QED BY <1>1, <2>1, <2>2 DEF CollectTypes
<1>4. Placed
  BY <1>1, <1>2 DEF Placed, Filled, NoSweeps
<1>5. OrderInv
  BY <1>1, <1>2, <1>3, <1>4
     DEF OrderInv, SocketInOrder, KeptInOrder, CaptureWaits, CaptureKept, CapturesInOrder
<1>6. ShortInv
  BY <1>1, <1>2 DEF ShortInv, SocketComplete, KeptComplete, KeptFirst, CapturedFirst
<1>7. SkipInv
  BY <1>1, <1>2 DEF SkipInv, StartsEmpty, SomethingRead, DiscardsGrow, Followed, FollowsNow
<1>8. EndInv
  <2>1. Patience = Period
    BY <1>1, PeriodType DEF Patience
  <2>2. CollectionEnds
    BY <1>1, PeriodType DEF CollectionEnds
  <2>3. ASSUME NEW s \in Slots PROVE Serves(0, 0 - 0, s)
    <3>1. PICK m \in next .. next + Period - 1 : SlotAt(m) = s
      BY <1>1, SlotCover
    <3>2. m \in Nat /\ next <= m /\ 0 - 0 + Len(socket) + 1 + (m - next) <= Patience
      BY <3>1, <1>1, <1>2, <2>1, PeriodType
    <3> QED BY <3>1, <3>2 DEF Serves
  <2>4. SocketServes
    BY <1>2, <2>3 DEF SocketServes
  <2> QED BY <1>1, <2>2, <2>4 DEF EndInv, CollectionServes
<1> QED BY <1>5, <1>6, <1>7, <1>8 DEF CollectInv

-----------------------------------------------------------------------------
(* The network *)

\* All that the invariant needs to know of a step of the network: what it
\* adds to the socket is new, in order, and all of the new frames that it did
\* not disturb.
NetStep ==
  /\ next' \in Nat /\ next <= next' /\ faults' \in Nat
  /\ socket' \in Seq(Datagram) /\ Len(socket) <= Len(socket')
  /\ \A i \in Positions : socket'[i] = socket[i]
  /\ disturbed \subseteq disturbed' /\ disturbed' \subseteq Nat
  /\ \A x \in disturbed' : x \in disturbed \/ (next <= x /\ x < next')
  /\ \A i \in Positions' : i \notin Positions /\ socket'[i] \in Packet
       => next <= socket'[i].n /\ socket'[i].n < next'
  /\ \A i, j \in Positions' : i \notin Positions /\ j \notin Positions /\ i < j
       /\ socket'[i] \in Packet /\ socket'[j] \in Packet => (Before(socket[i].n, socket[j].n))'
  /\ \A y \in Nat : next <= y /\ y < next' /\ y \notin disturbed' => Waits(y)'
  /\ UNCHANGED <<pc, sweeps, received, discards, captures>>

\* How fast: a fault pays for a frame that does not come and for one more
\* datagram.
NetPays ==
  /\ \/ faults' = faults /\ Len(socket') = Len(socket) + 1 /\ next' = next + 1
     \/ /\ faults' = faults + 1 /\ Len(socket') <= Len(socket) + 2
        /\ Len(socket') - Len(socket) <= next' - next + 1
  /\ \/ Len(socket') = Len(socket) /\ next' = next + 1 /\ faults' = faults + 1
     \/ \A m \in Nat : next <= m /\ m < next' =>
          \E j \in Positions' : j \notin Positions /\ socket'[j] = Frame(m)

\* What a socket looks like with two datagrams added.
LEMMA TwoAdded ==
  ASSUME socket \in Seq(Datagram), NEW p \in Datagram, NEW q \in Datagram
  PROVE  LET two == socket \o <<p, q>> IN
         /\ two \in Seq(Datagram) /\ Len(two) = Len(socket) + 2
         /\ \A i \in Positions : two[i] = socket[i]
         /\ two[Len(socket) + 1] = p /\ two[Len(socket) + 2] = q
<1> DEFINE added == <<p, q>>
<1>1. added \in Seq(Datagram) /\ Len(added) = 2 /\ added[1] = p /\ added[2] = q
  OBVIOUS
<1> HIDE DEF added
<1>2. Len(socket) \in Nat
  OBVIOUS
<1>3. /\ socket \o added \in Seq(Datagram) /\ Len(socket \o added) = Len(socket) + 2
      /\ \A i \in 1 .. Len(socket) + 2 : (socket \o added)[i] =
            IF i <= Len(socket) THEN socket[i] ELSE added[i - Len(socket)]
  <2>1. /\ socket \o added \in Seq(Datagram) /\ Len(socket \o added) = Len(socket) + Len(added)
        /\ \A i \in 1 .. Len(socket) + Len(added) : (socket \o added)[i] =
              IF i <= Len(socket) THEN socket[i] ELSE added[i - Len(socket)]
    BY <1>1, ConcatProperties, Zenon
  <2> QED BY <1>1, <2>1
<1>4. /\ \A i \in Positions : (socket \o added)[i] = socket[i]
      /\ (socket \o added)[Len(socket) + 1] = p /\ (socket \o added)[Len(socket) + 2] = q
  BY <1>1, <1>2, <1>3 DEF Positions
<1> QED BY <1>3, <1>4 DEF added

\* The actions of the network are such steps.
LEMMA NetworkStep ==
  ASSUME CollectTypes, Placed, Network
  PROVE  NetStep /\ NetPays
<1>1. /\ next \in Nat /\ faults \in Nat /\ disturbed \subseteq Nat /\ socket \in Seq(Datagram)
      /\ Len(socket) \in Nat
  BY DEF CollectTypes
<1>2. CASE SendFrame
  <2>1. /\ socket' = Append(socket, Frame(next)) /\ next' = next + 1
        /\ UNCHANGED <<faults, disturbed, pc, sweeps, received, discards, captures>>
    BY <1>2 DEF SendFrame
  <2>2. Frame(next) \in Datagram /\ Frame(next).n = next
    BY <1>1, Frames DEF Datagram
  <2>3. /\ socket' \in Seq(Datagram) /\ Len(socket') = Len(socket) + 1
        /\ \A i \in Positions : socket'[i] = socket[i]
        /\ socket'[Len(socket) + 1] = Frame(next)
    BY <1>1, <2>1, <2>2, AppendProperties DEF Positions
  <2>4. \A i \in Positions' : i \in Positions \/ i = Len(socket) + 1
    BY <1>1, <2>3 DEF Positions
  <2>5. Len(socket) + 1 \in Positions' /\ Len(socket) + 1 \notin Positions
    BY <1>1, <2>3 DEF Positions
  <2>6. \A y \in Nat : next <= y /\ y < next' => y = next
    BY <1>1, <2>1
  <2>7. \A y \in Nat : next <= y /\ y < next' => Waits(y)'
    BY <2>3, <2>5, <2>6 DEF Waits
  <2>8. NetStep
    <3>1. \A i \in Positions' : i \notin Positions => i = Len(socket) + 1 /\ socket'[i].n = next
      BY <2>2, <2>3, <2>4
    <3>2. ~ \E i, j \in Positions' : i \notin Positions /\ j \notin Positions /\ i < j
      BY <1>1, <3>1
    <3>3. /\ next' \in Nat /\ next <= next' /\ Len(socket) <= Len(socket')
          /\ \A i \in Positions' : i \notin Positions => next <= socket'[i].n /\ socket'[i].n < next'
      BY <1>1, <2>1, <2>3, <3>1
    <3> QED BY <1>1, <2>1, <2>3, <2>7, <3>2, <3>3 DEF NetStep
  <2>9. NetPays
    <3>1. \A m \in Nat : next <= m /\ m < next' =>
            \E j \in Positions' : j \notin Positions /\ socket'[j] = Frame(m)
      BY <2>3, <2>5, <2>6
    <3> QED BY <1>1, <2>1, <2>3, <3>1 DEF NetPays
  <2> QED BY <2>8, <2>9
<1>3. CASE LoseFrame
  <2>1. /\ next' = next + 1 /\ disturbed' = disturbed \cup {next} /\ faults' = faults + 1
        /\ UNCHANGED <<socket, pc, sweeps, received, discards, captures>>
    BY <1>3 DEF LoseFrame
  <2>2. Positions' = Positions
    BY <2>1 DEF Positions
  <2> QED BY <1>1, <2>1, <2>2 DEF NetStep, NetPays
<1>4. CASE DuplicateFrame
  <2>1. /\ socket' = socket \o <<Frame(next), Frame(next)>> /\ next' = next + 1
        /\ disturbed' = disturbed \cup {next} /\ faults' = faults + 1
        /\ UNCHANGED <<pc, sweeps, received, discards, captures>>
    BY <1>4 DEF DuplicateFrame
  <2>2. Frame(next) \in Datagram /\ Frame(next).n = next
    BY <1>1, Frames DEF Datagram
  <2>3. /\ socket' \in Seq(Datagram) /\ Len(socket') = Len(socket) + 2
        /\ \A i \in Positions : socket'[i] = socket[i]
        /\ socket'[Len(socket) + 1] = Frame(next) /\ socket'[Len(socket) + 2] = Frame(next)
    BY <1>1, <2>1, <2>2, TwoAdded, ZenonT(60)
  <2>4. \A i \in Positions' : i \in Positions \/ i = Len(socket) + 1 \/ i = Len(socket) + 2
    BY <1>1, <2>3 DEF Positions
  <2>5. Len(socket) + 1 \in Positions' /\ Len(socket) + 1 \notin Positions
    BY <1>1, <2>3 DEF Positions
  <2>6. \A y \in Nat : next <= y /\ y < next' => y = next
    BY <1>1, <2>1
  <2>7. \A i \in Positions' : i \notin Positions => socket'[i].n = next
    BY <2>2, <2>3, <2>4
  <2>8. NetStep
    <3>1. \A i, j \in Positions' : i \notin Positions /\ j \notin Positions /\ i < j
            => (Before(socket[i].n, socket[j].n))'
      <4>1. next \in disturbed'
        BY <2>1
      <4> QED BY <1>1, <2>7, <4>1 DEF Before
    <3>2. /\ next' \in Nat /\ next <= next' /\ Len(socket) <= Len(socket')
          /\ \A i \in Positions' : i \notin Positions => next <= socket'[i].n /\ socket'[i].n < next'
      <4>1. next \in Nat /\ next <= next /\ next < next' /\ next' \in Nat /\ Len(socket) <= Len(socket')
        BY <1>1, <2>1, <2>3
      <4> QED BY <2>7, <4>1
    <3>3. \A x \in disturbed' : x \in disturbed \/ (next <= x /\ x < next')
      BY <1>1, <2>1
    <3>4. \A y \in Nat : next <= y /\ y < next' => y \in disturbed'
      BY <2>1, <2>6
    <3>5. disturbed \subseteq disturbed' /\ disturbed' \subseteq Nat /\ faults' \in Nat
      BY <1>1, <2>1
    <3> QED BY <2>1, <2>3, <3>1, <3>2, <3>3, <3>4, <3>5 DEF NetStep
  <2>9. NetPays
    <3>1. \A m \in Nat : next <= m /\ m < next' =>
            \E j \in Positions' : j \notin Positions /\ socket'[j] = Frame(m)
      BY <2>3, <2>5, <2>6
    <3>2. /\ faults' = faults + 1 /\ faults' \in Nat /\ Len(socket') <= Len(socket) + 2
          /\ Len(socket') - Len(socket) <= next' - next + 1
      BY <1>1, <2>1, <2>3
    <3> QED BY <3>1, <3>2 DEF NetPays
  <2> QED BY <2>8, <2>9
<1>5. CASE SwapFrames
  <2>1. /\ socket' = socket \o <<Frame(next + 1), Frame(next)>> /\ next' = next + 2
        /\ disturbed' = disturbed \cup {next, next + 1} /\ faults' = faults + 1
        /\ UNCHANGED <<pc, sweeps, received, discards, captures>>
    BY <1>5 DEF SwapFrames
  <2>2. /\ Frame(next) \in Datagram /\ Frame(next).n = next
        /\ Frame(next + 1) \in Datagram /\ Frame(next + 1).n = next + 1
    BY <1>1, Frames DEF Datagram
  <2>3. /\ socket' \in Seq(Datagram) /\ Len(socket') = Len(socket) + 2
        /\ \A i \in Positions : socket'[i] = socket[i]
        /\ socket'[Len(socket) + 1] = Frame(next + 1) /\ socket'[Len(socket) + 2] = Frame(next)
    <3> DEFINE p == Frame(next + 1)
               q == Frame(next)
    <3>1. p \in Datagram /\ q \in Datagram /\ socket' = socket \o <<p, q>>
      BY <2>1, <2>2
    <3> HIDE DEF p, q
    <3>2. /\ socket' \in Seq(Datagram) /\ Len(socket') = Len(socket) + 2
          /\ \A i \in Positions : socket'[i] = socket[i]
          /\ socket'[Len(socket) + 1] = p /\ socket'[Len(socket) + 2] = q
      BY <1>1, <3>1, TwoAdded, ZenonT(60)
    <3> QED BY <3>2 DEF p, q
  <2>4. \A i \in Positions' : i \in Positions \/ i = Len(socket) + 1 \/ i = Len(socket) + 2
    BY <1>1, <2>3 DEF Positions
  <2>5. /\ Len(socket) + 1 \in Positions' /\ Len(socket) + 1 \notin Positions
        /\ Len(socket) + 2 \in Positions' /\ Len(socket) + 2 \notin Positions
    BY <1>1, <2>3 DEF Positions
  <2>6. \A y \in Nat : next <= y /\ y < next' => y = next \/ y = next + 1
    BY <1>1, <2>1
  <2>8. NetStep
    <3>1. \A i \in Positions' : i \notin Positions /\ socket'[i] \in Packet
            => next <= socket'[i].n /\ socket'[i].n < next'
      BY <1>1, <2>1, <2>2, <2>3, <2>4
    <3>2. \A i, j \in Positions' : i \notin Positions /\ j \notin Positions /\ i < j
            => (Before(socket[i].n, socket[j].n))'
      <4>1. \A i, j \in Positions' : i \notin Positions /\ j \notin Positions /\ i < j
              => socket'[i].n = next + 1 /\ socket'[j].n = next
        <5>1. \A i, j \in Positions' : i \notin Positions /\ j \notin Positions /\ i < j
                => i = Len(socket) + 1 /\ j = Len(socket) + 2
          BY <1>1, <2>4
        <5> QED BY <2>2, <2>3, <5>1
      <4>2. next \in disturbed' /\ next + 1 \in disturbed'
        BY <2>1
      <4>3. next + 1 <= next + 1
        BY <1>1
      <4> QED BY <4>1, <4>2, <4>3 DEF Before
    <3>3. \A x \in disturbed' : x \in disturbed \/ (next <= x /\ x < next')
      BY <1>1, <2>1
    <3>4. \A y \in Nat : next <= y /\ y < next' => y \in disturbed'
      BY <2>1, <2>6
    <3>5. disturbed \subseteq disturbed' /\ disturbed' \subseteq Nat /\ faults' \in Nat
      BY <1>1, <2>1
    <3>6. next' \in Nat /\ next <= next' /\ Len(socket) <= Len(socket')
      BY <1>1, <2>1, <2>3
    <3> QED BY <2>1, <2>3, <3>1, <3>2, <3>3, <3>4, <3>5, <3>6 DEF NetStep
  <2>9. NetPays
    <3>1. \A m \in Nat : next <= m /\ m < next' =>
            \E j \in Positions' : j \notin Positions /\ socket'[j] = Frame(m)
      BY <2>3, <2>5, <2>6
    <3>2. /\ faults' = faults + 1 /\ faults' \in Nat /\ Len(socket') <= Len(socket) + 2
          /\ Len(socket') - Len(socket) <= next' - next + 1
      BY <1>1, <2>1, <2>3
    <3> QED BY <3>1, <3>2 DEF NetPays
  <2> QED BY <2>8, <2>9
<1>6. CASE ForeignPacket
  <2>1. PICK p \in Foreign : socket' = Append(socket, p)
    BY <1>6 DEF ForeignPacket
  <2>2. /\ faults' = faults + 1
        /\ UNCHANGED <<next, disturbed, pc, sweeps, received, discards, captures>>
    BY <1>6 DEF ForeignPacket
  <2>3. p \in Datagram /\ p \notin Packet
    BY Frames DEF Datagram
  <2>4. /\ socket' \in Seq(Datagram) /\ Len(socket') = Len(socket) + 1
        /\ \A i \in Positions : socket'[i] = socket[i]
        /\ socket'[Len(socket) + 1] = p
    BY <1>1, <2>1, <2>3, AppendProperties DEF Positions
  <2>5. \A i \in Positions' : i \in Positions \/ i = Len(socket) + 1
    BY <1>1, <2>4 DEF Positions
  <2>6. ~ \E y \in Nat : next <= y /\ y < next'
    BY <1>1, <2>2
  <2>7. NetStep
    <3>1. \A i \in Positions' : i \notin Positions => socket'[i] \notin Packet
      BY <2>3, <2>4, <2>5
    <3>2. next' \in Nat /\ next <= next' /\ Len(socket) <= Len(socket')
      BY <1>1, <2>2, <2>4
    <3> QED BY <1>1, <2>2, <2>4, <2>6, <3>1, <3>2 DEF NetStep
  <2>8. NetPays
    BY <1>1, <2>2, <2>4, <2>6 DEF NetPays
  <2> QED BY <2>7, <2>8
<1> QED BY <1>2, <1>3, <1>4, <1>5, <1>6 DEF Network

\* What a step of the network leaves alone.
LEMMA NetKeeps ==
  ASSUME CollectTypes, NetStep
  PROVE  /\ Positions \subseteq Positions'
         /\ \A x, y : Before(x, y) => Before(x, y)'
         /\ \A x \in Nat : x < next => (x \in disturbed' <=> x \in disturbed)
         /\ \A y \in Nat : Waits(y) => Waits(y)'
         /\ \A s \in Slots : Filled(s)' <=> Filled(s)
         /\ \A x, y \in Nat : x < next /\ next <= y /\ y < next' => Before(x, y)'
         /\ next \in Nat /\ next' \in Nat /\ next <= next'
<1>1. /\ next \in Nat /\ next' \in Nat /\ next <= next'
      /\ Len(socket) \in Nat /\ Len(socket') \in Nat /\ Len(socket) <= Len(socket')
  BY DEF CollectTypes, NetStep
<1>2. Positions \subseteq Positions'
  BY <1>1 DEF Positions
<1>3. \A x, y : Before(x, y) => Before(x, y)'
  BY DEF NetStep, Before
<1>4. \A x \in Nat : x < next => (x \in disturbed' <=> x \in disturbed)
  BY <1>1 DEF NetStep
<1>5. \A y \in Nat : Waits(y) => Waits(y)'
  BY <1>2 DEF NetStep, Waits
<1>6. \A s \in Slots : Filled(s)' <=> Filled(s)
  BY DEF NetStep, Filled
<1>7. \A x, y \in Nat : x < next /\ next <= y /\ y < next' => Before(x, y)'
  BY <1>1 DEF Before
<1> QED BY <1>1, <1>2, <1>3, <1>4, <1>5, <1>6, <1>7

\* The network adds frames behind all others, in order but for its faults.
LEMMA NetKeepsOrder ==
  ASSUME OrderInv, NetStep
  PROVE  OrderInv'
<1>1. /\ CollectTypes /\ Placed /\ SocketInOrder /\ KeptInOrder
      /\ CaptureWaits /\ CaptureKept /\ CapturesInOrder
  BY DEF OrderInv
<1>2. /\ next' \in Nat /\ next <= next' /\ socket' \in Seq(Datagram)
      /\ \A i \in Positions : socket'[i] = socket[i]
      /\ disturbed' \subseteq Nat
      /\ \A x \in disturbed' : x \in disturbed \/ (next <= x /\ x < next')
      /\ \A i \in Positions' : i \notin Positions /\ socket'[i] \in Packet
           => next <= socket'[i].n /\ socket'[i].n < next'
      /\ UNCHANGED <<pc, sweeps, received, discards, captures>>
  BY DEF NetStep
<1>3. /\ \A x, y : Before(x, y) => Before(x, y)'
      /\ \A x, y \in Nat : x < next /\ next <= y /\ y < next' => Before(x, y)'
      /\ next \in Nat
  BY <1>1, NetKeeps
<1>4. /\ \A p \in Packet : p.n \in Nat
      /\ \A s \in Slots : Filled(s) => sweeps[s].n \in Nat
      /\ \A k \in DOMAIN captures : \A s \in Slots : captures[k].slots[s].n \in Nat
  BY <1>1, Frames, Numbered
<1>5. CollectTypes'
  BY <1>1, <1>2 DEF CollectTypes, NetStep
<1>6. Placed'
  <2>1. \A x \in disturbed' : x < next'
    BY <1>1, <1>2, <1>3 DEF Placed
  <2>2. \A i \in Positions' : socket'[i] \in Packet => socket'[i].n < next'
    BY <1>1, <1>2, <1>3, <1>4 DEF Placed
  <2>3. \A s \in Slots : Filled(s)' => sweeps'[s].n < next' /\ SlotAt(sweeps'[s].n) = s
    BY <1>1, <1>2, <1>3, <1>4 DEF Placed, Filled
  <2>4. \A k \in DOMAIN captures' : \A s \in Slots :
          captures'[k].slots[s].n < next' /\ SlotAt(captures'[k].slots[s].n) = s
    BY <1>1, <1>2, <1>3, <1>4 DEF Placed
  <2> QED BY <2>1, <2>2, <2>3, <2>4 DEF Placed
<1>7. SocketInOrder'
  <2> SUFFICES ASSUME NEW i \in Positions', NEW j \in Positions', i < j,
                      socket'[i] \in Packet, socket'[j] \in Packet
               PROVE  (Before(socket[i].n, socket[j].n))'
    BY DEF SocketInOrder
  <2>1. CASE i \in Positions /\ j \in Positions
    BY <2>1, <1>1, <1>2, <1>3 DEF SocketInOrder
  <2>2. CASE i \in Positions /\ j \notin Positions
    BY <2>2, <1>1, <1>2, <1>3, <1>4 DEF Placed
  <2>3. CASE i \notin Positions /\ j \notin Positions
    BY <2>3 DEF NetStep
  <2>4. j \in Positions => i \in Positions
    BY DEF Positions
  <2> QED BY <2>1, <2>2, <2>3, <2>4
<1>8. KeptInOrder'
  <2> SUFFICES ASSUME pc = "recv", NEW s \in Slots, NEW i \in Positions', Filled(s), socket'[i] \in Packet
               PROVE  (Before(sweeps[s].n, socket[i].n))'
    BY <1>2 DEF KeptInOrder, Filled
  <2>1. CASE i \in Positions
    BY <2>1, <1>1, <1>2, <1>3 DEF KeptInOrder
  <2>2. CASE i \notin Positions
    BY <2>2, <1>1, <1>2, <1>3, <1>4 DEF Placed
  <2> QED BY <2>1, <2>2
<1>9. CaptureWaits'
  <2> SUFFICES ASSUME NEW k \in DOMAIN captures, NEW s \in Slots, NEW i \in Positions', socket'[i] \in Packet
               PROVE  (Before(captures[k].slots[s].n, socket[i].n))'
    BY <1>2 DEF CaptureWaits
  <2>1. CASE i \in Positions
    BY <2>1, <1>1, <1>2, <1>3 DEF CaptureWaits
  <2>2. CASE i \notin Positions
    BY <2>2, <1>1, <1>2, <1>3, <1>4 DEF Placed
  <2> QED BY <2>1, <2>2
<1>10. CaptureKept' /\ CapturesInOrder'
  BY <1>1, <1>2, <1>3 DEF CaptureKept, CapturesInOrder, Filled
<1> QED BY <1>5, <1>6, <1>7, <1>8, <1>9, <1>10 DEF OrderInv

\* No undisturbed frame gets lost between the sender and the socket.
LEMMA NetKeepsShort ==
  ASSUME OrderInv, ShortInv, NetStep
  PROVE  ShortInv'
<1>1. /\ CollectTypes /\ Placed
      /\ SocketComplete /\ KeptComplete /\ KeptFirst /\ CapturedFirst
  BY DEF OrderInv, ShortInv
<1>2. /\ next' \in Nat /\ next <= next'
      /\ \A i \in Positions : socket'[i] = socket[i]
      /\ \A i \in Positions' : i \notin Positions /\ socket'[i] \in Packet => next <= socket'[i].n
      /\ \A y \in Nat : next <= y /\ y < next' /\ y \notin disturbed' => Waits(y)'
      /\ disturbed \subseteq disturbed'
      /\ UNCHANGED <<pc, sweeps, received, discards, captures>>
  BY DEF NetStep
<1>3. /\ \A y \in Nat : Waits(y) => Waits(y)'
      /\ next \in Nat
  BY <1>1, NetKeeps
<1>4. \A p \in Packet : p.n \in Nat
  BY Frames
<1>5. SocketComplete'
  <2> SUFFICES ASSUME NEW i \in Positions', NEW y \in Nat, socket'[i] \in Packet,
                      socket'[i].n < y, y < next', y \notin disturbed'
               PROVE  Waits(y)'
    BY DEF SocketComplete
  <2>1. CASE next <= y
    BY <2>1, <1>2
  <2>2. CASE y < next
    <3>1. i \in Positions /\ socket[i] \in Packet /\ socket[i].n < y /\ y \notin disturbed
      BY <2>2, <1>2, <1>3, <1>4
    <3> QED BY <3>1, <2>2, <1>1, <1>3 DEF SocketComplete
  <2> QED BY <2>1, <2>2, <1>3
<1>6. KeptComplete'
  <2> SUFFICES ASSUME pc = "recv", NEW s \in Slots, NEW y \in Nat, Filled(s),
                      sweeps[s].n < y, y < next', y \notin disturbed'
               PROVE  Waits(y)' \/ Filled(SlotAt(y))
    BY <1>2 DEF KeptComplete, Filled
  <2>1. CASE next <= y
    BY <2>1, <1>2
  <2>2. CASE y < next
    BY <2>2, <1>1, <1>2, <1>3 DEF KeptComplete
  <2> QED BY <2>1, <2>2, <1>3
<1>7. KeptFirst' /\ CapturedFirst'
  <2>1. \A s, t \in Slots : /\ First(sweeps, s, t) => First(sweeps, s, t)'
                            /\ \A k \in DOMAIN captures :
                                 First(captures[k].slots, s, t) => First(captures[k].slots, s, t)'
    BY <1>2 DEF First
  <2> QED BY <2>1, <1>1, <1>2 DEF KeptFirst, CapturedFirst, Filled
<1> QED BY <1>5, <1>6, <1>7 DEF ShortInv

\* The network does not touch what was read, and brings the frame that follows.
LEMMA NetKeepsSkip ==
  ASSUME OrderInv, SkipInv, NetStep
  PROVE  SkipInv'
<1>1. /\ CollectTypes /\ Placed
      /\ StartsEmpty /\ SomethingRead /\ DiscardsGrow /\ Followed /\ FollowsNow
  BY DEF OrderInv, SkipInv
<1>2. /\ next' \in Nat /\ next <= next'
      /\ \A i \in Positions : socket'[i] = socket[i]
      /\ \A i \in Positions' : i \notin Positions /\ socket'[i] \in Packet
           => next <= socket'[i].n /\ socket'[i].n < next'
      /\ \A y \in Nat : next <= y /\ y < next' /\ y \notin disturbed' => Waits(y)'
      /\ disturbed \subseteq disturbed'
      /\ UNCHANGED <<pc, sweeps, received, discards, captures>>
  BY DEF NetStep
<1>3. /\ \A y \in Nat : Waits(y) => Waits(y)'
      /\ \A x, y : Before(x, y) => Before(x, y)'
      /\ \A x, y \in Nat : x < next /\ next <= y /\ y < next' => Before(x, y)'
      /\ \A x \in Nat : x < next => (x \in disturbed' <=> x \in disturbed)
      /\ next \in Nat
  BY <1>1, NetKeeps
<1>4. \A p \in Packet : p.n \in Nat
  BY Frames
<1>5. StartsEmpty' /\ DiscardsGrow'
  BY <1>1, <1>2 DEF StartsEmpty, DiscardsGrow, Filled
<1>6. SomethingRead'
  <2> SUFFICES ASSUME pc = "recv", received > 0
               PROVE  \E z \in Nat : LastRead(z)'
    BY <1>2 DEF SomethingRead
  <2>1. PICK z \in Nat : LastRead(z)
    BY <1>1 DEF SomethingRead
  <2>2. z < next /\ z < next'
    BY <2>1, <1>2, <1>3 DEF LastRead
  <2>3. \A s \in Slots : Filled(s)' /\ (sweeps'[s].n \notin disturbed' \/ z \notin disturbed')
          => sweeps'[s].n <= z
    BY <2>1, <1>2 DEF LastRead, Filled
  <2>4. \A i \in Positions' : socket'[i] \in Packet => (Before(z, socket[i].n))'
    <3> SUFFICES ASSUME NEW i \in Positions', socket'[i] \in Packet
                 PROVE  (Before(z, socket[i].n))'
      OBVIOUS
    <3>1. CASE i \in Positions
      BY <3>1, <2>1, <1>2, <1>3 DEF LastRead
    <3>2. CASE i \notin Positions
      BY <3>2, <2>2, <1>2, <1>3, <1>4
    <3> QED BY <3>1, <3>2
  <2>5. \A y \in Nat : z < y /\ y < next' /\ y \notin disturbed' => Waits(y)'
    <3> SUFFICES ASSUME NEW y \in Nat, z < y, y < next', y \notin disturbed'
                 PROVE  Waits(y)'
      OBVIOUS
    <3>1. CASE next <= y
      BY <3>1, <1>2
    <3>2. CASE y < next
      BY <3>2, <2>1, <1>2, <1>3 DEF LastRead
    <3> QED BY <3>1, <3>2, <1>3
  <2>6. Collected' => \E s \in Slots : sweeps'[s] = Frame(z)
    BY <2>1, <1>2 DEF LastRead, Collected
  <2>7. LastRead(z)'
    BY <2>2, <2>3, <2>4, <2>5, <2>6 DEF LastRead
  <2> QED BY <2>7
<1>7. \A k : \A h \in Nat : NewestOf(k, h)' => NewestOf(k, h)
  BY <1>2 DEF NewestOf
<1>8. \A k \in DOMAIN captures : \A h \in Nat : NewestOf(k, h) => h < next
  BY <1>1 DEF NewestOf, Placed
<1>9. Followed'
  <2> SUFFICES ASSUME NEW k \in DOMAIN captures, NEW h \in Nat, k + 1 \in DOMAIN captures,
                      captures[k + 1].discards = captures[k].discards, NewestOf(k, h)
               PROVE  CaptureFollows(k, h)'
    BY <1>2, <1>7 DEF Followed
  <2>1. CaptureFollows(k, h)
    BY <1>1 DEF Followed
  <2> QED BY <2>1, <1>2, <1>3 DEF CaptureFollows
<1>10. FollowsNow'
  <2> SUFFICES ASSUME NEW h \in Nat, captures # <<>>, captures[Len(captures)].discards = discards,
                      NewestOf(Len(captures), h)
               PROVE  IF Started THEN KeptFollows(h)' ELSE WaitingFollows(h)'
    BY <1>2, <1>7 DEF FollowsNow, Started
  <2>1. IF Started THEN KeptFollows(h) ELSE WaitingFollows(h)
    BY <1>1 DEF FollowsNow
  <2>2. CASE Started
    BY <2>1, <2>2, <1>2, <1>3 DEF KeptFollows
  <2>3. CASE ~Started
    <3> SUFFICES ASSUME h + 1 < next', h + 1 \notin disturbed'
                 PROVE  Waits(h + 1)'
      BY <2>3 DEF WaitingFollows
    <3>1. CASE next <= h + 1
      BY <3>1, <1>2
    <3>2. CASE h + 1 < next
      BY <3>2, <2>1, <2>3, <1>2, <1>3 DEF WaitingFollows
    <3> QED BY <3>1, <3>2, <1>3
  <2> QED BY <2>2, <2>3
<1> QED BY <1>5, <1>6, <1>9, <1>10 DEF SkipInv

\* One fault more is one period more of patience.
LEMMA PatienceIs ==
  ASSUME NEW f \in Nat
  PROVE  /\ Period * (1 + f) \in Nat /\ Period * (1 + f) >= Period
         /\ Period * (1 + (f + 1)) = Period * (1 + f) + Period
<1>1. Period \in Nat
  BY PeriodType
<1>2. Period * (1 + f) = Period + Period * f /\ Period * f \in Nat
  BY <1>1
<1>3. Period * (1 + (f + 1)) = Period + Period + Period * f
  BY <1>1
<1> QED BY <1>1, <1>2, <1>3

\* A step of the network pays for what it makes later.
LEMMA NetKeepsServes ==
  ASSUME CollectTypes, NetStep, NetPays, NEW s \in Slots, NEW a \in Int, NEW i \in 0 .. Len(socket),
         Serves(i, a, s)
  PROVE  Serves(i, a, s)'
<1>1. /\ next \in Nat /\ faults \in Nat /\ Len(socket) \in Nat /\ next' \in Nat /\ faults' \in Nat
      /\ Len(socket') \in Nat /\ next <= next' /\ Len(socket) <= Len(socket')
      /\ Period \in Nat /\ Period >= 2
  BY PeriodType DEF CollectTypes, NetStep
<1>2. /\ Patience \in Nat
      /\ faults' = faults => Patience' = Patience
      /\ faults' = faults + 1 => Patience' = Patience + Period
  BY <1>1, PatienceIs DEF Patience
<1>3. Patience' >= Patience /\ Patience' \in Nat
  BY <1>1, <1>2 DEF NetPays
<1>4. CASE \E j \in Positions : i < j /\ a + j <= Patience /\ socket[j] \in Packet /\ SlotAt(socket[j].n) = s
  <2>1. PICK j \in Positions : i < j /\ a + j <= Patience /\ socket[j] \in Packet /\ SlotAt(socket[j].n) = s
    BY <1>4
  <2>2. j \in Positions' /\ socket'[j] = socket[j]
    BY NetKeeps DEF NetStep
  <2>3. a + j <= Patience'
    BY <2>1, <1>1, <1>2, <1>3 DEF Positions
  <2> QED BY <2>1, <2>2, <2>3 DEF Serves
<1>5. CASE \E m \in Nat : next <= m /\ SlotAt(m) = s /\ a + Len(socket) + 1 + (m - next) <= Patience
  <2>1. PICK m \in Nat : next <= m /\ SlotAt(m) = s /\ a + Len(socket) + 1 + (m - next) <= Patience
    BY <1>5
  <2>2. CASE next' <= m
    <3>1. a + Len(socket') + 1 + (m - next') <= Patience'
      BY <2>1, <2>2, <1>1, <1>2, SMTT(30) DEF NetPays
    <3> QED BY <2>1, <2>2, <3>1 DEF Serves
  <2>3. CASE m < next' /\ \E j \in Positions' : j \notin Positions /\ socket'[j] = Frame(m)
    <3>1. PICK j \in Positions' : j \notin Positions /\ socket'[j] = Frame(m)
      BY <2>3
    <3>2. socket'[j] \in Packet /\ SlotAt(socket'[j].n) = s
      BY <2>1, <3>1, Frames
    <3>3. i < j /\ a + j <= Patience'
      <4>1. j \in Nat /\ Len(socket) < j /\ j <= Len(socket')
        BY <3>1, <1>1 DEF Positions
      <4> QED BY <2>1, <4>1, <1>1, <1>2, SMTT(30) DEF NetPays
    <3> QED BY <3>2, <3>3 DEF Serves
  <2>4. CASE m < next' /\ ~ \E j \in Positions' : j \notin Positions /\ socket'[j] = Frame(m)
    <3>1. Len(socket') = Len(socket) /\ next' = next + 1 /\ faults' = faults + 1
      BY <2>1, <2>4 DEF NetPays
    <3>2. SlotAt(m + Period) = s /\ m + Period \in Nat /\ next' <= m + Period
      BY <2>1, <3>1, <1>1, SlotPeriod
    <3>3. a + Len(socket') + 1 + ((m + Period) - next') <= Patience'
      BY <2>1, <3>1, <1>1, <1>2
    <3> QED BY <3>2, <3>3 DEF Serves
  <2> QED BY <2>1, <2>2, <2>3, <2>4, <1>1
<1> QED BY <1>4, <1>5 DEF Serves

\* Arithmetic of a frame that comes within the next period.
LEMMA WithinPeriod ==
  ASSUME NEW l \in Nat, NEW i \in 0 .. l, NEW n \in Nat, NEW p \in Nat, NEW w \in Nat,
         NEW m \in n .. n + p - 1, l - i + 1 + (p - 1) <= w
  PROVE  m \in Nat /\ n <= m /\ (0 - i) + l + 1 + (m - n) <= w
OBVIOUS

\* The network never brings a slot's next frame too late.
LEMMA NetKeepsEnd ==
  ASSUME CollectTypes, EndInv, NetStep, NetPays
  PROVE  EndInv'
<1>1. /\ next \in Nat /\ faults \in Nat /\ Len(socket) \in Nat /\ next' \in Nat /\ faults' \in Nat
      /\ Len(socket') \in Nat /\ next <= next' /\ Len(socket) <= Len(socket')
      /\ Period \in Nat /\ Period >= 2 /\ received \in Nat
      /\ UNCHANGED <<pc, sweeps, received>>
  BY PeriodType DEF CollectTypes, NetStep
<1>2. /\ Patience \in Nat /\ Patience >= Period
      /\ faults' = faults => Patience' = Patience
      /\ faults' = faults + 1 => Patience' = Patience + Period
  BY <1>1, PatienceIs DEF Patience
<1>3. CollectionEnds'
  <2>1. received <= Patience
    BY DEF EndInv, CollectionEnds, Patience
  <2>2. Patience' >= Patience /\ Patience' \in Nat
    BY <1>1, <1>2 DEF NetPays
  <2>3. received' <= Patience'
    BY <2>1, <2>2, <1>1, <1>2
  <2> QED BY <2>3 DEF CollectionEnds, Patience
<1>4. SocketServes'
  <2> SUFFICES ASSUME NEW i \in 0 .. Len(socket'), NEW s \in Slots
               PROVE  Serves(i, 0 - i, s)'
    BY DEF SocketServes
  <2>1. CASE i \in 0 .. Len(socket)
    <3>1. Serves(i, 0 - i, s)
      BY <2>1 DEF EndInv, SocketServes
    <3> QED BY <2>1, <3>1, <1>1, NetKeepsServes
  <2>3. Patience' \in Nat
    BY <1>1, <1>2 DEF NetPays
  <2>2. CASE i \notin 0 .. Len(socket)
    <3>1. PICK m \in next' .. next' + Period - 1 : SlotAt(m) = s
      BY <1>1, SlotCover
    <3>2. Len(socket') - i + 1 + (Period - 1) <= Patience'
      BY <2>2, <1>1, <1>2 DEF NetPays
    <3>3. m \in Nat /\ next' <= m /\ (0 - i) + Len(socket') + 1 + (m - next') <= Patience'
      BY <3>1, <3>2, <2>3, <1>1, WithinPeriod
    <3> QED BY <3>1, <3>3 DEF Serves
  <2> QED BY <2>1, <2>2
<1>5. CollectionServes'
  BY <1>1, NetKeepsServes DEF EndInv, CollectionServes, Filled
<1> QED BY <1>3, <1>4, <1>5 DEF EndInv

-----------------------------------------------------------------------------
(* The radar thread *)

\* One datagram is read from the socket.
LEMMA TailStep ==
  ASSUME CollectTypes, socket # <<>>, socket' = Tail(socket)
  PROVE  /\ socket' \in Seq(Datagram) /\ Len(socket') \in Nat /\ Len(socket) = Len(socket') + 1
         /\ \A i \in Positions' : i + 1 \in Positions /\ socket'[i] = socket[i + 1]
         /\ \A i \in Positions : i = 1 \/ (i - 1 \in Positions' /\ socket'[i - 1] = socket[i])
         /\ 1 \in Positions /\ Head(socket) = socket[1]
<1>1. socket \in Seq(Datagram) /\ Len(socket) \in Nat /\ Len(socket) # 0
  BY EmptySeq DEF CollectTypes
<1>2. /\ socket' \in Seq(Datagram) /\ Len(socket') = Len(socket) - 1
      /\ \A i \in 1 .. Len(socket') : socket'[i] = socket[i + 1]
  BY <1>1, HeadTailProperties
<1>3. \A i \in Positions' : i + 1 \in Positions /\ socket'[i] = socket[i + 1]
  BY <1>1, <1>2 DEF Positions
<1>4. ASSUME NEW i \in Positions, i # 1
      PROVE  i - 1 \in Positions' /\ socket'[i - 1] = socket[i]
  <2>1. i - 1 \in 1 .. Len(socket') /\ (i - 1) + 1 = i
    BY <1>1, <1>2, <1>4 DEF Positions
  <2> QED BY <1>2, <2>1 DEF Positions
<1>5. 1 \in Positions /\ Head(socket) = socket[1]
  BY <1>1 DEF Positions
<1>6. Len(socket') \in Nat /\ Len(socket) = Len(socket') + 1
  BY <1>1, <1>2
<1> QED BY <1>2, <1>3, <1>4, <1>5, <1>6

\* A read of the socket keeps the order and the completeness of what waits.
LEMMA RadarSocket ==
  ASSUME OrderInv, SocketComplete, SocketServes,
         UNCHANGED <<next, disturbed>>, faults' \in Nat, faults' >= faults,
         socket' = socket \/ (socket # <<>> /\ socket' = Tail(socket))
  PROVE  /\ socket' \in Seq(Datagram)
         /\ \A i \in Positions' : \E j \in Positions : socket'[i] = socket[j]
         /\ SocketInOrder' /\ SocketComplete' /\ SocketServes'
<1>1. /\ CollectTypes /\ Placed /\ SocketInOrder /\ next \in Nat /\ faults \in Nat
      /\ Len(socket) \in Nat /\ Period \in Nat
  BY PeriodType DEF OrderInv, CollectTypes
<1>2. \A x, y : Before(x, y)' <=> Before(x, y)
  BY DEF Before
<1>3. Patience \in Nat /\ Patience' \in Nat /\ Patience <= Patience'
  <2>1. PICK d \in Nat : faults' = faults + d
    BY <1>1
  <2>2. Period * (1 + faults') = Period * (1 + faults) + Period * d /\ Period * d \in Nat
    BY <2>1, <1>1
  <2>3. Patience \in Nat /\ Patience' = Patience + Period * d
    BY <2>2, <1>1, PatienceIs DEF Patience
  <2> HIDE DEF Patience
  <2> QED BY <2>2, <2>3
<1>4. CASE socket' = socket
  <2>1. Positions' = Positions
    BY <1>4 DEF Positions
  <2>2. \A y \in Nat : Waits(y)' <=> Waits(y)
    BY <1>4, <2>1 DEF Waits
  <2>3. SocketInOrder'
    BY <1>1, <1>2, <1>4, <2>1 DEF SocketInOrder
  <2>4. SocketComplete'
    BY <1>4, <2>1, <2>2 DEF SocketComplete
  <2>5. ASSUME NEW i \in 0 .. Len(socket), NEW s \in Slots PROVE Serves(i, 0 - i, s)'
    <3>1. Serves(i, 0 - i, s)
      BY DEF SocketServes
    <3>2. \A j \in Positions : (0 - i) + j <= Patience => (0 - i) + j <= Patience'
      BY <1>1, <1>3 DEF Positions
    <3>3. \A m \in Nat : (0 - i) + Len(socket) + 1 + (m - next) <= Patience
                           => (0 - i) + Len(socket) + 1 + (m - next) <= Patience'
      BY <1>1, <1>3
    <3> QED BY <3>1, <3>2, <3>3, <1>4, <2>1 DEF Serves
  <2>6. SocketServes'
    BY <1>4, <2>5 DEF SocketServes
  <2> QED BY <1>1, <1>4, <2>1, <2>3, <2>4, <2>6 DEF CollectTypes
<1>5. CASE socket # <<>> /\ socket' = Tail(socket)
  <2>1. /\ socket' \in Seq(Datagram) /\ Len(socket') \in Nat /\ Len(socket) = Len(socket') + 1
        /\ \A i \in Positions' : i + 1 \in Positions /\ socket'[i] = socket[i + 1]
        /\ \A i \in Positions : i = 1 \/ (i - 1 \in Positions' /\ socket'[i - 1] = socket[i])
        /\ 1 \in Positions
    BY <1>1, <1>5, TailStep
  <2>2. \A i, j \in Positions' : i \in Nat /\ (i < j => i + 1 < j + 1)
    BY <2>1 DEF Positions
  <2>3. SocketInOrder'
    BY <1>1, <1>2, <2>1, <2>2 DEF SocketInOrder
  <2>4. SocketComplete'
    <3> SUFFICES ASSUME NEW i \in Positions', NEW y \in Nat, socket'[i] \in Packet,
                        socket'[i].n < y, y < next, y \notin disturbed
                 PROVE  Waits(y)'
      BY DEF SocketComplete
    <3>1. i + 1 \in Positions /\ socket[i + 1] = socket'[i] /\ 1 < i + 1
      BY <2>1, <2>2 DEF Positions
    <3>2. PICK j \in Positions : socket[j] = Frame(y)
      BY <3>1 DEF SocketComplete, Waits
    <3>3. j # 1
      <4> SUFFICES ASSUME j = 1 PROVE FALSE
        OBVIOUS
      <4>1. socket[1] \in Packet /\ socket[1].n = y
        BY <3>2, Frames
      <4>2. Before(y, socket[i + 1].n)
        BY <1>1, <2>1, <3>1, <4>1 DEF SocketInOrder
      <4>3. socket'[i].n \in Nat
        BY Frames
      <4> QED BY <3>1, <4>2, <4>3 DEF Before
    <3> QED BY <2>1, <3>2, <3>3 DEF Waits
  <2>5. ASSUME NEW i \in 0 .. Len(socket'), NEW s \in Slots PROVE Serves(i, 0 - i, s)'
    <3>1. i + 1 \in 0 .. Len(socket)
      BY <2>1
    <3>2. Serves(i + 1, 0 - (i + 1), s)
      BY <3>1 DEF SocketServes
    <3>3. CASE \E j \in Positions : i + 1 < j /\ (0 - (i + 1)) + j <= Patience /\ socket[j] \in Packet /\ SlotAt(socket[j].n) = s
      <4>1. PICK j \in Positions : i + 1 < j /\ (0 - (i + 1)) + j <= Patience /\ socket[j] \in Packet /\ SlotAt(socket[j].n) = s
        BY <3>3
      <4>2. j \in Nat /\ j # 1 /\ i < j - 1 /\ (0 - i) + (j - 1) <= Patience'
        BY <1>3, <3>1, <4>1 DEF Positions
      <4>3. j - 1 \in Positions' /\ socket'[j - 1] = socket[j]
        BY <2>1, <4>2
      <4> QED BY <4>1, <4>2, <4>3 DEF Serves
    <3>4. CASE \E m \in Nat : next <= m /\ SlotAt(m) = s /\ (0 - (i + 1)) + Len(socket) + 1 + (m - next) <= Patience
      <4>1. PICK m \in Nat : next <= m /\ SlotAt(m) = s /\ (0 - (i + 1)) + Len(socket) + 1 + (m - next) <= Patience
        BY <3>4
      <4>2. (0 - i) + Len(socket') + 1 + (m - next) <= Patience'
        BY <1>1, <1>3, <2>1, <3>1, <4>1
      <4> QED BY <4>1, <4>2 DEF Serves
    <3> QED BY <3>2, <3>3, <3>4 DEF Serves
  <2>6. SocketServes'
    BY <2>5 DEF SocketServes
  <2> QED BY <2>1, <2>3, <2>4, <2>6
<1> QED BY <1>4, <1>5

\* A collection is left: given up, begun anew before it read anything.
LEMMA LeavingKeeps ==
  ASSUME CollectInv, UNCHANGED <<next, disturbed, sweeps, captures, received>>, pc' = "clear",
         faults' \in Nat, faults' >= faults,
         socket' = socket \/ (socket # <<>> /\ socket' = Tail(socket)),
         discards' = discards + 1 \/ (discards' = discards /\ socket' = socket /\ ~Started)
  PROVE  CollectInv'
<1>1. /\ OrderInv /\ SocketComplete /\ SocketServes /\ CollectTypes /\ Placed
      /\ CaptureWaits /\ CapturesInOrder /\ CapturedFirst
      /\ DiscardsGrow /\ Followed /\ FollowsNow /\ CollectionEnds
  BY DEF CollectInv, OrderInv, ShortInv, SkipInv, EndInv
<1>2. /\ socket' \in Seq(Datagram)
      /\ \A i \in Positions' : \E j \in Positions : socket'[i] = socket[j]
      /\ SocketInOrder' /\ SocketComplete' /\ SocketServes'
  BY <1>1, RadarSocket
<1>3. \A x, y : Before(x, y)' <=> Before(x, y)
  BY DEF Before
<1>4. discards \in Nat /\ discards' \in Nat /\ discards <= discards' /\ faults \in Nat /\ received \in Nat
  BY <1>1 DEF CollectTypes
<1>5. OrderInv'
  <2>1. CollectTypes'
    BY <1>1, <1>2, <1>4 DEF CollectTypes
  <2>2. Placed'
    BY <1>1, <1>2 DEF Placed, Filled
  <2>3. CaptureWaits' /\ CapturesInOrder'
    BY <1>1, <1>2, <1>3 DEF CaptureWaits, CapturesInOrder
  <2>4. KeptInOrder' /\ CaptureKept'
    BY DEF KeptInOrder, CaptureKept
  <2> QED BY <1>2, <2>1, <2>2, <2>3, <2>4 DEF OrderInv
<1>6. ShortInv'
  <2>1. CapturedFirst'
    BY <1>1 DEF CapturedFirst, First
  <2> QED BY <1>2, <2>1 DEF ShortInv, KeptComplete, KeptFirst
<1>7. SkipInv'
  <2>1. DiscardsGrow'
    BY <1>1, <1>4, Numbered DEF DiscardsGrow
  <2>2. Followed'
    BY <1>1 DEF Followed, NewestOf, CaptureFollows
  <2>3. FollowsNow'
    <3>1. CASE discards' = discards + 1
      <4>1. captures # <<>> => Len(captures) \in DOMAIN captures
        BY <1>1, EmptySeq, Numbered DEF CollectTypes
      <4>2. captures # <<>> => captures[Len(captures)].discards # discards'
        BY <1>1, <1>4, <3>1, <4>1, Numbered DEF DiscardsGrow
      <4> QED BY <4>2 DEF FollowsNow
    <3>2. CASE discards' = discards /\ socket' = socket /\ ~Started
      BY <1>1, <3>2 DEF FollowsNow, Started, NewestOf, WaitingFollows, Waits, Positions
    <3> QED BY <3>1, <3>2
  <2> QED BY <2>1, <2>2, <2>3 DEF SkipInv, StartsEmpty, SomethingRead
<1>8. EndInv'
  <2>1. received <= Patience
    BY <1>1 DEF CollectionEnds, Patience
  <2>2. PICK d \in Nat : faults' = faults + d
    BY <1>4
  <2>3. Period \in Nat /\ Period * (1 + faults') = Period * (1 + faults) + Period * d /\ Period * d \in Nat
    BY <2>2, <1>4, PeriodType
  <2>4. Patience \in Nat /\ Patience' = Patience + Period * d
    BY <2>3, <1>4, PatienceIs DEF Patience
  <2>5. received <= Patience'
    BY <2>1, <2>3, <2>4, <1>4
  <2>6. CollectionEnds'
    BY <2>5 DEF CollectionEnds, Patience
  <2> QED BY <1>2, <2>6 DEF EndInv, CollectionServes
<1> QED BY <1>5, <1>6, <1>7, <1>8 DEF CollectInv

\* A collection starts from empty slots.
LEMMA ClearDataKeeps ==
  ASSUME CollectInv, ClearData
  PROVE  CollectInv'
<1>1. /\ OrderInv /\ SocketComplete /\ SocketServes /\ CollectTypes /\ Placed /\ SocketInOrder
      /\ CaptureWaits /\ CapturesInOrder /\ CapturedFirst
      /\ DiscardsGrow /\ Followed /\ FollowsNow
  BY DEF CollectInv, OrderInv, ShortInv, SkipInv, EndInv
<1>2. /\ pc = "clear" /\ pc' = "recv" /\ sweeps' = NoSweeps /\ received' = 0
      /\ UNCHANGED <<next, socket, faults, disturbed, discards, captures>>
  BY DEF ClearData, network
<1>3. \A s \in Slots : ~Filled(s)'
  BY <1>2 DEF Filled, NoSweeps
<1>4. Positions' = Positions /\ (\A x, y : Before(x, y)' <=> Before(x, y)) /\ \A y : Waits(y)' <=> Waits(y)
  BY <1>2 DEF Positions, Before, Waits
<1>5. OrderInv'
  <2>1. CollectTypes'
    BY <1>1, <1>2 DEF CollectTypes, NoSweeps
  <2>2. Placed'
    BY <1>1, <1>2, <1>3, <1>4 DEF Placed
  <2>3. SocketInOrder' /\ CaptureWaits' /\ CapturesInOrder'
    BY <1>1, <1>2, <1>4 DEF SocketInOrder, CaptureWaits, CapturesInOrder
  <2>4. KeptInOrder' /\ CaptureKept'
    BY <1>3 DEF KeptInOrder, CaptureKept
  <2> QED BY <2>1, <2>2, <2>3, <2>4 DEF OrderInv
<1>6. ShortInv'
  <2>1. SocketComplete' /\ CapturedFirst'
    BY <1>1, <1>2, <1>4 DEF SocketComplete, CapturedFirst, First
  <2> QED BY <1>3, <2>1 DEF ShortInv, KeptComplete, KeptFirst
<1>7. SkipInv'
  <2>1. DiscardsGrow' /\ Followed'
    BY <1>1, <1>2 DEF DiscardsGrow, Followed, NewestOf, CaptureFollows
  <2>2. FollowsNow'
    BY <1>1, <1>2, <1>4 DEF FollowsNow, Started, NewestOf, WaitingFollows
  <2> QED BY <1>2, <1>3, <2>1, <2>2 DEF SkipInv, StartsEmpty, SomethingRead
<1>8. EndInv'
  <2>1. CollectionEnds'
    BY <1>1, <1>2, PatienceIs DEF CollectionEnds, CollectTypes
  <2>2. SocketServes'
    BY <1>1, <1>2, <1>4 DEF SocketServes, Serves, Patience
  <2>3. CollectionServes'
    <3>1. \A s \in Slots : Serves(0, 0 - 0, s)
      BY <1>1 DEF SocketServes, CollectTypes
    <3>2. 0 - 0 = 0
      OBVIOUS
    <3>3. \A s \in Slots : Serves(0, 0, s)
      BY <3>1, <3>2
    <3> QED BY <3>3, <1>2, <1>4 DEF CollectionServes, Serves, Patience
  <2> QED BY <2>1, <2>2, <2>3 DEF EndInv
<1> QED BY <1>5, <1>6, <1>7, <1>8 DEF CollectInv

\* A capture takes over what is known of the slots.
LEMMA ReadSweepsKeeps ==
  ASSUME CollectInv, ReadSweeps
  PROVE  CollectInv'
<1> DEFINE c == [slots |-> sweeps, discards |-> discards]
           new == Len(captures) + 1
<1>1. /\ OrderInv /\ SocketComplete /\ SocketServes /\ CollectTypes /\ Placed /\ SocketInOrder
      /\ KeptInOrder /\ CaptureWaits /\ CaptureKept /\ CapturesInOrder /\ KeptFirst /\ CapturedFirst
      /\ StartsEmpty /\ SomethingRead /\ DiscardsGrow /\ Followed /\ FollowsNow /\ CollectionEnds
  BY DEF CollectInv, OrderInv, ShortInv, SkipInv, EndInv
<1>2. /\ pc = "recv" /\ Collected /\ pc' = "clear" /\ captures' = Append(captures, c)
      /\ UNCHANGED <<next, socket, faults, disturbed, sweeps, received, discards>>
  BY DEF ReadSweeps, network
<1>3. \A s \in Slots : Filled(s) /\ sweeps[s] \in Packet /\ sweeps[s].n \in Nat
  BY <1>1, <1>2, Numbered DEF Collected, Filled
<1>4. c \in Capture
  BY <1>1, <1>3 DEF CollectTypes, Capture, Filled
<1>5. /\ captures' \in Seq(Capture) /\ new \in Nat /\ Len(captures) \in Nat
      /\ DOMAIN captures = 1 .. Len(captures) /\ DOMAIN captures' = 1 .. new /\ Len(captures') = new
      /\ \A k \in DOMAIN captures : k < new /\ captures'[k] = captures[k]
      /\ captures'[new].slots = sweeps /\ captures'[new].discards = discards
  <2>1. captures \in Seq(Capture) /\ Len(captures) \in Nat /\ DOMAIN captures = 1 .. Len(captures)
    BY <1>1, LenProperties DEF CollectTypes
  <2>2. /\ captures' \in Seq(Capture) /\ Len(captures') = new
        /\ \A k \in 1 .. Len(captures) : captures'[k] = captures[k]
        /\ captures'[new] = c
    BY <1>2, <1>4, <2>1, AppendProperties
  <2>3. DOMAIN captures' = 1 .. Len(captures')
    BY <2>2, LenProperties
  <2>4. \A k \in DOMAIN captures : k < new
    BY <2>1
  <2> QED BY <2>1, <2>2, <2>3, <2>4
<1> HIDE DEF new, c
<1>6. \A k \in DOMAIN captures' : k \in DOMAIN captures \/ k = new
  BY <1>5 DEF new
<1>7. Positions' = Positions /\ (\A x, y : Before(x, y)' <=> Before(x, y)) /\ \A y : Waits(y)' <=> Waits(y)
  BY <1>2 DEF Positions, Before, Waits
<1>8. OrderInv'
  <2>1. CollectTypes'
    BY <1>1, <1>2, <1>5 DEF CollectTypes
  <2>2. Placed'
    <3>1. \A k \in DOMAIN captures' : \A s \in Slots :
            captures'[k].slots[s].n < next /\ SlotAt(captures'[k].slots[s].n) = s
      BY <1>1, <1>3, <1>5, <1>6 DEF Placed
    <3> QED BY <3>1, <1>1, <1>2, <1>7 DEF Placed, Filled
  <2>3. SocketInOrder'
    BY <1>1, <1>2, <1>7 DEF SocketInOrder
  <2>4. CaptureWaits'
    BY <1>1, <1>2, <1>3, <1>5, <1>6, <1>7 DEF CaptureWaits, KeptInOrder
  <2>5. CapturesInOrder'
    <3> SUFFICES ASSUME NEW k \in DOMAIN captures', NEW l \in DOMAIN captures',
                        NEW s \in Slots, NEW t \in Slots, k < l
                 PROVE  (Before(captures[k].slots[s].n, captures[l].slots[t].n))'
      BY DEF CapturesInOrder
    <3>1. CASE l \in DOMAIN captures
      <4>1. k \in DOMAIN captures
        BY <3>1, <1>5, <1>6
      <4> QED BY <3>1, <4>1, <1>1, <1>5, <1>7 DEF CapturesInOrder
    <3>2. CASE l = new
      <4>1. k \in DOMAIN captures
        BY <3>2, <1>5, <1>6
      <4> QED BY <3>2, <4>1, <1>1, <1>2, <1>3, <1>5, <1>7 DEF CaptureKept
    <3> QED BY <3>1, <3>2, <1>6
  <2> QED BY <1>2, <2>1, <2>2, <2>3, <2>4, <2>5 DEF OrderInv, KeptInOrder, CaptureKept
<1>9. ShortInv'
  <2>1. SocketComplete'
    BY <1>1, <1>2, <1>7 DEF SocketComplete
  <2>2. CapturedFirst'
    BY <1>1, <1>2, <1>3, <1>5, <1>6 DEF CapturedFirst, KeptFirst, First
  <2> QED BY <1>2, <2>1, <2>2 DEF ShortInv, KeptComplete, KeptFirst
<1>10. received > 0
  <2>1. SlotAt(0) \in Slots
    BY SlotAtType
  <2> QED BY <2>1, <1>1, <1>2, <1>3 DEF StartsEmpty, CollectTypes
<1>11. SkipInv'
  <2>1. DiscardsGrow'
    BY <1>1, <1>2, <1>5, <1>6 DEF DiscardsGrow, CollectTypes
  <2>2. Followed'
    <3> SUFFICES ASSUME NEW k \in DOMAIN captures', NEW h \in Nat, k + 1 \in DOMAIN captures',
                        captures'[k + 1].discards = captures'[k].discards, NewestOf(k, h)'
                 PROVE  CaptureFollows(k, h)'
      BY DEF Followed
    <3>1. k \in DOMAIN captures
      BY <1>5, <1>6
    <3>2. captures'[k] = captures[k] /\ NewestOf(k, h)
      BY <3>1, <1>2, <1>5 DEF NewestOf
    <3>3. CASE k + 1 \in DOMAIN captures
      <4>1. captures'[k + 1] = captures[k + 1]
        BY <3>3, <1>5
      <4>2. CaptureFollows(k, h)
        BY <3>1, <3>2, <3>3, <4>1, <1>1 DEF Followed
      <4> QED BY <4>1, <4>2, <1>2 DEF CaptureFollows
    <3>4. CASE k + 1 = new
      <4>1. k = Len(captures) /\ captures # <<>> /\ captures[k].discards = discards
        BY <3>1, <3>2, <3>4, <1>5 DEF new
      <4>2. KeptFollows(h)
        BY <3>2, <4>1, <1>1, <1>2, <1>10 DEF FollowsNow, Started
      <4>3. \A s \in Slots : sweeps[s] = Frame(h + 1) => captures'[k + 1].slots[s].n = h + 1
        BY <3>4, <1>5, Frames
      <4> QED BY <4>2, <4>3, <1>2 DEF KeptFollows, CaptureFollows
    <3> QED BY <3>3, <3>4, <1>6
  <2>3. FollowsNow'
    <3> SUFFICES ASSUME NEW h \in Nat, NewestOf(Len(captures), h)', h + 1 < next, h + 1 \notin disturbed
                 PROVE  Waits(h + 1)
      BY <1>2, <1>7 DEF FollowsNow, Started, WaitingFollows
    <3>1. /\ \E s \in Slots : sweeps[s].n = h
          /\ \A s \in Slots : sweeps[s].n <= h
          /\ h \notin disturbed
      BY <1>2, <1>5 DEF NewestOf
    <3>2. PICK z \in Nat : LastRead(z)
      BY <1>1, <1>2, <1>10 DEF SomethingRead
    <3>3. h <= z
      BY <3>1, <3>2, <1>3 DEF LastRead
    <3>4. z <= h
      BY <3>1, <3>2, <1>2, Frames DEF LastRead
    <3>5. z = h
      BY <3>3, <3>4
    <3> QED BY <3>2, <3>5 DEF LastRead
  <2> QED BY <1>2, <2>1, <2>2, <2>3 DEF SkipInv, StartsEmpty, SomethingRead
<1>12. EndInv'
  <2>1. CollectionEnds'
    BY <1>1, <1>2 DEF CollectionEnds
  <2>2. SocketServes'
    BY <1>1, <1>2, <1>7 DEF SocketServes, Serves, Patience
  <2> QED BY <1>2, <2>1, <2>2 DEF EndInv, CollectionServes
<1> QED BY <1>8, <1>9, <1>11, <1>12 DEF CollectInv

\* A frame that was read fills its slot, or finds it filled.
LEMMA ReceiveFrameKeeps ==
  ASSUME CollectInv, ReceiveFrame
  PROVE  CollectInv'
<1>1. /\ OrderInv /\ SocketComplete /\ SocketServes /\ CollectTypes /\ Placed /\ SocketInOrder
      /\ KeptInOrder /\ CaptureWaits /\ CaptureKept /\ CapturesInOrder
      /\ KeptComplete /\ KeptFirst /\ CapturedFirst
      /\ StartsEmpty /\ DiscardsGrow /\ Followed /\ FollowsNow
      /\ CollectionEnds /\ CollectionServes
  BY DEF CollectInv, OrderInv, ShortInv, SkipInv, EndInv
<1>2. /\ pc = "recv" /\ ~Collected /\ socket # <<>> /\ Head(socket) \in Packet
      /\ socket' = Tail(socket) /\ sweeps' = Keep(Head(socket)) /\ received' = received + 1
      /\ UNCHANGED <<next, faults, disturbed, pc, discards, captures>>
  BY DEF ReceiveFrame
<1>3. PICK x \in Nat : Head(socket) = Frame(x)
  BY <1>2, Frames
<1>4. /\ 1 \in Positions /\ socket[1] = Frame(x) /\ socket[1] \in Packet /\ socket[1].n = x
      /\ Len(socket') \in Nat /\ Len(socket) = Len(socket') + 1
      /\ \A i \in Positions' : i + 1 \in Positions /\ socket'[i] = socket[i + 1] /\ 1 < i + 1
      /\ \A i \in Positions : i = 1 \/ (i - 1 \in Positions' /\ socket'[i - 1] = socket[i])
  <2>1. \A i \in Positions' : 1 < i + 1
    BY DEF Positions
  <2> QED BY <1>1, <1>2, <1>3, <2>1, TailStep, Frames
<1>5. /\ socket' \in Seq(Datagram)
      /\ \A i \in Positions' : \E j \in Positions : socket'[i] = socket[j]
      /\ SocketInOrder' /\ SocketComplete' /\ SocketServes'
  <2>1. faults' \in Nat /\ faults' >= faults
    BY <1>1, <1>2 DEF CollectTypes
  <2> QED BY <1>1, <1>2, <2>1, RadarSocket
<1>6. PICK e \in Slots : e = SlotAt(x)
  BY SlotAtType
<1>7. \A s \in Slots : sweeps'[s] = IF s = e /\ ~Filled(e) THEN Frame(x) ELSE sweeps[s]
  <2>1. SlotOf(Head(socket)) = e
    BY <1>3, <1>6, Frames
  <2> QED BY <1>1, <1>2, <1>3, <1>6, <2>1 DEF Keep, Filled, CollectTypes
<1>8. /\ \A s \in Slots : Filled(s) => Filled(s)' /\ sweeps'[s] = sweeps[s]
      /\ \A s \in Slots : Filled(s)' =>
           (Filled(s) /\ sweeps'[s] = sweeps[s]) \/ (s = e /\ ~Filled(e) /\ sweeps'[s] = Frame(x))
      /\ Filled(e)' /\ (~Filled(e) => sweeps'[e] = Frame(x))
  BY <1>7, Frames DEF Filled
<1>9. (\A y, z : Before(y, z)' <=> Before(y, z)) /\ x < next /\ next \in Nat
      /\ \A i \in Positions : socket[i] \in Packet => socket[i].n \in Nat
  BY <1>1, <1>2, <1>4, Frames DEF Before, Placed, CollectTypes
<1>10. ASSUME NEW y \in Nat, Waits(y), y # x PROVE Waits(y)'
  <2>1. PICK i \in Positions : socket[i] = Frame(y)
    BY <1>10 DEF Waits
  <2>2. i # 1
    BY <2>1, <1>4, <1>10, Frames
  <2> QED BY <2>1, <2>2, <1>4 DEF Waits
<1>11. \A s \in Slots : Filled(s) => sweeps[s].n \in Nat
  BY <1>1, Numbered
<1>12. OrderInv'
  <2>1. CollectTypes'
    <3>1. sweeps' \in [Slots -> Packet \cup {NoPacket}]
      BY <1>1, <1>2 DEF CollectTypes, Keep
    <3> QED BY <3>1, <1>1, <1>2, <1>5 DEF CollectTypes
  <2>2. Placed'
    <3>1. \A s \in Slots : Filled(s)' => sweeps'[s].n < next /\ SlotAt(sweeps'[s].n) = s
      BY <1>1, <1>6, <1>8, <1>9, Frames DEF Placed
    <3> QED BY <3>1, <1>1, <1>2, <1>5 DEF Placed
  <2>3. KeptInOrder'
    <3> SUFFICES ASSUME NEW s \in Slots, NEW i \in Positions', Filled(s)', socket'[i] \in Packet
                 PROVE  (Before(sweeps[s].n, socket[i].n))'
      BY DEF KeptInOrder
    <3>1. CASE Filled(s) /\ sweeps'[s] = sweeps[s]
      BY <3>1, <1>1, <1>2, <1>4, <1>9 DEF KeptInOrder
    <3>2. CASE sweeps'[s] = Frame(x)
      <4>1. Before(socket[1].n, socket[i + 1].n)
        BY <1>1, <1>4 DEF SocketInOrder
      <4> QED BY <3>2, <4>1, <1>4, <1>9
    <3> QED BY <3>1, <3>2, <1>8
  <2>4. CaptureWaits'
    BY <1>1, <1>2, <1>4, <1>9 DEF CaptureWaits
  <2>5. CaptureKept'
    <3> SUFFICES ASSUME NEW k \in DOMAIN captures, NEW s \in Slots, NEW t \in Slots, Filled(t)'
                 PROVE  (Before(captures[k].slots[s].n, sweeps[t].n))'
      BY <1>2 DEF CaptureKept
    <3>1. CASE Filled(t) /\ sweeps'[t] = sweeps[t]
      BY <3>1, <1>1, <1>2, <1>9 DEF CaptureKept
    <3>2. CASE sweeps'[t] = Frame(x)
      <4>1. Before(captures[k].slots[s].n, socket[1].n)
        BY <1>1, <1>4 DEF CaptureWaits
      <4> QED BY <3>2, <4>1, <1>2, <1>3, <1>4, <1>9
    <3> QED BY <3>1, <3>2, <1>8
  <2>6. CapturesInOrder'
    BY <1>1, <1>2, <1>9 DEF CapturesInOrder
  <2> QED BY <1>5, <2>1, <2>2, <2>3, <2>4, <2>5, <2>6 DEF OrderInv
<1>13. ShortInv'
  <2>1. KeptComplete'
    <3> SUFFICES ASSUME NEW s \in Slots, NEW y \in Nat, Filled(s)', sweeps'[s].n < y,
                        y < next, y \notin disturbed
                 PROVE  Waits(y)' \/ Filled(SlotAt(y))'
      BY <1>2 DEF KeptComplete
    <3>1. CASE y = x
      BY <3>1, <1>6, <1>8 DEF Filled
    <3>2. CASE y # x /\ Waits(y)
      BY <3>2, <1>10
    <3>3. CASE y # x /\ Filled(SlotAt(y))
      BY <3>3, <1>8, SlotAtType
    <3>4. Waits(y) \/ Filled(SlotAt(y))
      <4>1. CASE Filled(s) /\ sweeps'[s] = sweeps[s]
        BY <4>1, <1>1, <1>2 DEF KeptComplete
      <4>2. CASE sweeps'[s] = Frame(x)
        <5>1. x < y
          BY <4>2, Frames
        <5> QED BY <5>1, <1>1, <1>4 DEF SocketComplete
      <4> QED BY <4>1, <4>2, <1>8
    <3> QED BY <3>1, <3>2, <3>3, <3>4
  <2>2. KeptFirst'
    <3> SUFFICES ASSUME NEW s \in Slots, NEW t \in Slots, Filled(s)', Filled(t)',
                        NEW y \in Nat, y < sweeps'[s].n, SlotAt(y) = s, y \notin disturbed
                 PROVE  y < sweeps'[t].n
      BY <1>2 DEF KeptFirst, First
    <3>1. CASE Filled(s) /\ sweeps'[s] = sweeps[s] /\ Filled(t) /\ sweeps'[t] = sweeps[t]
      BY <3>1, <1>1, <1>2 DEF KeptFirst, First
    <3>2. CASE Filled(s) /\ sweeps'[s] = sweeps[s] /\ t = e /\ ~Filled(e) /\ sweeps'[t] = Frame(x)
      <4>1. Before(sweeps[s].n, x)
        BY <3>2, <1>1, <1>2, <1>4 DEF KeptInOrder
      <4>2. sweeps'[t].n = x /\ sweeps[s].n \in Nat
        BY <3>2, <1>11, Frames
      <4>3. y # x
        BY <3>2, <1>6
      <4>4. y < sweeps[s].n /\ sweeps[s].n <= x + 1
        BY <3>2, <4>1 DEF Before
      <4> QED BY <4>2, <4>3, <4>4
    <3>3. CASE s = e /\ ~Filled(e) /\ sweeps'[s] = Frame(x) /\ Filled(t) /\ sweeps'[t] = sweeps[t]
      <4> SUFFICES ASSUME ~ y < sweeps[t].n PROVE FALSE
        BY <3>3
      <4>1. y < x /\ y < next
        BY <3>3, <1>9, Frames
      <4>2. sweeps[t].n \in Nat /\ SlotAt(sweeps[t].n) = t
        BY <3>3, <1>1, <1>11 DEF Placed
      <4>3. sweeps[t].n # y
        BY <3>3, <4>2
      <4>4. sweeps[t].n < y
        BY <4>2, <4>3
      <4>5. Waits(y)
        BY <3>3, <4>1, <4>4, <1>1, <1>2 DEF KeptComplete
      <4>6. PICK i \in Positions : socket[i] = Frame(y)
        BY <4>5 DEF Waits
      <4>7. i # 1 /\ 1 < i
        BY <4>1, <4>6, <1>4, Frames DEF Positions
      <4>8. Before(x, y)
        BY <4>6, <4>7, <1>1, <1>4, Frames DEF SocketInOrder
      <4> QED BY <4>1, <4>8 DEF Before
    <3>4. CASE s = e /\ t = e
      BY <3>4
    <3> QED BY <3>1, <3>2, <3>3, <3>4, <1>8
  <2>3. CapturedFirst'
    BY <1>1, <1>2 DEF CapturedFirst, First
  <2> QED BY <1>5, <2>1, <2>2, <2>3 DEF ShortInv
<1>14. SkipInv'
  <2>1. StartsEmpty'
    BY <1>1, <1>2 DEF StartsEmpty, CollectTypes
  <2>2. LastRead(x)'
    <3>1. \A s \in Slots : Filled(s)' /\ (sweeps'[s].n \notin disturbed \/ x \notin disturbed)
            => sweeps'[s].n <= x
      <4> SUFFICES ASSUME NEW s \in Slots, Filled(s)', sweeps'[s].n \notin disturbed \/ x \notin disturbed
                   PROVE  sweeps'[s].n <= x
        OBVIOUS
      <4>1. CASE Filled(s) /\ sweeps'[s] = sweeps[s]
        <5>1. Before(sweeps[s].n, x)
          BY <4>1, <1>1, <1>2, <1>4 DEF KeptInOrder
        <5> QED BY <4>1, <5>1, <1>11 DEF Before
      <4>2. CASE sweeps'[s] = Frame(x)
        BY <4>2, Frames
      <4> QED BY <4>1, <4>2, <1>8
    <3>2. \A i \in Positions' : socket'[i] \in Packet => (Before(x, socket[i].n))'
      BY <1>1, <1>4, <1>9 DEF SocketInOrder
    <3>3. \A y \in Nat : x < y /\ y < next /\ y \notin disturbed => Waits(y)'
      <4> SUFFICES ASSUME NEW y \in Nat, x < y, y < next, y \notin disturbed PROVE Waits(y)'
        OBVIOUS
      <4>1. Waits(y)
        BY <1>1, <1>4 DEF SocketComplete
      <4> QED BY <4>1, <1>10
    <3>4. Collected' => \E s \in Slots : sweeps'[s] = Frame(x)
      BY <1>2, <1>8 DEF Collected, Filled
    <3> QED BY <3>1, <3>2, <3>3, <3>4, <1>2, <1>9 DEF LastRead
  <2>3. DiscardsGrow' /\ Followed'
    BY <1>1, <1>2 DEF DiscardsGrow, Followed, NewestOf, CaptureFollows
  <2>4. FollowsNow'
    <3> DEFINE k == Len(captures)
    <3> SUFFICES ASSUME NEW h \in Nat, captures # <<>>, captures[k].discards = discards, NewestOf(k, h)
                 PROVE  KeptFollows(h)'
      BY <1>1, <1>2 DEF FollowsNow, Started, NewestOf, CollectTypes
    <3>1. IF Started THEN KeptFollows(h) ELSE WaitingFollows(h)
      BY <1>1 DEF FollowsNow
    <3>2. CASE Started
      BY <3>1, <3>2, <1>2, <1>8, Frames DEF KeptFollows, Filled
    <3>3. CASE ~Started
      <4>1. \A s \in Slots : ~Filled(s)
        BY <3>3, <1>1, <1>2 DEF Started, StartsEmpty, CollectTypes
      <4>2. k \in DOMAIN captures
        BY <1>1, EmptySeq, Numbered DEF CollectTypes
      <4>3. Before(h, x) /\ h \notin disturbed
        BY <4>2, <1>1, <1>4 DEF CaptureWaits, NewestOf
      <4>4. h < x /\ h + 1 < next
        BY <4>3, <1>9 DEF Before
      <4>5. ASSUME h + 1 \notin disturbed PROVE \E s \in Slots : sweeps'[s] = Frame(h + 1)
        <5>1. PICK i \in Positions : socket[i] = Frame(h + 1)
          BY <3>1, <3>3, <4>4, <4>5 DEF WaitingFollows, Waits
        <5>2. x = h + 1
          <6> SUFFICES ASSUME x # h + 1 PROVE FALSE
            OBVIOUS
          <6>1. 1 < i
            BY <5>1, <1>4, Frames DEF Positions
          <6>2. Before(x, h + 1)
            BY <5>1, <6>1, <1>1, <1>4, Frames DEF SocketInOrder
          <6> QED BY <4>4, <4>5, <6>2 DEF Before
        <5> QED BY <5>2, <4>1, <1>8
      <4> QED BY <4>4, <4>5, <1>2 DEF KeptFollows
    <3> QED BY <3>2, <3>3
  <2> QED BY <2>1, <2>2, <2>3, <2>4 DEF SkipInv, SomethingRead
<1>15. EndInv'
  <2>1. Patience' = Patience /\ Patience \in Nat /\ received \in Nat
    BY <1>1, <1>2, PatienceIs DEF Patience, CollectTypes
  <2>2. CollectionEnds'
    <3>1. PICK s \in Slots : ~Filled(s)
      BY <1>2 DEF Collected, Filled
    <3>2. Serves(0, received, s)
      BY <3>1, <1>1, <1>2 DEF CollectionServes
    <3>3. received + 1 <= Patience
      BY <3>2, <2>1, <1>4, <1>9 DEF Serves, Positions
    <3> QED BY <3>3, <2>1, <1>2 DEF CollectionEnds, Patience
  <2>3. CollectionServes'
    <3> SUFFICES ASSUME NEW s \in Slots, ~Filled(s)' PROVE Serves(0, received, s)'
      BY <1>2 DEF CollectionServes
    <3>1. ~Filled(s) /\ s # e
      BY <1>8
    <3>2. Serves(0, received, s)
      BY <3>1, <1>1, <1>2 DEF CollectionServes
    <3>3. CASE \E j \in Positions : 0 < j /\ received + j <= Patience /\ socket[j] \in Packet /\ SlotAt(socket[j].n) = s
      <4>1. PICK j \in Positions : 0 < j /\ received + j <= Patience /\ socket[j] \in Packet /\ SlotAt(socket[j].n) = s
        BY <3>3
      <4>2. j # 1
        BY <4>1, <3>1, <1>4, <1>6
      <4>3. 0 < j - 1 /\ (received + 1) + (j - 1) <= Patience
        BY <4>1, <4>2, <2>1 DEF Positions
      <4> QED BY <4>1, <4>2, <4>3, <2>1, <1>2, <1>4 DEF Serves
    <3>4. CASE \E m \in Nat : next <= m /\ SlotAt(m) = s /\ received + Len(socket) + 1 + (m - next) <= Patience
      <4>1. PICK m \in Nat : next <= m /\ SlotAt(m) = s /\ received + Len(socket) + 1 + (m - next) <= Patience
        BY <3>4
      <4>2. (received + 1) + Len(socket') + 1 + (m - next) <= Patience
        BY <4>1, <2>1, <1>4, <1>9
      <4> QED BY <4>1, <4>2, <2>1, <1>2 DEF Serves
    <3> QED BY <3>2, <3>3, <3>4 DEF Serves
  <2> QED BY <1>5, <2>2, <2>3 DEF EndInv
<1> QED BY <1>12, <1>13, <1>14, <1>15 DEF CollectInv

-----------------------------------------------------------------------------
(* The invariant, and what follows from it *)

\* The invariant is inductive.
LEMMA StepKeeps == CollectInv /\ [Next]_vars => CollectInv'
<1> SUFFICES ASSUME CollectInv, [Next]_vars PROVE CollectInv'
  OBVIOUS
<1>1. CollectTypes /\ Placed /\ OrderInv /\ ShortInv /\ SkipInv /\ EndInv
  BY DEF CollectInv, OrderInv
<1>2. faults \in Nat /\ discards \in Nat /\ received \in Nat
  BY <1>1 DEF CollectTypes
<1>3. CASE Network
  <2>1. NetStep /\ NetPays
    BY <1>1, <1>3, NetworkStep
  <2> QED BY <1>1, <2>1, NetKeepsOrder, NetKeepsShort, NetKeepsSkip, NetKeepsEnd DEF CollectInv
<1>4. CASE ClearData
  BY <1>4, ClearDataKeeps
<1>5. CASE ReceiveFrame
  BY <1>5, ReceiveFrameKeeps
<1>6. CASE ReceiveForeign
  BY <1>2, <1>6, LeavingKeeps DEF ReceiveForeign, GiveUp
<1>7. CASE ReceiveTimeout
  <2>1. faults' \in Nat /\ faults' >= faults
    BY <1>2, <1>7 DEF ReceiveTimeout
  <2>2. CASE received = 0
    BY <2>1, <2>2, <1>7, LeavingKeeps DEF ReceiveTimeout, Started
  <2>3. CASE received # 0
    BY <2>1, <2>3, <1>7, LeavingKeeps DEF ReceiveTimeout, GiveUp
  <2> QED BY <2>2, <2>3
<1>8. CASE ReadSweeps
  BY <1>8, ReadSweepsKeeps
<1>9. CASE UNCHANGED vars
  <2>1. UNCHANGED <<next, socket, faults, disturbed, pc, sweeps, received, discards, captures>>
    BY <1>9 DEF vars
  <2>2. /\ Positions' = Positions /\ Patience' = Patience
        /\ \A x, y : Before(x, y)' <=> Before(x, y)
        /\ \A y : Waits(y)' <=> Waits(y)
        /\ \A s : Filled(s)' <=> Filled(s)
    BY <2>1 DEF Positions, Patience, Before, Waits, Filled
  <2>3. OrderInv'
    BY <1>1, <2>1, <2>2 DEF OrderInv, CollectTypes, Placed, SocketInOrder, KeptInOrder,
       CaptureWaits, CaptureKept, CapturesInOrder
  <2>4. ShortInv'
    BY <1>1, <2>1, <2>2 DEF ShortInv, SocketComplete, KeptComplete, KeptFirst, CapturedFirst, First
  <2>5. SkipInv'
    <3>1. StartsEmpty' /\ DiscardsGrow' /\ Followed'
      <4>1. StartsEmpty'
        BY <1>1, <2>1, <2>2 DEF SkipInv, StartsEmpty
      <4>2. DiscardsGrow'
        BY <1>1, <2>1 DEF SkipInv, DiscardsGrow
      <4>3. Followed'
        BY <1>1, <2>1 DEF SkipInv, Followed, NewestOf, CaptureFollows
      <4> QED BY <4>1, <4>2, <4>3
    <3>2. \A z : LastRead(z) => LastRead(z)'
      BY <2>1, <2>2 DEF LastRead, Collected
    <3>3. SomethingRead'
      BY <1>1, <2>1, <3>2 DEF SkipInv, SomethingRead
    <3>4. FollowsNow'
      BY <1>1, <2>1, <2>2 DEF SkipInv, FollowsNow, NewestOf, Started, KeptFollows, WaitingFollows
    <3> QED BY <3>1, <3>3, <3>4 DEF SkipInv
  <2>6. EndInv'
    BY <1>1, <2>1, <2>2 DEF EndInv, CollectionEnds, SocketServes, CollectionServes, Serves
  <2> QED BY <2>3, <2>4, <2>5, <2>6 DEF CollectInv
<1> QED BY <1>3, <1>4, <1>5, <1>6, <1>7, <1>8, <1>9 DEF Next, Radar

\* The invariant holds in every reachable state, for every number of packets
\* per sweep and whatever the network does.
THEOREM CollectInvariant == Spec => []CollectInv
BY InitCollectInv, StepKeeps, PTL DEF Spec

\* The types of the variables, as part of it.
THEOREM CollectTypeCorrect == Spec => []CollectTypes
<1>1. CollectInv => CollectTypes
  BY DEF CollectInv, OrderInv
<1> QED BY <1>1, CollectInvariant, PTL

\* No sequence of packets keeps a collection waiting: it reads at most one
\* period of the sender's frames, and one more for each fault.
THEOREM CollectionAlwaysEnds == Spec => []CollectionEnds
<1>1. CollectInv => CollectionEnds
  BY DEF CollectInv, EndInv
<1> QED BY <1>1, CollectInvariant, PTL

\* No frame is in two captures unless the network made it come twice.
THEOREM FramesUsedOnce == Spec => []UsedOnce
<1>1. CollectInv => UsedOnce
  <2> SUFFICES ASSUME CollectInv, NEW k \in DOMAIN captures, NEW l \in 1 .. k - 1,
                      NEW x \in FramesIn(captures[k]) \cap FramesIn(captures[l])
               PROVE  x \in disturbed
    BY DEF UsedOnce
  <2>1. CapturesInOrder /\ CollectTypes
    BY DEF CollectInv, OrderInv
  <2>2. PICK s \in Slots, t \in Slots : captures[k].slots[s].n = x /\ captures[l].slots[t].n = x
    BY DEF FramesIn
  <2>3. l \in DOMAIN captures /\ l < k /\ x \in Nat
    BY <2>1, <2>2, Numbered
  <2>4. Before(x, x)
    BY <2>1, <2>2, <2>3 DEF CapturesInOrder
  <2> QED BY <2>3, <2>4 DEF Before
<1> QED BY <1>1, CollectInvariant, PTL

\* A set of numbers has a least one.
LEMMA Least ==
  ASSUME NEW T \in SUBSET Nat, T # {}
  PROVE  Min(T) \in T /\ \A y \in T : Min(T) <= y
<1>1. \E x \in T : \A y \in T : ~ (<<y, x>> \in OpToRel(<, Nat))
  BY NatLessThanWellFounded, WFMin
<1>2. \A x, y \in Nat : y < x => <<y, x>> \in OpToRel(<, Nat)
  BY DEF OpToRel
<1>3. \A x, y \in Nat : x <= y \/ y < x
  OBVIOUS
<1>4. \E x \in T : \A y \in T : x <= y
  BY <1>1, <1>2, <1>3
<1> QED BY <1>4 DEF Min

\* A set of numbers below a bound has a greatest one.
LEMMA Greatest ==
  ASSUME NEW T \in SUBSET Nat, T # {}, NEW b \in Nat, \A y \in T : y < b
  PROVE  Max(T) \in T /\ \A y \in T : y <= Max(T)
<1> DEFINE U == {z \in Nat : b - z \in T}
<1>1. U \in SUBSET Nat
  OBVIOUS
<1>2. PICK w \in T : TRUE
  OBVIOUS
<1>3. b - w \in U
  <2>1. b - w \in Nat /\ b - (b - w) = w
    BY <1>2
  <2> QED BY <1>2, <2>1
<1>4. Min(U) \in U /\ \A z \in U : Min(U) <= z
  BY <1>1, <1>3, Least
<1> DEFINE m == b - Min(U)
<1>5. m \in T
  BY <1>4
<1>6. ASSUME NEW y \in T PROVE y <= m
  <2>1. b - y \in Nat /\ b - (b - y) = y
    BY <1>6
  <2>2. b - y \in U
    BY <1>6, <2>1
  <2>3. Min(U) <= b - y /\ Min(U) \in Nat
    BY <2>2, <1>4
  <2> QED BY <2>1, <2>3
<1>7. \E x \in T : \A y \in T : x >= y
  BY <1>5, <1>6
<1> QED BY <1>7 DEF Max

\* Oldest and Newest are what their names say.
LEMMA CaptureEnds ==
  ASSUME CollectInv, NEW k \in DOMAIN captures
  PROVE  /\ FramesIn(captures[k]) \subseteq Nat
         /\ Oldest(captures[k]) \in FramesIn(captures[k])
         /\ Newest(captures[k]) \in FramesIn(captures[k])
         /\ \A x \in FramesIn(captures[k]) :
              Oldest(captures[k]) <= x /\ x <= Newest(captures[k]) /\ x < next
<1>1. CollectTypes /\ Placed /\ next \in Nat
  BY DEF CollectInv, OrderInv, CollectTypes
<1>2. FramesIn(captures[k]) \subseteq Nat /\ \A x \in FramesIn(captures[k]) : x < next
  BY <1>1, Numbered DEF FramesIn, Placed
<1>3. FramesIn(captures[k]) # {}
  BY SlotAtType DEF FramesIn
<1> QED BY <1>1, <1>2, <1>3, Least, Greatest DEF Oldest, Newest

\* Within bounds there are finitely many.
LEMMA FiniteWithin ==
  ASSUME NEW a \in Nat, NEW b \in Nat, NEW S
  PROVE  IsFiniteSet(S \cap (a .. b))
<1>1. IsFiniteSet(a .. b)
  BY FS_Interval
<1>2. S \cap (a .. b) \in SUBSET (a .. b)
  OBVIOUS
<1> QED BY <1>1, <1>2, FS_Subset

\* A capture that is longer than a period missed one frame for each period
\* more, and each of these was disturbed.
THEOREM CapturesAreShort == Spec => []CaptureIsShort
<1>1. CollectInv => CaptureIsShort
  <2> SUFFICES ASSUME CollectInv, NEW k \in DOMAIN captures
               PROVE  Newest(captures[k]) - Oldest(captures[k])
                        < Period * (1 + FaultsWithin(Oldest(captures[k]), Newest(captures[k])))
    BY DEF CaptureIsShort
  <2>1. PICK lo \in Nat, hi \in Nat : lo = Oldest(captures[k]) /\ hi = Newest(captures[k])
    BY CaptureEnds
  <2>2. CapturedFirst /\ Placed /\ CollectTypes
    BY DEF CollectInv, OrderInv, ShortInv
  <2>3. PICK s \in Slots, t \in Slots : captures[k].slots[s].n = hi /\ captures[k].slots[t].n = lo
    BY <2>1, CaptureEnds DEF FramesIn
  <2> DEFINE between == disturbed \cap (lo .. hi)
             f == Cardinality(between)
  <2>4. IsFiniteSet(between) /\ f \in Nat
    BY FiniteWithin, FS_CardinalityType
  <2> HIDE DEF f
  <2> SUFFICES ASSUME ~ (hi - lo < Period * (1 + f)) PROVE FALSE
    BY <2>1 DEF FaultsWithin, f
  <2>5. ASSUME NEW i \in 1 .. f + 1
        PROVE  hi - Period * i \in between
    <3>1. PICK d \in Nat : f + 1 = i + d
      BY <2>4
    <3>2. Period * (1 + f) = Period * i + Period * d /\ Period * d \in Nat /\ Period * i \in Nat
      <4>1. Period \in Nat /\ i \in Nat /\ 1 + f = i + d
        BY <2>4, <3>1, PeriodType
      <4> QED BY <4>1
    <3>3. Period * i >= 1
      BY PeriodType, <2>4
    <3> DEFINE y == hi - Period * i
    <3>4. y \in Nat /\ lo <= y /\ y < hi
      BY <3>2, <3>3
    <3>5. SlotAt(y) = s
      <4>1. SlotAt(hi) = s
        BY <2>2, <2>3 DEF Placed
      <4>2. y + Period * i = hi
        BY <3>2
      <4>3. i \in Nat
        BY <2>4
      <4> QED BY <3>4, <4>1, <4>2, <4>3, SlotPeriods
    <3>6. y \in disturbed
      BY <2>2, <2>3, <3>4, <3>5 DEF CapturedFirst, First
    <3> QED BY <3>4, <3>6
  <2> DEFINE g == [i \in 1 .. f + 1 |-> hi - Period * i]
  <2>6. g \in Injection(1 .. f + 1, between)
    <3>1. g \in [1 .. f + 1 -> between]
      BY <2>5
    <3>2. ASSUME NEW i \in 1 .. f + 1, NEW j \in 1 .. f + 1, g[i] = g[j]
          PROVE  i = j
      <4>1. i \in Nat /\ j \in Nat /\ Period \in Nat \ {0}
        BY <2>4, PeriodType
      <4>2. Period * i = Period * j
        <5>1. hi - Period * i = hi - Period * j
          BY <3>2
        <5>2. Period * i \in Nat /\ Period * j \in Nat
          BY <4>1
        <5> QED BY <5>1, <5>2
      <4>3. (Period * i + 0) \div Period = i /\ (Period * j + 0) \div Period = j
        BY <4>1, DivModUnique
      <4>4. Period * i + 0 = Period * i /\ Period * j + 0 = Period * j
        BY <4>1
      <4> QED BY <4>2, <4>3, <4>4
    <3> QED BY <3>1, <3>2 DEF Injection, IsInjective
  <2>7. Cardinality(1 .. f + 1) <= f
    BY <2>4, <2>6, FS_Injection DEF f
  <2>8. Cardinality(1 .. f + 1) = f + 1
    <3>1. 1 \in Int /\ f + 1 \in Int /\ ~ 1 > f + 1 /\ (f + 1) - 1 + 1 = f + 1
      BY <2>4
    <3> QED BY <3>1, FS_Interval
  <2> QED BY <2>4, <2>7, <2>8
<1> QED BY <1>1, CollectInvariant, PTL

\* Two captures with no fault from the first to the last of their frames,
\* and nothing given up between them, are neighbours in the sender's order.
THEOREM CapturesSkipNothing == Spec => []NothingSkipped
<1>1. CollectInv => NothingSkipped
  <2> SUFFICES ASSUME CollectInv, NEW l \in DOMAIN captures, l > 1,
                      FaultsWithin(Oldest(captures[l - 1]), Newest(captures[l])) = 0,
                      captures[l - 1].discards = captures[l].discards
               PROVE  Oldest(captures[l]) = Newest(captures[l - 1]) + 1
    BY DEF NothingSkipped
  <2>1. CapturesInOrder /\ Placed /\ CollectTypes /\ Followed
    BY DEF CollectInv, OrderInv, SkipInv
  <2>2. PICK k \in DOMAIN captures : k = l - 1 /\ l = k + 1 /\ k < l
    <3>1. l - 1 \in DOMAIN captures /\ l = (l - 1) + 1 /\ l - 1 < l
      BY <2>1, Numbered
    <3> QED BY <3>1
  <2> DEFINE A == FramesIn(captures[k])
             B == FramesIn(captures[l])
  <2>3. PICK oa \in Nat, na \in Nat, ob \in Nat, nb \in Nat :
          /\ oa = Oldest(captures[k]) /\ na = Newest(captures[k])
          /\ ob = Oldest(captures[l]) /\ nb = Newest(captures[l])
    BY <2>2, CaptureEnds
  <2>4. /\ A \subseteq Nat /\ B \subseteq Nat
        /\ oa \in A /\ na \in A /\ ob \in B /\ nb \in B
        /\ \A x \in A : oa <= x /\ x <= na /\ x < next
        /\ \A x \in B : ob <= x /\ x <= nb /\ x < next
    BY <2>2, <2>3, CaptureEnds
  <2>5. \A x \in A, y \in B : Before(x, y)
    BY <2>1, <2>2 DEF CapturesInOrder, FramesIn
  <2>6. oa # na /\ ob # nb
    <3>1. PICK s \in Slots, t \in Slots : s # t
      <4>1. <<0, 0>> \in Slots /\ <<1, 0>> \in Slots
        BY PeriodType DEF Slots, Directions, Numbers
      <4> QED BY <4>1
    <3>2. ASSUME NEW m \in DOMAIN captures
          PROVE  \E x, y \in FramesIn(captures[m]) : x # y
      <4>1. SlotAt(captures[m].slots[s].n) = s /\ SlotAt(captures[m].slots[t].n) = t
        BY <2>1 DEF Placed
      <4>2. captures[m].slots[s].n # captures[m].slots[t].n
        BY <3>1, <4>1
      <4>3. captures[m].slots[s].n \in FramesIn(captures[m]) /\ captures[m].slots[t].n \in FramesIn(captures[m])
        BY DEF FramesIn
      <4> QED BY <4>2, <4>3
    <3>3. (\E x, y \in A : x # y) /\ (\E x, y \in B : x # y)
      BY <2>2, <3>2
    <3> QED BY <2>4, <3>3
  <2>7. disturbed \cap (oa .. nb) = {}
    <3>1. IsFiniteSet(disturbed \cap (oa .. nb))
      BY FiniteWithin
    <3>2. Cardinality(disturbed \cap (oa .. nb)) = 0
      BY <2>2, <2>3 DEF FaultsWithin
    <3> QED BY <3>1, <3>2, FS_EmptySet
  <2>8. oa <= nb
    <3>1. oa < na /\ ob < nb
      BY <2>4, <2>6
    <3>2. na <= ob + 1 /\ oa <= nb + 1
      BY <2>4, <2>5 DEF Before
    <3> QED BY <3>1, <3>2
  <2>9. nb \notin disturbed
    BY <2>7, <2>8
  <2>10. na < nb
    BY <2>4, <2>5, <2>9 DEF Before
  <2>11. na \notin disturbed /\ na + 1 \notin disturbed
    <3>1. na \in oa .. nb /\ na + 1 \in oa .. nb
      BY <2>4, <2>10
    <3> QED BY <3>1, <2>7
  <2>12. \A y \in B : na < y
    BY <2>4, <2>5, <2>11 DEF Before
  <2>13. NewestOf(k, na)
    BY <2>2, <2>4, <2>11 DEF NewestOf, FramesIn
  <2>14. na + 1 \in B
    <3>1. CaptureFollows(k, na)
      BY <2>1, <2>2, <2>13 DEF Followed
    <3> QED BY <3>1, <2>2, <2>11 DEF CaptureFollows, FramesIn
  <2>15. ob = na + 1
    BY <2>4, <2>12, <2>14
  <2> QED BY <2>2, <2>3, <2>15
<1> QED BY <1>1, CollectInvariant, PTL
=============================================================================
