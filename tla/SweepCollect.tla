---------------------------- MODULE SweepCollect ----------------------------
(***************************************************************************)
(* How the radar thread puts a pair of sweeps together from the packets of *)
(* the sender: collect_packets and read_sweeps of src/UdpRadar.cpp, over   *)
(* the network that brings the frames of send_udp.vhd.  It is the release  *)
(* target, without RTL_SIMULATION, with the socket open: the call of       *)
(* open() stands in a comment in UdpRadar::start (line 36), eudp.cpp:4     *)
(* defines RTL_SIMULATION in every target, and the debug target of         *)
(* rrw_server.cbp puts constants in the place of packets.                  *)
(*                                                                         *)
(* Frame n is the n-th frame the sender sends: number n % NFrames of sweep *)
(* n \div NFrames, whose direction alternates.  Its first byte carries     *)
(* number and direction, and nothing else tells the receiver which sweep   *)
(* it is from.  The samples are abstracted to n.  The network loses,       *)
(* duplicates and swaps frames, and brings other datagrams, MaxFaults      *)
(* times in all.  What the radar thread then does with a pair of sweeps is *)
(* module RadarServer.                                                     *)
(***************************************************************************)
EXTENDS Naturals, Sequences, FiniteSets, FiniteSetsExt

CONSTANTS
  NFrames,    \* packets of a sweep: pkt_params.count, 4 in the code
  MaxFrames,  \* bound: frames sent in a behaviour
  MaxFaults,  \* bound: faults of the network, and timeouts that interrupt a collection
  SocketCap   \* datagrams that wait in the socket before the next is dropped

ASSUME CollectAssumption ==
  /\ NFrames \in Nat \ {0} /\ MaxFrames \in Nat /\ MaxFaults \in Nat
  /\ SocketCap \in Nat \ {0}

Period == 2 * NFrames

Directions == 0 .. 1        \* DIR_RISE, DIR_FALL as the code's index i
Numbers == 0 .. NFrames - 1 \* the index j
Slots == Directions \X Numbers

Direction(n) == (n \div NFrames) % 2
Number(n) == n % NFrames

\* What a datagram is to the receiver: a frame, one of another size, or one
\* of the right size whose low nibble is no direction.
Packet == [kind : {"frame"}, n : Nat]
Foreign == {[kind |-> "size", n |-> 0], [kind |-> "direction", n |-> 0]}
NoPacket == [kind |-> "none", n |-> 0]

VARIABLES
  next,      \* the sender's next frame
  socket,    \* datagrams received and not read yet
  faults,    \* faults so far (bounded by MaxFaults)
  disturbed, \* frames lost, duplicated or swapped
  pc,        \* place of the radar thread
  sweeps,    \* the slots sweeps[i][j], NoPacket when empty
  received,  \* datagrams read in this collection
  discards,  \* collections given up
  captures   \* the pairs of sweeps handed on: [slots, discards]

vars == <<next, socket, faults, disturbed, pc, sweeps, received, discards, captures>>
network == <<next, socket, faults, disturbed>>

NoSweeps == [s \in Slots |-> NoPacket]

\* The thread may start at any frame of the sender's sequence.
Init ==
  /\ next \in 0 .. Period - 1
  /\ socket = <<>> /\ faults = 0 /\ disturbed = {}
  /\ pc = "clear" /\ sweeps = NoSweeps /\ received = 0 /\ discards = 0
  /\ captures = <<>>

-----------------------------------------------------------------------------
(* The sender and the network.  Whatever finds the socket full is dropped. *)

Frame(n) == [kind |-> "frame", n |-> n]

Room(k) == Len(socket) + k <= SocketCap

SendFrame ==
  /\ next < MaxFrames /\ Room(1)
  /\ socket' = Append(socket, Frame(next))
  /\ next' = next + 1
  /\ UNCHANGED <<faults, disturbed, pc, sweeps, received, discards, captures>>

\* Lost on the way, or the socket is full.
LoseFrame ==
  /\ next < MaxFrames /\ faults < MaxFaults
  /\ next' = next + 1
  /\ disturbed' = disturbed \cup {next}
  /\ faults' = faults + 1
  /\ UNCHANGED <<socket, pc, sweeps, received, discards, captures>>

DuplicateFrame ==
  /\ next < MaxFrames /\ faults < MaxFaults /\ Room(2)
  /\ socket' = socket \o <<Frame(next), Frame(next)>>
  /\ next' = next + 1
  /\ disturbed' = disturbed \cup {next}
  /\ faults' = faults + 1
  /\ UNCHANGED <<pc, sweeps, received, discards, captures>>

SwapFrames ==
  /\ next + 1 < MaxFrames /\ faults < MaxFaults /\ Room(2)
  /\ socket' = socket \o <<Frame(next + 1), Frame(next)>>
  /\ next' = next + 2
  /\ disturbed' = disturbed \cup {next, next + 1}
  /\ faults' = faults + 1
  /\ UNCHANGED <<pc, sweeps, received, discards, captures>>

\* A datagram of somebody else on the radar's port.
ForeignPacket ==
  /\ faults < MaxFaults /\ Room(1)
  /\ \E p \in Foreign : socket' = Append(socket, p)
  /\ faults' = faults + 1
  /\ UNCHANGED <<next, disturbed, pc, sweeps, received, discards, captures>>

Network == SendFrame \/ LoseFrame \/ DuplicateFrame \/ SwapFrames \/ ForeignPacket

-----------------------------------------------------------------------------
(* The radar thread. *)

\* Mutants of clear_data: one forgets the slots, one the falling half, one
\* throws away what waits in the socket.
ClearNothing ==
  pc = "clear" /\ pc' = "recv" /\ received' = 0 /\ UNCHANGED <<network, sweeps, discards, captures>>
ClearRise ==
  /\ pc = "clear" /\ pc' = "recv" /\ received' = 0
  /\ sweeps' = [s \in Slots |-> IF s[1] = 0 THEN NoPacket ELSE sweeps[s]]
  /\ UNCHANGED <<network, discards, captures>>
ClearFlushing ==
  /\ pc = "clear" /\ pc' = "recv" /\ received' = 0 /\ sweeps' = NoSweeps
  /\ socket' = <<>>
  /\ UNCHANGED <<next, faults, disturbed, discards, captures>>

\* clear_data, at the start of every collection.
ClearData ==
  /\ pc = "clear"
  /\ sweeps' = NoSweeps
  /\ received' = 0
  /\ pc' = "recv"
  /\ UNCHANGED <<network, discards, captures>>

\* is_packets_collected: the loop's condition.
Collected == \A s \in Slots : sweeps[s] # NoPacket

\* The slot of a packet, from its first byte.
SlotOf(p) == <<Direction(p.n), Number(p.n)>>

\* Mutant: packets are taken in the order of the slots only.
KeepInOrder(p) ==
  IF \A s \in Slots : s[1] * NFrames + s[2] < p.n % Period <=> sweeps[s] # NoPacket
  THEN [sweeps EXCEPT ![SlotOf(p)] = p] ELSE sweeps

\* A packet is kept if it is the first of its slot.
Keep(p) ==
  IF sweeps[SlotOf(p)] = NoPacket THEN [sweeps EXCEPT ![SlotOf(p)] = p] ELSE sweeps

\* collect_packets returns -1; read_sweeps returns and is called again.
GiveUp ==
  /\ pc' = "clear"
  /\ discards' = discards + 1
  /\ UNCHANGED <<sweeps, captures>>

ReceiveFrame ==
  /\ pc = "recv" /\ ~Collected
  /\ socket # <<>> /\ Head(socket) \in Packet
  /\ socket' = Tail(socket)
  /\ sweeps' = Keep(Head(socket))
  /\ received' = received + 1
  /\ UNCHANGED <<next, faults, disturbed, pc, discards, captures>>

\* A datagram of another size, or of no direction.
ReceiveForeign ==
  /\ pc = "recv" /\ ~Collected
  /\ socket # <<>> /\ Head(socket) \in Foreign
  /\ socket' = Tail(socket)
  /\ GiveUp
  /\ UNCHANGED <<next, faults, disturbed, received>>

\* recv gives up after `timeout' ms without a datagram: the sender pauses, or
\* has stopped.
ReceiveTimeout ==
  /\ pc = "recv" /\ ~Collected
  /\ socket = <<>>
  /\ IF next = MaxFrames THEN UNCHANGED faults ELSE faults < MaxFaults /\ faults' = faults + 1
  /\ IF received = 0 THEN pc' = "clear" /\ UNCHANGED <<sweeps, discards, captures>> ELSE GiveUp
  /\ UNCHANGED <<next, socket, disturbed, received>>

\* read_sweeps fills data from the slots and publishes it.
ReadSweeps ==
  /\ pc = "recv" /\ Collected
  /\ captures' = Append(captures, [slots |-> sweeps, discards |-> discards])
  /\ pc' = "clear"
  /\ UNCHANGED <<network, sweeps, received, discards>>

Radar == ClearData \/ ReceiveFrame \/ ReceiveForeign \/ ReceiveTimeout \/ ReadSweeps

Next == Network \/ Radar

Spec == Init /\ [][Next]_vars

-----------------------------------------------------------------------------
(* Properties *)

FramesIn(c) == {c.slots[s].n : s \in Slots}
Oldest(c) == Min(FramesIn(c))
Newest(c) == Max(FramesIn(c))
FaultsWithin(a, b) == Cardinality(disturbed \cap (a .. b))

\* No frame that the network left alone goes into two captures: every
\* collection starts from empty slots and the socket gives a datagram once
\* (UdpRadar.cpp:81, 86, 102).  Frames it lost, doubled or swapped are left out.
UsedOnce ==
  \A k \in DOMAIN captures : \A l \in 1 .. k - 1 :
    FramesIn(captures[k]) \cap FramesIn(captures[l]) \subseteq disturbed

\* A capture is one period of consecutive frames, longer by one period for
\* each frame lost or swapped within it: a slot is filled by the first packet
\* that fits, so it waits a period if it missed one (UdpRadar.cpp:84-104).
CaptureIsShort ==
  \A k \in DOMAIN captures :
    LET c == captures[k] IN
    Newest(c) - Oldest(c) < Period * (1 + FaultsWithin(Oldest(c), Newest(c)))

\* Undisturbed, captures follow each other without skipping a frame: the
\* place in the sender's sequence where a capture starts is kept for ever.
NothingSkipped ==
  \A k \in DOMAIN captures : k > 1 =>
    LET a == captures[k - 1]
        b == captures[k]
    IN FaultsWithin(Oldest(a), Newest(b)) = 0 /\ a.discards = b.discards
         => Oldest(b) = Newest(a) + 1

\* A collection ends within one period, and one more for each fault: no
\* sequence of packets keeps it waiting for a slot (UdpRadar.cpp:84, 102,
\* 146-155).
CollectionEnds == received <= Period * (1 + faults)

\* protol.txt II.4 and II.5: the points of the up sweep, and those of the
\* down sweep, are of one sweep.
SweepsWhole ==
  \A k \in DOMAIN captures : \A i \in Directions : \A j1, j2 \in Numbers :
    captures[k].slots[<<i, j1>>].n \div NFrames = captures[k].slots[<<i, j2>>].n \div NFrames
=============================================================================
