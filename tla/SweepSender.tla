---------------------------- MODULE SweepSender ----------------------------
(***************************************************************************)
(* The sending half of the board: fifo_all.vhd between the signal path and *)
(* the transmitter send_udp.vhd.  A step is one edge of the clock that     *)
(* tb.vhd gives to both (clk_core and clk_mac are clk125); the registers   *)
(* of the transmitter are the fields of tx, a field that a state does not  *)
(* assign keeps its value.                                                 *)
(*                                                                         *)
(* Data.  A symbol of the output names where the nibble comes from; a word *)
(* of a sweep is <<sweep, number>>.  The checksum is the sequence of the   *)
(* symbols it was computed over.  The two aFifos that carry one exponent   *)
(* and one direction per sweep are the counts of their accesses; what they *)
(* show is AFifo's OutputShowsNext.  The memory of the samples is a        *)
(* dcfifo of the vendor, modelled from how fifo16x4.vhd configures it.     *)
(***************************************************************************)
EXTENDS Integers, Sequences, AFifoCounts

CONSTANTS
  PRMBLE_LEN, HEADER_LEN, DATAFRAME_LEN,  \* bytes, as in send_udp.vhd
  RADAR_STATUS_LEN, ZEROS_LEN,            \* bytes of a status response
  DelayMax,     \* the value delay_cnt starts from
  FifoWords,    \* words of the dcfifo
  WordGap,      \* edges from a word of a sweep to the next, at least
  SweepGap,     \* edges from the last word of a sweep to the next sweep, at least
  MinIdle,      \* edges without data between two frames that Ethernet wants
  RequestGap,   \* edges from a request to the next, at least
  Window,       \* a data request finds at most so many words in the dcfifo
  MaxSweeps, MaxRequests  \* bounds

Frames     == 4                       \* the frame_num of PUSHCRC1
FrameWords == DATAFRAME_LEN \div 2    \* words of 16 bits
SweepWords == Frames * FrameWords     \* CUT_LEN of top_sender.vhd

ASSUME SenderAssumption ==
  /\ PRMBLE_LEN \in Nat \ {0} /\ HEADER_LEN \in Nat \ {0}
  /\ RADAR_STATUS_LEN \in Nat \ {0} /\ ZEROS_LEN \in Nat \ {0}
  /\ DATAFRAME_LEN \in Nat \ {0} /\ DATAFRAME_LEN % 2 = 0
  /\ FifoWords = 2 * FrameWords     \* 512 words, frames of 512 bytes
  /\ {DelayMax, WordGap, SweepGap, MinIdle, RequestGap, Window, MaxSweeps, MaxRequests} \subseteq Nat

(***************************************************************************)
(* The pace.  Lengths in nibbles, times in edges: what precedes the        *)
(* samples in a frame and is covered by the checksum or not, a frame, the  *)
(* answer to a status request, a frame with the delay behind it, and the   *)
(* time in which the words of a frame come.                                *)
(***************************************************************************)
HeadLen    == 2 * PRMBLE_LEN + 2 * HEADER_LEN + 4
DataLen    == 2 * DATAFRAME_LEN
FrameLen   == HeadLen + DataLen + 8
AnswerLen  == 2 * PRMBLE_LEN + 2 * RADAR_STATUS_LEN + 2 + 2 * ZEROS_LEN
CycleTime  == FrameLen + DelayMax + 2
FrameTime  == FrameWords * WordGap

\* Frame i of a sweep starts no later than this after the first word: the
\* first one waits for its words or for the request, a later one for its
\* words or for the frame before.
Start(i) == Later(FrameTime - WordGap, Window * WordGap + 1) + 4 + i * Later(FrameTime, CycleTime)

\* The transmitter keeps pace: nibbles leave as fast as words come, it takes
\* the first word of a frame out before the memory lacks its place and while
\* the count of the memory is not 0 again, and is done before the next sweep.
PaceAssumption ==
  /\ WordGap >= 4 /\ Window < FifoWords
  /\ Start(0) + HeadLen + 2 <= 2 * FrameTime
  /\ Start(1) + HeadLen + 2 <= 3 * FrameTime
  /\ Start(0) <= 2 * FrameTime - WordGap + 2
  /\ Start(1) <= 3 * FrameTime - WordGap + 2
  /\ Start(2) <= 4 * FrameTime - WordGap + 2
  /\ Start(3) + FrameLen <= 4 * FrameTime - WordGap + SweepGap

\* The gaps: the delay, the first words of a sweep and the time to the next
\* request are longer than Ethernet wants.
GapAssumption ==
  /\ MinIdle <= DelayMax + 2 /\ MinIdle <= FrameTime
  /\ AnswerLen + MinIdle <= RequestGap

ASSUME Paced == PaceAssumption /\ GapAssumption

VARIABLES
  tx,         \* the registers of send_udp
  words,      \* the words in the dcfifo
  part,       \* nibbles of its first word that were read
  q,          \* its output, i_data of send_udp
  dataMux,    \* data_mux and data_mux_ce of fifo_all: a word, or NoWord
  readCount,  \* read_count of fifo_all, a copy of rdusedw
  emptyWas,   \* fifo_empty_1w
  expIn, expOut, dirIn, dirOut,  \* accesses of the two aFifos
  expReg, dirReg,                \* exp_fifosE and signal_direct_reg
  rx,         \* rx2tx, from the receiver
  sweep, nextWord, since,        \* the signal path: see Source
  requests,   \* requests so far
  frame,      \* history: the symbols of the frame on the wire
  sentFrames, \* history: data frames sent
  idle        \* history: edges since the last frame, up to MinIdle

fifoVars   == <<words, part, q, dataMux, readCount, emptyWas>>
sideVars   == <<expIn, expOut, dirIn, dirOut, expReg, dirReg>>
sourceVars == <<sweep, nextWord, since>>
vars == <<tx, fifoVars, sideVars, rx, sourceVars, requests, frame, sentFrames, idle>>

NoWord   == <<0, 0>>
NoSymbol == <<"none">>
NoRequest == [new |-> FALSE, type |-> 0, no |-> 0, left |-> 0]

\* After the reset, before the first sweep.
Init ==
  /\ tx = [stm |-> "WAITING_REQUEST", cnt_mac |-> 0, outrd_cnt |-> 0, read_cnt |-> 0,
           frame_num |-> 0, delay_cnt |-> 0, rd_data |-> FALSE, rd_exp |-> FALSE,
           rd_direct |-> FALSE, dv |-> FALSE, out |-> NoSymbol, sig_dir |-> 0,
           crc |-> <<>>, request_number |-> 0]
  /\ words = <<>> /\ part = 0 /\ q = NoSymbol /\ dataMux = NoWord
  /\ readCount = 0 /\ emptyWas = TRUE
  /\ expIn = 0 /\ expOut = 0 /\ dirIn = 0 /\ dirOut = 0 /\ expReg = 0 /\ dirReg = 0
  /\ rx = NoRequest
  /\ sweep = 0 /\ nextWord = SweepWords + 1 /\ since = SweepGap
  /\ requests = 0
  /\ frame = <<>> /\ sentFrames = 0 /\ idle = MinIdle

-----------------------------------------------------------------------------
(***************************************************************************)
(* fifo_all.vhd at an edge.                                                *)
(***************************************************************************)
Used   == 4 * Len(words) - part
\* lpm_widthu_r is 11: the count of a full FIFO is 0 again.
UsedW  == Used % (4 * FifoWords)
Accept == dataMux # NoWord /\ Len(words) < FifoWords
Reads  == tx.rd_data /\ words # <<>>

\* The nibble at the reading port: its place in its sweep.
Nibble == <<"nib", Head(words)[1], 4 * (Head(words)[2] - 1) + part + 1>>

\* data_mux takes over the word that comes at this edge.
DataFifo(word) ==
  LET rest == IF Reads /\ part = 3 THEN Tail(words) ELSE words
  IN  /\ words' = IF Accept THEN Append(rest, dataMux) ELSE rest
      /\ part' = IF Reads THEN (part + 1) % 4 ELSE part
      /\ q' = IF Reads THEN Nibble ELSE q
      /\ dataMux' = word
      /\ readCount' = UsedW
      /\ emptyWas' = (words = <<>>)

\* An aFifo: the first write and the first read leave its pointers.
Holds(w, r) == Later(w, 1) > Later(r, 1)

SideFifos(exp, dir) ==
  /\ expIn' = IF exp THEN expIn + 1 ELSE expIn
  /\ dirIn' = IF dir THEN dirIn + 1 ELSE dirIn
  /\ expOut' = IF tx.rd_exp /\ Holds(expIn, expOut) THEN expOut + 1 ELSE expOut
  /\ dirOut' = IF tx.rd_direct /\ Holds(dirIn, dirOut) THEN dirOut + 1 ELSE dirOut
  /\ expReg' = Shown(expIn, expOut)
  /\ dirReg' = Shown(dirIn, dirOut)

-----------------------------------------------------------------------------
(***************************************************************************)
(* send_udp.vhd, one action per state or pair of states.                   *)
(***************************************************************************)
Half == IF tx.stm \in {"SEND_RADAR_PREAMBLE0", "SEND_RADAR_STATE0", "PREAMBLE1", "DESCR_MAC1"}
        THEN 0 ELSE 1

\* A byte of a table goes out in two states, the lower half first: from the
\* first of them to the second, from there to the next byte or to after.
Byte(first, second, cnt, len, after) ==
  IF tx.stm = first THEN [stm |-> second, cnt |-> cnt]
  ELSE IF cnt < len - 1 THEN [stm |-> first, cnt |-> cnt + 1]
  ELSE [stm |-> after, cnt |-> 0]

WaitingRequest ==
  /\ tx.stm = "WAITING_REQUEST"
  /\ tx' = [tx EXCEPT !.stm = IF rx.new /\ rx.type = 0 THEN "SEND_RADAR_PREAMBLE0"
                              ELSE IF rx.new /\ rx.type = 1 THEN "STARTING" ELSE @,
                      !.request_number = IF rx.new THEN rx.no ELSE @,
                      !.outrd_cnt = 0, !.cnt_mac = 0, !.rd_data = FALSE,
                      !.rd_exp = FALSE, !.rd_direct = FALSE, !.dv = FALSE]

RadarPreamble ==
  /\ tx.stm \in {"SEND_RADAR_PREAMBLE0", "SEND_RADAR_PREAMBLE1"}
  /\ LET b == Byte("SEND_RADAR_PREAMBLE0", "SEND_RADAR_PREAMBLE1", tx.cnt_mac, PRMBLE_LEN,
                   "SEND_RADAR_STATE0")
     IN  tx' = [tx EXCEPT !.stm = b.stm, !.cnt_mac = b.cnt, !.dv = TRUE,
                          !.out = <<"pre", tx.cnt_mac, Half>>]

RadarState ==
  /\ tx.stm \in {"SEND_RADAR_STATE0", "SEND_RADAR_STATE1"}
  /\ LET b == Byte("SEND_RADAR_STATE0", "SEND_RADAR_STATE1", tx.outrd_cnt, RADAR_STATUS_LEN,
                   "SEND_RADAR_STATE_NUM0")
     IN  tx' = [tx EXCEPT !.stm = b.stm, !.outrd_cnt = b.cnt, !.dv = TRUE,
                          !.out = <<"state", tx.outrd_cnt, Half>>]

RadarNumber ==
  \/ /\ tx.stm = "SEND_RADAR_STATE_NUM0"
     /\ tx' = [tx EXCEPT !.stm = "SEND_RADAR_STATE_NUM1", !.dv = TRUE,
                         !.out = <<"no", tx.request_number, 0>>]
  \/ /\ tx.stm = "SEND_RADAR_STATE_NUM1"
     /\ tx' = [tx EXCEPT !.stm = "SEND_RADAR_STATE_ZEROS", !.dv = TRUE,
                         !.out = <<"no", tx.request_number, 1>>]

RadarZeros ==
  /\ tx.stm = "SEND_RADAR_STATE_ZEROS"
  /\ LET more == tx.outrd_cnt < ZEROS_LEN * 2 - 1
     IN  tx' = [tx EXCEPT !.stm = IF more THEN @ ELSE "WAITING_REQUEST",
                          !.outrd_cnt = IF more THEN @ + 1 ELSE 0,
                          !.dv = TRUE, !.out = <<"zero">>]

\* Mutant: more than a frame must be there.
FrameReadyMore == ~emptyWas /\ readCount > DATAFRAME_LEN * 2

\* A whole frame is in the dcfifo.
FrameReady == ~emptyWas /\ readCount >= DATAFRAME_LEN * 2

Starting ==
  /\ tx.stm = "STARTING"
  /\ tx' = [tx EXCEPT !.stm = IF FrameReady THEN "PREAMBLE1" ELSE @,
                      !.rd_exp = FrameReady, !.rd_direct = FrameReady,
                      !.rd_data = FALSE, !.dv = FALSE, !.out = NoSymbol,
                      !.read_cnt = 0, !.cnt_mac = 0, !.crc = <<>>, !.frame_num = 0]

Waiting ==
  /\ tx.stm = "WAITING"
  /\ tx' = [tx EXCEPT !.stm = IF FrameReady THEN "PREAMBLE1" ELSE @,
                      !.rd_exp = FALSE, !.rd_direct = FALSE,
                      !.rd_data = FALSE, !.dv = FALSE, !.out = NoSymbol,
                      !.read_cnt = 0, !.cnt_mac = 0, !.crc = <<>>]

Preamble ==
  /\ tx.stm \in {"PREAMBLE1", "PREAMBLE2"}
  /\ LET b == Byte("PREAMBLE1", "PREAMBLE2", tx.cnt_mac, PRMBLE_LEN, "DESCR_MAC1")
     IN  tx' = [tx EXCEPT !.stm = b.stm, !.cnt_mac = b.cnt, !.dv = TRUE,
                          !.out = <<"pre", tx.cnt_mac, Half>>, !.rd_data = FALSE,
                          !.rd_exp = IF tx.stm = "PREAMBLE1" THEN FALSE ELSE @,
                          !.rd_direct = FALSE]

\* A nibble goes out and into the checksum.
Send(sym, next) == [next EXCEPT !.dv = TRUE, !.out = sym, !.crc = Append(@, sym)]

\* The end of the header asks for the first nibble and samples the direction.
DescrMac ==
  /\ tx.stm \in {"DESCR_MAC1", "DESCR_MAC2"}
  /\ LET b == Byte("DESCR_MAC1", "DESCR_MAC2", tx.cnt_mac, HEADER_LEN, "DESCR_POS1")
         last == b.stm = "DESCR_POS1"
     IN  tx' = Send(<<"mac", tx.cnt_mac, Half>>,
                    [tx EXCEPT !.stm = b.stm, !.cnt_mac = b.cnt,
                               !.rd_direct = IF tx.stm = "DESCR_MAC1" THEN FALSE ELSE @,
                               !.rd_data = IF last THEN TRUE ELSE @,
                               !.rd_exp = IF last THEN FALSE ELSE @,
                               !.sig_dir = IF last THEN dirReg ELSE @])

DescrPos ==
  \/ /\ tx.stm = "DESCR_POS1"
     /\ tx' = Send(<<"dir", tx.sig_dir>>,
                   [tx EXCEPT !.stm = "DESCR_POS2", !.rd_data = FALSE, !.rd_exp = FALSE])
  \/ /\ tx.stm = "DESCR_POS2"
     /\ tx' = Send(<<"num", tx.frame_num>>,
                   [tx EXCEPT !.stm = "DESCR_POS3", !.rd_data = FALSE, !.rd_exp = FALSE])
  \/ /\ tx.stm = "DESCR_POS3"
     /\ tx' = Send(<<"exp", expReg, 0>>,
                   [tx EXCEPT !.stm = "DESCR_POS4", !.rd_data = FALSE,
                              !.frame_num = (@ + 1) % 16])
  \/ /\ tx.stm = "DESCR_POS4"
     /\ tx' = Send(<<"exp", expReg, 1>>,
                   [tx EXCEPT !.stm = "READ_DATA", !.rd_data = TRUE])

\* Mutant: one nibble too many is asked for.
AsksOnPlus(n) == n < DATAFRAME_LEN * 2 - 1

AsksOn(n) == n < DATAFRAME_LEN * 2 - 2

ReadData ==
  /\ tx.stm = "READ_DATA"
  /\ tx' = [tx EXCEPT !.stm = IF tx.read_cnt < DATAFRAME_LEN * 2 - 1 THEN @ ELSE "PUSHCRC8",
                      !.read_cnt = @ + 1, !.rd_data = AsksOn(tx.read_cnt),
                      !.out = q, !.crc = Append(@, q)]

Crc == <<"PUSHCRC1", "PUSHCRC2", "PUSHCRC3", "PUSHCRC4",
         "PUSHCRC5", "PUSHCRC6", "PUSHCRC7", "PUSHCRC8">>

\* Mutant: the next frame follows at once.
AfterFrameAtOnce == IF tx.frame_num = Frames THEN "STARTING" ELSE "WAITING"

AfterFrame == IF tx.frame_num = Frames THEN "STARTING" ELSE "DELAYING"

PushCrc ==
  \E i \in 1 .. 8 :
     /\ tx.stm = Crc[i]
     /\ tx' = [tx EXCEPT !.stm = IF i = 1 THEN AfterFrame ELSE Crc[i - 1],
                         !.delay_cnt = IF i = 1 THEN DelayMax ELSE @,
                         !.rd_data = IF i = 8 THEN FALSE ELSE @,
                         !.dv = TRUE, !.out = <<"crc", i, tx.crc>>]

Delaying ==
  /\ tx.stm = "DELAYING"
  /\ tx' = [tx EXCEPT !.stm = IF tx.delay_cnt > 0 THEN @ ELSE "WAITING",
                      !.delay_cnt = IF tx.delay_cnt > 0 THEN @ - 1 ELSE @, !.dv = FALSE]

-----------------------------------------------------------------------------
(***************************************************************************)
(* What comes in: per sweep, its direction at the start, then its          *)
(* exponent, at the edge of the first word, and SweepWords words.  Words   *)
(* and sweeps keep the distances of tb.vhd (a sample takes 25 edges, the   *)
(* 4096 of a sweep come in 16384).                                         *)
(***************************************************************************)
NoInput   == since' = (IF since < SweepGap THEN since + 1 ELSE since)
             /\ UNCHANGED <<sweep, nextWord>>
             /\ DataFifo(NoWord) /\ SideFifos(FALSE, FALSE)

SweepStart ==
  /\ sweep < MaxSweeps /\ nextWord > SweepWords /\ since >= SweepGap
  /\ sweep' = sweep + 1 /\ nextWord' = 1 /\ since' = 1
  /\ DataFifo(NoWord) /\ SideFifos(FALSE, TRUE)

SweepWord ==
  /\ nextWord <= SweepWords /\ since >= WordGap
  /\ nextWord' = nextWord + 1 /\ since' = 1
  /\ DataFifo(<<sweep, nextWord>>) /\ SideFifos(nextWord = 1, FALSE)
  /\ UNCHANGED sweep

\* A request is held for the two edges of a byte, and the next one takes at
\* least a frame of the client.
Request ==
  \/ /\ rx' = IF rx.left = 0 THEN NoRequest
              ELSE [rx EXCEPT !.left = @ - 1, !.new = rx.left + 1 > RequestGap]
     /\ UNCHANGED requests
  \/ /\ requests < MaxRequests /\ rx.left = 0
     /\ \E type \in {0, 1, 2} :
           /\ type = 1 => Len(words) <= Window
           /\ rx' = [new |-> TRUE, type |-> type, no |-> requests + 1, left |-> RequestGap]
     /\ requests' = requests + 1

History ==
  /\ frame' = IF tx'.dv THEN Append(IF tx.dv THEN frame ELSE <<>>, tx'.out)
              ELSE IF tx.dv THEN frame ELSE <<>>
  /\ sentFrames' = IF tx.dv /\ ~tx'.dv /\ frame[Len(frame)][1] = "crc" /\ sentFrames < Frames * MaxSweeps
                   THEN sentFrames + 1 ELSE sentFrames
  /\ idle' = IF tx'.dv THEN 0 ELSE IF idle < MinIdle THEN idle + 1 ELSE idle

Source == SweepStart \/ SweepWord

Transmitter ==
  \/ WaitingRequest
  \/ RadarPreamble \/ RadarState \/ RadarNumber \/ RadarZeros
  \/ Starting \/ Waiting \/ Preamble \/ DescrMac \/ DescrPos \/ ReadData
  \/ PushCrc \/ Delaying

Next == Transmitter /\ (NoInput \/ Source) /\ Request /\ History

Fed == Transmitter /\ Source /\ Request /\ History

Spec == Init /\ [][Next]_vars

\* The clock runs, and the signal path goes on delivering sweeps.
LiveSpec == Spec /\ WF_vars(Next) /\ WF_vars(Fed)

-----------------------------------------------------------------------------
Table(tag, len) == [i \in 1 .. 2 * len |-> <<tag, (i - 1) \div 2, (i - 1) % 2>>]

StatusFrame(no) ==
  Table("pre", PRMBLE_LEN) \o Table("state", RADAR_STATUS_LEN)
    \o << <<"no", no, 0>>, <<"no", no, 1>> >> \o [i \in 1 .. 2 * ZEROS_LEN |-> <<"zero">>]

Covered(s, n) ==
  Table("mac", HEADER_LEN) \o << <<"dir", s>>, <<"num", n>>, <<"exp", s, 0>>, <<"exp", s, 1>> >>
    \o [i \in 1 .. DATAFRAME_LEN * 2 |-> <<"nib", s, n * DATAFRAME_LEN * 2 + i>>]

DataFrame(s, n) ==
  Table("pre", PRMBLE_LEN) \o Covered(s, n) \o [i \in 1 .. 8 |-> <<"crc", 9 - i, Covered(s, n)>>]

\* Every frame that leaves the board is whole: the answer to a request with
\* its number, or the next piece of the measurement - preamble, header, the
\* direction and the exponent of the sweep it belongs to, the number of the
\* frame, the samples that follow those of the frame before, none lost,
\* repeated or from another sweep, and a checksum over all of it
\* (send_udp.vhd:202-465, fifo_all.vhd:82-140).
FramesWhole ==
  [][tx.dv /\ ~tx'.dv =>
       \/ frame = StatusFrame(tx.request_number)
       \/ frame = DataFrame(sentFrames \div Frames + 1, sentFrames % Frames)]_vars

\* Two frames are never closer than Ethernet allows, also where no delay is
\* built in, after the last frame of a sweep (send_udp.vhd:413-428, 467-473).
FramesApart == [][~tx.dv /\ tx'.dv => idle >= MinIdle]_vars

Streaming ==
  tx.stm \in {"STARTING", "WAITING", "PREAMBLE1", "PREAMBLE2", "DESCR_MAC1", "DESCR_MAC2",
              "DESCR_POS1", "DESCR_POS2", "DESCR_POS3", "DESCR_POS4", "READ_DATA", "DELAYING"}
    \cup {Crc[i] : i \in 1 .. 8}

\* Once data was asked for, all frames of every sweep leave the board
\* (send_udp.vhd:257-293, 413-428).
SweepsLeave ==
  \A s \in 1 .. MaxSweeps :
     sweep = s /\ nextWord > SweepWords /\ Streaming ~> sentFrames >= Frames * s
=============================================================================
