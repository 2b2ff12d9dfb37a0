------------------------------- MODULE UdpRx -------------------------------
(***************************************************************************)
(* The request receiver of the board, udp_rx.vhd, on the line of frames    *)
(* that reaches it.  A step is one byte clock (i_ce).  The converter       *)
(* macbits_conv4to8.vhd clocks bytes between the frames too: they are 0    *)
(* with i_dv low, and every state but WAITING takes them like a frame's.   *)
(*                                                                         *)
(* The frames are those of client_stimulus_cpu.vhd byte by byte, with the  *)
(* real lengths: 8 bytes of preamble, 14 of Ethernet, 20 of IP, 8 of UDP,  *)
(* the tag 5A, the number and the type of the request, 4 bytes of checksum.*)
(* A frame may break off after any byte.                                   *)
(***************************************************************************)
EXTENDS Integers, Sequences

CONSTANTS
  CntMod,   \* by_frame_cnt counts modulo CntMod: 2^16 in the code
  MinGap,   \* bytes between two frames, at least
  Number,   \* the number of the requests
  CheckByte   \* values of a byte of the checksum

\* The header must fit below the counter's wrap.
ASSUME UdpRxAssumption ==
  /\ CntMod \in Nat /\ CntMod > 53
  /\ MinGap \in Nat \ {0}
  /\ Number \in 1..255 /\ CheckByte \subseteq 0..255 /\ CheckByte # {}

VARIABLES
  stm, by_frame_cnt, correct_prmb_cnt, correct_mac_cnt,
  port_number_correct, port_error,
  s_rx2tx,   \* new_request_received, request_number, request_type
  rx2tx,     \* the same one byte later, to send_udp
  kind,      \* the frame on the line, or the last one
  pos,       \* the byte of it that comes next; after the frame its length
  idle,      \* bytes since the frame, up to Long; 0 within it
  safe,      \* history: the frame found the line settled, see Begin
  heard,     \* history: the requests signalled since the frame began
  quiet      \* history: bytes since the last pulse, up to Apart

receiver == <<stm, by_frame_cnt, correct_prmb_cnt, correct_mac_cnt,
              port_number_correct, port_error, s_rx2tx, rx2tx>>
vars == <<receiver, kind, pos, idle, safe, heard, quiet>>

pre_mem     == <<85, 85, 85, 85, 85, 85, 85, 213>>
Destination == <<255, 255, 255, 255, 255, 255>>
Source      == <<0, 22, 234, 202, 9, 58>>
IpHeader    == <<69, 0, 0, 31, 87, 172, 0, 0, 128, 17, 33, 116,
                 192, 168, 1, 6, 255, 255, 255, 255>>
port_number == <<226, 206>>   \* 58062, as tb.vhd sets it

\* The frames: a status request, a data request, one from the port 0xE3E9,
\* one without the tag, and one that is not IP.
Kinds == {"status", "data", "port", "untagged", "arp"}
Frame(k) ==
  pre_mem \o Destination \o Source \o (IF k = "arp" THEN <<8, 6>> ELSE <<8, 0>>) \o IpHeader
    \o (IF k = "port" THEN <<227, 233>> ELSE port_number)
    \o <<236, 190, 0, 11, 20, 156>>
    \o <<IF k = "untagged" THEN 165 ELSE 90, Number, IF k = "status" THEN 0 ELSE 1>>
Frames      == [k \in Kinds |-> Frame(k)]
TagAt       == 51     \* bytes of a frame with its tag
Body        == 53     \* bytes of a frame without its checksum
FrameLength == 57

\* After so many idle bytes the counter has come round to the port's place.
Long  == CntMod + Body
\* From a pulse to the next: preamble, addresses, type, header, request.
Apart == 26

NoRequest == [new |-> FALSE, no |-> 0, type |-> 0]

Init ==
  /\ stm = "WAITING" /\ by_frame_cnt = 0 /\ correct_prmb_cnt = 0 /\ correct_mac_cnt = 0
  /\ port_number_correct = FALSE /\ port_error = FALSE
  /\ s_rx2tx = NoRequest /\ rx2tx = NoRequest
  /\ kind = "arp" /\ pos = FrameLength /\ idle = Long /\ safe = TRUE
  /\ heard = <<>> /\ quiet = Apart

-----------------------------------------------------------------------------
(***************************************************************************)
(* udp_rx.vhd with a byte data on the line, and dv.                        *)
(***************************************************************************)
Counted == by_frame_cnt' = (by_frame_cnt + 1) % CntMod

portVars    == <<port_number_correct, port_error>>
counterVars == <<correct_prmb_cnt, correct_mac_cnt>>

\* Mutants: WAITING leaves the pulse to the next header; the place in the frame
\* is not set back while the line is silent.
WaitingLeavesPulse(dv, data) ==
  /\ stm = "WAITING"
  /\ stm' = IF dv /\ data = pre_mem[1] THEN "GET_PREAMBULE" ELSE stm
  /\ correct_prmb_cnt' = IF dv /\ data = pre_mem[1] THEN 1 ELSE correct_prmb_cnt
  /\ by_frame_cnt' = IF dv THEN (by_frame_cnt + 1) % CntMod ELSE 0
  /\ correct_mac_cnt' = 0 /\ port_number_correct' = FALSE /\ port_error' = FALSE
  /\ UNCHANGED s_rx2tx

WaitingCountsOn(dv, data) ==
  /\ stm = "WAITING"
  /\ stm' = IF dv /\ data = pre_mem[1] THEN "GET_PREAMBULE" ELSE stm
  /\ correct_prmb_cnt' = IF dv /\ data = pre_mem[1] THEN 1 ELSE correct_prmb_cnt
  /\ by_frame_cnt' = (by_frame_cnt + 1) % CntMod
  /\ correct_mac_cnt' = 0 /\ port_number_correct' = FALSE /\ port_error' = FALSE
  /\ s_rx2tx' = [s_rx2tx EXCEPT !.new = FALSE]

Waiting(dv, data) ==
  /\ stm = "WAITING"
  /\ \/ /\ dv /\ data = pre_mem[1]
        /\ stm' = "GET_PREAMBULE" /\ correct_prmb_cnt' = 1 /\ Counted
     \/ /\ dv /\ data # pre_mem[1]
        /\ Counted /\ UNCHANGED <<stm, correct_prmb_cnt>>
     \/ /\ ~dv
        /\ by_frame_cnt' = 0 /\ UNCHANGED <<stm, correct_prmb_cnt>>
  /\ correct_mac_cnt' = 0
  /\ port_number_correct' = FALSE /\ port_error' = FALSE
  /\ s_rx2tx' = [s_rx2tx EXCEPT !.new = FALSE]

Preambule(data) ==
  /\ stm = "GET_PREAMBULE" /\ Counted
  /\ LET matches == data = pre_mem[correct_prmb_cnt + 1]
         more    == correct_prmb_cnt < Len(pre_mem) - 1
     IN  /\ correct_prmb_cnt' = IF matches /\ more THEN correct_prmb_cnt + 1 ELSE correct_prmb_cnt
         /\ stm' = IF ~matches THEN "WAITING" ELSE IF more THEN stm ELSE "GETING_MAC1"
  /\ UNCHANGED <<correct_mac_cnt, portVars, s_rx2tx>>

Mac ==
  /\ stm \in {"GETING_MAC1", "GETING_MAC2"} /\ Counted
  /\ IF correct_mac_cnt < 5
       THEN correct_mac_cnt' = correct_mac_cnt + 1 /\ UNCHANGED stm
       ELSE /\ correct_mac_cnt' = 0
            /\ stm' = IF stm = "GETING_MAC1" THEN "GETING_MAC2" ELSE "GETING_ETHER1"
  /\ UNCHANGED <<correct_prmb_cnt, portVars, s_rx2tx>>

Ether(data) ==
  /\ stm \in {"GETING_ETHER1", "GETING_ETHER2"} /\ Counted
  /\ stm' = IF stm = "GETING_ETHER1"
            THEN IF data = 8 THEN "GETING_ETHER2" ELSE "WAITING"
            ELSE IF data = 0 THEN "GETING_UDPHEADER" ELSE "WAITING"
  /\ UNCHANGED <<counterVars, portVars, s_rx2tx>>

\* The header is known by the place in the frame alone.
UdpHeader(data) ==
  /\ stm = "GETING_UDPHEADER" /\ Counted
  /\ port_number_correct' = IF by_frame_cnt = 42 THEN data = port_number[1] ELSE port_number_correct
  /\ port_error' = IF by_frame_cnt = 43 THEN ~(data = port_number[2] /\ port_number_correct)
                   ELSE port_error
  /\ stm' = IF port_error THEN "WAITING"
            ELSE IF by_frame_cnt = 49 THEN "GET_REQ_PROPERTY" ELSE stm
  /\ s_rx2tx' = [s_rx2tx EXCEPT !.new = FALSE]
  /\ UNCHANGED counterVars

ReqProperty(data) ==
  /\ stm = "GET_REQ_PROPERTY" /\ Counted
  /\ stm' = IF data = 90 THEN "GET_REQ_NUMBER" ELSE "WAITING"
  /\ UNCHANGED <<counterVars, portVars, s_rx2tx>>

ReqNumber(data) ==
  /\ stm = "GET_REQ_NUMBER" /\ Counted
  /\ s_rx2tx' = [s_rx2tx EXCEPT !.no = data]
  /\ stm' = "GET_REG_TYPE"
  /\ UNCHANGED <<counterVars, portVars>>

RegType(data) ==
  /\ stm = "GET_REG_TYPE" /\ Counted
  /\ s_rx2tx' = [s_rx2tx EXCEPT !.type = data, !.new = TRUE]
  /\ stm' = "WAITING"
  /\ UNCHANGED <<counterVars, portVars>>

Receive(dv, data) ==
  /\ \/ Waiting(dv, data) \/ Preambule(data) \/ Mac \/ Ether(data) \/ UdpHeader(data)
     \/ ReqProperty(data) \/ ReqNumber(data) \/ RegType(data)
  /\ rx2tx' = s_rx2tx
  /\ quiet' = IF rx2tx'.new THEN 0 ELSE IF quiet < Apart THEN quiet + 1 ELSE quiet

Pulse == IF rx2tx'.new THEN <<[no |-> rx2tx'.no, type |-> rx2tx'.type]>> ELSE <<>>

-----------------------------------------------------------------------------
(***************************************************************************)
(* The line.                                                               *)
(***************************************************************************)
\* The line is settled when the frame before was whole and found it settled,
\* or when it was silent for so long that the receiver is waiting whatever
\* came before.
Settled == (safe /\ pos = FrameLength) \/ idle = Long

Begin ==
  /\ idle >= MinGap
  /\ kind' \in Kinds
  /\ pos' = 1 /\ idle' = 0 /\ safe' = Settled
  /\ Receive(TRUE, pre_mem[1])
  /\ heard' = Pulse

Continue ==
  /\ idle = 0 /\ pos < FrameLength
  /\ \E data \in IF pos < Body THEN {Frames[kind][pos + 1]} ELSE CheckByte : Receive(TRUE, data)
  /\ pos' = pos + 1
  /\ heard' = heard \o Pulse
  /\ UNCHANGED <<kind, idle, safe>>

\* The frame has ended, or breaks off; then nothing.
Silence ==
  /\ Receive(FALSE, 0)
  /\ idle' = IF idle < Long THEN idle + 1 ELSE idle
  /\ heard' = heard \o Pulse
  /\ UNCHANGED <<kind, pos, safe>>

Next == Begin \/ Continue \/ Silence
Spec == Init /\ [][Next]_vars

-----------------------------------------------------------------------------
(***************************************************************************)
(* Properties.                                                             *)
(***************************************************************************)
\* What the frame says: its own request if it is one and its type came
\* through; a status request if it broke off between the tag and the type
\* (the bytes missing are taken from the silence); otherwise nothing.
Said ==
  LET named == IF pos >= TagAt + 1 THEN Number ELSE 0
  IN  IF pos < TagAt \/ kind \in {"port", "untagged", "arp"} THEN <<>>
      ELSE IF pos < Body THEN <<[no |-> named, type |-> 0]>>
      ELSE <<[no |-> Number, type |-> IF kind = "status" THEN 0 ELSE 1]>>

\* A frame that finds the line settled is heard exactly once, as what it says,
\* before the next one may begin, whatever came before the silence: WAITING
\* is the only state that looks at i_dv, the place in the frame is a counter
\* that only WAITING sets back (udp_rx.vhd:118-132), and the checksum may look
\* like a preamble.
SafeFrameHeard == safe /\ idle >= MinGap => heard = Said

\* A request is signalled to send_udp for one byte, and no other one for as
\* long as the shortest frame takes, also when frames break off and the
\* receiver runs from one into the next (udp_rx.vhd:129, 196, 213).
PulsesApart == [][rx2tx'.new => quiet >= Apart - 1]_vars
=============================================================================
