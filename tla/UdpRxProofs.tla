---------------------------- MODULE UdpRxProofs ----------------------------
(***************************************************************************)
(* What holds of the receiver for every width of its counter, every number *)
(* of a request and every checksum: pulses to send_udp keep the distance   *)
(* of the shortest frame, and a frame that finds the line settled is heard *)
(* exactly as what it says.                                                *)
(*                                                                         *)
(* The first follows from the least number of bytes since the last pulse   *)
(* in each state.  For the second, the receiver is followed along a frame  *)
(* whose beginning it saw: the place in the frame tells its state.  What   *)
(* came before is bounded by a rank: silence takes the receiver nearer to  *)
(* rest with each byte, and it is at rest when the line is settled.        *)
(***************************************************************************)
EXTENDS UdpRx, SequenceTheorems, TLAPS

States ==
  {"WAITING", "GET_PREAMBULE", "GETING_MAC1", "GETING_MAC2", "GETING_ETHER1", "GETING_ETHER2",
   "GETING_UDPHEADER", "GET_REQ_PROPERTY", "GET_REQ_NUMBER", "GET_REG_TYPE"}
Byte == 0 .. 255

ReceiverTypes ==
  /\ stm \in States /\ by_frame_cnt \in 0 .. CntMod - 1
  /\ correct_prmb_cnt \in 0 .. 7 /\ correct_mac_cnt \in 0 .. 5
  /\ port_number_correct \in BOOLEAN /\ port_error \in BOOLEAN
  /\ s_rx2tx \in [new : BOOLEAN, no : Byte, type : Byte]
  /\ rx2tx \in [new : BOOLEAN, no : Byte, type : Byte]

LineTypes ==
  /\ kind \in Kinds /\ pos \in 1 .. FrameLength /\ idle \in 0 .. Long
  /\ safe \in BOOLEAN /\ quiet \in 0 .. Apart

USE UdpRxAssumption

-----------------------------------------------------------------------------
(***************************************************************************)
(* The bytes of the frames.                                                *)
(***************************************************************************)
\* Two sequences one behind the other.
IsBytes(s, n) == s \in Seq(Byte) /\ Len(s) = n /\ n \in Nat
Continues(r, s, m, t, n) ==
  /\ \A p \in 1 .. m : r[p] = s[p]
  /\ \A p \in 1 .. n : r[m + p] = t[p]

\* What a sequence joined of two is.
LEMMA Joined ==
  ASSUME NEW s, NEW t, NEW m, NEW n, IsBytes(s, m), IsBytes(t, n)
  PROVE  IsBytes(s \o t, m + n) /\ Continues(s \o t, s, m, t, n)
<1> s \in Seq(Byte) /\ t \in Seq(Byte) /\ Len(s) = m /\ Len(t) = n /\ m \in Nat /\ n \in Nat
  BY DEF IsBytes
<1> DEFINE r == s \o t
<1>1. /\ r \in Seq(Byte) /\ Len(r) = Len(s) + Len(t)
      /\ \A i \in 1 .. Len(s) + Len(t) : r[i] = IF i <= Len(s) THEN s[i] ELSE t[i - Len(s)]
  BY ConcatProperties, Zenon
<1> HIDE DEF r
<1>2. IsBytes(r, m + n) /\ Continues(r, s, m, t, n)
  BY <1>1 DEF IsBytes, Continues
<1> QED BY <1>2 DEF r

\* The bytes of the frames that the receiver looks at, and that none from the
\* header to the tag looks like a preamble.
LEMMA FrameBytes ==
  ASSUME NEW k \in Kinds
  PROVE  /\ \A p \in 1 .. Body : Frames[k][p] \in Byte
         /\ \A p \in 1 .. 8 : Frames[k][p] = pre_mem[p]
         /\ Frames[k][21] = 8 /\ Frames[k][22] = (IF k = "arp" THEN 6 ELSE 0)
         /\ Frames[k][43] = (IF k = "port" THEN 227 ELSE 226)
         /\ k # "port" => Frames[k][44] = 206
         /\ Frames[k][51] = (IF k = "untagged" THEN 165 ELSE 90)
         /\ Frames[k][52] = Number
         /\ Frames[k][53] = (IF k = "status" THEN 0 ELSE 1)
         /\ \A p \in 23 .. 50 : Frames[k][p] # 85
<1> DEFINE E  == IF k = "arp" THEN <<8, 6>> ELSE <<8, 0>>
           P  == IF k = "port" THEN <<227, 233>> ELSE port_number
           Q  == <<236, 190, 0, 11, 20, 156>>
           R  == <<IF k = "untagged" THEN 165 ELSE 90, Number, IF k = "status" THEN 0 ELSE 1>>
           S1 == pre_mem \o Destination
           S2 == S1 \o Source
           S3 == S2 \o E
           S4 == S3 \o IpHeader
           S5 == S4 \o P
           S6 == S5 \o Q
           S7 == S6 \o R
<1>1. S7 = Frames[k]
  <2>1. Frames[k] = Frame(k)
    BY DEF Frames
  <2>2. Frame(k) = S7
    BY Zenon DEF Frame
  <2> QED BY <2>1, <2>2
<1>2. /\ IsBytes(pre_mem, 8) /\ IsBytes(Destination, 6) /\ IsBytes(Source, 6)
      /\ IsBytes(IpHeader, 20) /\ IsBytes(Q, 6) /\ IsBytes(R, 3)
  BY DEF IsBytes, Byte, pre_mem, Destination, Source, IpHeader
<1>3. IsBytes(E, 2) /\ IsBytes(P, 2)
  <2>1. IsBytes(<<8, 6>>, 2) /\ IsBytes(<<8, 0>>, 2)
    BY DEF IsBytes, Byte
  <2>2. IsBytes(<<227, 233>>, 2) /\ IsBytes(port_number, 2)
    BY DEF IsBytes, Byte, port_number
  <2> QED BY <2>1, <2>2, Zenon
<1>4. \A p \in 1 .. 20 : IpHeader[p] # 85
  BY DEF IpHeader
<1>5. E[1] = 8 /\ E[2] = (IF k = "arp" THEN 6 ELSE 0)
  OBVIOUS
<1>6. P[1] = (IF k = "port" THEN 227 ELSE 226) /\ P[2] = (IF k = "port" THEN 233 ELSE 206)
  BY DEF port_number
<1>7. \A p \in 1 .. 6 : Q[p] # 85
  OBVIOUS
<1>8. /\ R[1] = (IF k = "untagged" THEN 165 ELSE 90) /\ R[2] = Number
      /\ R[3] = (IF k = "status" THEN 0 ELSE 1)
  OBVIOUS
<1> HIDE DEF E, P, Q, R
<1>11. IsBytes(S1, 8 + 6) /\ Continues(S1, pre_mem, 8, Destination, 6)
  BY <1>2, Joined, Zenon
<1> HIDE DEF S1
<1>12. IsBytes(S2, (8 + 6) + 6) /\ Continues(S2, S1, 8 + 6, Source, 6)
  BY <1>2, <1>11, Joined, Zenon
<1> HIDE DEF S2
<1>13. IsBytes(S3, ((8 + 6) + 6) + 2) /\ Continues(S3, S2, (8 + 6) + 6, E, 2)
  BY <1>3, <1>12, Joined, Zenon
<1>a. ((8 + 6) + 6) + 2 = 22 /\ 8 + 6 = 14 /\ (8 + 6) + 6 = 20
  OBVIOUS
<1>b. IsBytes(S3, 22)
  BY <1>a, <1>13
<1> HIDE DEF S3
<1>14. IsBytes(S4, 22 + 20) /\ Continues(S4, S3, 22, IpHeader, 20)
  BY <1>2, <1>b, Joined, Zenon
<1> HIDE DEF S4
<1>15. IsBytes(S5, (22 + 20) + 2) /\ Continues(S5, S4, 22 + 20, P, 2)
  BY <1>3, <1>14, Joined, Zenon
<1> HIDE DEF S5
<1>16. IsBytes(S6, ((22 + 20) + 2) + 6) /\ Continues(S6, S5, (22 + 20) + 2, Q, 6)
  BY <1>2, <1>15, Joined, Zenon
<1> HIDE DEF S6
<1>17. IsBytes(S7, (((22 + 20) + 2) + 6) + 3) /\ Continues(S7, S6, ((22 + 20) + 2) + 6, R, 3)
  BY <1>2, <1>16, Joined, Zenon
<1> HIDE DEF S7
<1>c. /\ Continues(S1, pre_mem, 8, Destination, 6) /\ Continues(S2, S1, 14, Source, 6)
      /\ Continues(S3, S2, 20, E, 2) /\ Continues(S4, S3, 22, IpHeader, 20)
      /\ Continues(S5, S4, 42, P, 2) /\ Continues(S6, S5, 44, Q, 6) /\ Continues(S7, S6, 50, R, 3)
      /\ IsBytes(S7, 53)
  BY <1>a, <1>11, <1>12, <1>13, <1>14, <1>15, <1>16, <1>17
<1>21. \A p \in 1 .. 8 : S7[p] = pre_mem[p]
  BY <1>c DEF Continues
<1>22. S7[21] = E[1] /\ S7[22] = E[2]
  <2>1. S3[21] = E[1] /\ S3[22] = E[2]
    BY <1>c DEF Continues
  <2> QED BY <1>c, <2>1 DEF Continues
<1>23. \A p \in 1 .. 20 : S7[22 + p] = IpHeader[p]
  BY <1>c DEF Continues
<1>24. S7[43] = P[1] /\ S7[44] = P[2]
  <2>1. S5[43] = P[1] /\ S5[44] = P[2]
    BY <1>c DEF Continues
  <2> QED BY <1>c, <2>1 DEF Continues
<1>25. \A p \in 1 .. 6 : S7[44 + p] = Q[p]
  BY <1>c DEF Continues
<1>26. S7[51] = R[1] /\ S7[52] = R[2] /\ S7[53] = R[3]
  BY <1>c DEF Continues
<1>31. ASSUME NEW p \in 23 .. 50 PROVE S7[p] # 85
  <2>1. CASE p \in 23 .. 42
    <3>1. PICK q \in 1 .. 20 : p = 22 + q
      <4>1. p - 22 \in 1 .. 20 /\ p = 22 + (p - 22)
        BY <2>1
      <4> QED BY <4>1
    <3> QED BY <1>4, <1>23, <3>1
  <2>2. CASE p \in {43, 44}
    BY <1>6, <1>24, <2>2
  <2>3. CASE p \in 45 .. 50
    <3>1. PICK q \in 1 .. 6 : p = 44 + q
      <4>1. p - 44 \in 1 .. 6 /\ p = 44 + (p - 44)
        BY <2>3
      <4> QED BY <4>1
    <3> QED BY <1>7, <1>25, <3>1
  <2> QED BY <2>1, <2>2, <2>3
<1>32. \A p \in 1 .. Body : S7[p] \in Byte
  <2>1. S7 \in Seq(Byte) /\ Len(S7) = Body
    BY <1>c DEF IsBytes, Body
  <2> QED BY <2>1, ElementOfSeq
<1> QED BY <1>1, <1>5, <1>6, <1>8, <1>21, <1>22, <1>24, <1>26, <1>31, <1>32

-----------------------------------------------------------------------------
(***************************************************************************)
(* Types, and the distance of the pulses.                                  *)
(***************************************************************************)
\* In each state at least so many bytes have passed since the last pulse.
QuietPlaces ==
  /\ stm = "GET_PREAMBULE" =>
       correct_prmb_cnt >= 1 /\ correct_mac_cnt = 0 /\ quiet >= correct_prmb_cnt - 1
  /\ stm = "GETING_MAC1" => quiet >= 7 + correct_mac_cnt
  /\ stm = "GETING_MAC2" => quiet >= 13 + correct_mac_cnt
  /\ stm = "GETING_ETHER1" => quiet >= 19
  /\ stm = "GETING_ETHER2" => quiet >= 20
  /\ stm = "GETING_UDPHEADER" => quiet >= 21
  /\ stm = "GET_REQ_PROPERTY" => quiet >= 22
  /\ stm = "GET_REQ_NUMBER" => quiet >= 23
  /\ stm = "GET_REG_TYPE" => quiet >= 24
QuietRequest == s_rx2tx.new => stm = "WAITING" /\ quiet >= 25

QuietInv == QuietPlaces /\ QuietRequest

ReceiverInv == ReceiverTypes /\ LineTypes /\ QuietInv

\* A preamble has eight bytes.
LEMMA PreambleLength == Len(pre_mem) = 8
BY DEF pre_mem

\* What a step makes of the request to be signalled.
LEMMA RequestRecord ==
  ASSUME NEW x \in [new : BOOLEAN, no : Byte, type : Byte], NEW data \in Byte
  PROVE  /\ [x EXCEPT !.new = FALSE] \in [new : BOOLEAN, no : Byte, type : Byte]
         /\ ~[x EXCEPT !.new = FALSE].new
         /\ [x EXCEPT !.no = data] \in [new : BOOLEAN, no : Byte, type : Byte]
         /\ [x EXCEPT !.no = data].new <=> x.new
         /\ [x EXCEPT !.no = data].no = data
         /\ [x EXCEPT !.type = data, !.new = TRUE].new
         /\ [x EXCEPT !.type = data, !.new = TRUE].no = x.no
         /\ [x EXCEPT !.type = data, !.new = TRUE].type = data
         /\ [x EXCEPT !.type = data, !.new = TRUE] \in [new : BOOLEAN, no : Byte, type : Byte]
<1> DEFINE z == [x EXCEPT !.type = data]
           y == [x EXCEPT !.type = data, !.new = TRUE]
<1>1. z \in [new : BOOLEAN, no : Byte, type : Byte] /\ z.no = x.no /\ z.type = data
  OBVIOUS
<1>2. y = [z EXCEPT !.new = TRUE]
  OBVIOUS
<1>3. y \in [new : BOOLEAN, no : Byte, type : Byte] /\ y.new /\ y.no = x.no /\ y.type = data
  <2> HIDE DEF z
  <2>1. /\ [z EXCEPT !.new = TRUE] \in [new : BOOLEAN, no : Byte, type : Byte]
        /\ [z EXCEPT !.new = TRUE].new /\ [z EXCEPT !.new = TRUE].no = z.no
        /\ [z EXCEPT !.new = TRUE].type = z.type
    BY <1>1
  <2> HIDE DEF y
  <2> QED BY <1>1, <1>2, <2>1
<1>4. /\ [x EXCEPT !.new = FALSE] \in [new : BOOLEAN, no : Byte, type : Byte]
      /\ ~[x EXCEPT !.new = FALSE].new
  OBVIOUS
<1>5. /\ [x EXCEPT !.no = data] \in [new : BOOLEAN, no : Byte, type : Byte]
      /\ [x EXCEPT !.no = data].new <=> x.new
      /\ [x EXCEPT !.no = data].no = data
  OBVIOUS
<1> QED BY <1>3, <1>4, <1>5

\* Only the last byte of a request raises a pulse.
LEMMA RequestStep ==
  ASSUME ReceiverTypes, NEW dv \in BOOLEAN, NEW data \in Byte, Receive(dv, data)
  PROVE  /\ s_rx2tx' \in [new : BOOLEAN, no : Byte, type : Byte]
         /\ s_rx2tx'.new => stm = "GET_REG_TYPE" \/ (s_rx2tx.new /\ stm # "WAITING")
<1> s_rx2tx \in [new : BOOLEAN, no : Byte, type : Byte]
  BY DEF ReceiverTypes
<1>1. CASE Waiting(dv, data) \/ UdpHeader(data)
  <2>1. s_rx2tx' = [s_rx2tx EXCEPT !.new = FALSE]
    BY <1>1 DEF Waiting, UdpHeader
  <2> QED BY <2>1, RequestRecord
<1>2. CASE Preambule(data) \/ Mac \/ Ether(data) \/ ReqProperty(data)
  <2>1. s_rx2tx' = s_rx2tx /\ stm # "WAITING"
    BY <1>2 DEF Preambule, Mac, Ether, ReqProperty
  <2> QED BY <2>1
<1>3. CASE ReqNumber(data)
  <2>1. s_rx2tx' = [s_rx2tx EXCEPT !.no = data] /\ stm # "WAITING"
    BY <1>3 DEF ReqNumber
  <2> QED BY <2>1, RequestRecord
<1>4. CASE RegType(data)
  <2>1. s_rx2tx' = [s_rx2tx EXCEPT !.type = data, !.new = TRUE] /\ stm = "GET_REG_TYPE"
    BY <1>4 DEF RegType
  <2> QED BY <2>1, RequestRecord
<1> QED BY <1>1, <1>2, <1>3, <1>4 DEF Receive

\* A byte keeps the types of the receiver.
LEMMA ReceiveKeepsTypes ==
  ASSUME ReceiverTypes, quiet \in 0 .. Apart, NEW dv \in BOOLEAN, NEW data \in Byte,
         Receive(dv, data)
  PROVE  ReceiverTypes' /\ quiet' \in 0 .. Apart
<1> USE DEF ReceiverTypes, States, Counted, portVars, counterVars
<1> DEFINE Counters == /\ stm' \in States /\ by_frame_cnt' \in 0 .. CntMod - 1
                       /\ correct_prmb_cnt' \in 0 .. 7 /\ correct_mac_cnt' \in 0 .. 5
           Ports == port_number_correct' \in BOOLEAN /\ port_error' \in BOOLEAN
<1>1. rx2tx' = s_rx2tx /\ quiet' \in 0 .. Apart
  BY RequestStep DEF Receive, Apart
<1>a. s_rx2tx' \in [new : BOOLEAN, no : Byte, type : Byte]
  BY RequestStep
<1>2. \A n \in Int : n % CntMod \in 0 .. CntMod - 1
  OBVIOUS
<1>b. rx2tx' \in [new : BOOLEAN, no : Byte, type : Byte]
  BY <1>1
<1>3. CASE Waiting(dv, data)
  <2>1. Counters
    BY <1>2, <1>3 DEF Waiting
  <2>2. Ports
    BY <1>3 DEF Waiting
  <2> QED BY <1>a, <1>b, <1>1, <2>1, <2>2
<1>4. CASE Preambule(data)
  BY <1>a, <1>1, <1>2, <1>4, PreambleLength DEF Preambule
<1>5. CASE Mac
  BY <1>a, <1>1, <1>2, <1>5 DEF Mac
<1>6. CASE Ether(data)
  BY <1>a, <1>1, <1>2, <1>6 DEF Ether
<1>7. CASE UdpHeader(data)
  <2>1. Counters
    BY <1>2, <1>7 DEF UdpHeader
  <2>2. Ports
    BY <1>7, Zenon DEF UdpHeader
  <2> QED BY <1>a, <1>b, <1>1, <2>1, <2>2
<1>8. CASE ReqProperty(data)
  BY <1>a, <1>1, <1>2, <1>8 DEF ReqProperty
<1>9. CASE ReqNumber(data)
  BY <1>a, <1>1, <1>2, <1>9 DEF ReqNumber
<1>10. CASE RegType(data)
  BY <1>a, <1>1, <1>2, <1>10 DEF RegType
<1> QED BY <1>3, <1>4, <1>5, <1>6, <1>7, <1>8, <1>9, <1>10 DEF Receive

\* A byte keeps the least distance from the last pulse.
LEMMA ReceiveKeepsQuiet ==
  ASSUME ReceiverTypes, quiet \in 0 .. Apart, QuietInv, NEW dv \in BOOLEAN, NEW data \in Byte,
         Receive(dv, data)
  PROVE  QuietInv' /\ (rx2tx'.new => quiet >= Apart - 1)
<1>1. s_rx2tx.new => stm = "WAITING" /\ quiet >= 25
  BY DEF QuietInv, QuietRequest
<1>2. s_rx2tx'.new => stm = "GET_REG_TYPE"
  BY <1>1, RequestStep
<1>3. rx2tx'.new => stm = "WAITING" /\ quiet >= Apart - 1
  BY <1>1 DEF Receive, Apart
<1>4. stm # "WAITING" => quiet' = IF quiet < Apart THEN quiet + 1 ELSE quiet
  BY <1>3 DEF Receive
<1>5. quiet' \in 0 .. Apart
  BY DEF Receive, Apart
<1>6. QuietPlaces'
  <2> USE DEF ReceiverTypes, QuietPlaces, Apart
  <2>0. QuietPlaces
    BY DEF QuietInv
  <2>1. CASE Waiting(dv, data)
    BY <1>5, <2>0, <2>1 DEF Waiting
  <2>2. CASE Preambule(data)
    BY <1>4, <2>0, <2>2, PreambleLength DEF Preambule
  <2>3. CASE Mac
    BY <1>4, <2>0, <2>3 DEF Mac
  <2>4. CASE Ether(data)
    BY <1>4, <2>0, <2>4 DEF Ether
  <2>5. CASE UdpHeader(data)
    BY <1>4, <2>0, <2>5 DEF UdpHeader
  <2>6. CASE ReqProperty(data)
    BY <1>4, <2>0, <2>6 DEF ReqProperty
  <2>7. CASE ReqNumber(data)
    BY <1>4, <2>0, <2>7 DEF ReqNumber
  <2>8. CASE RegType(data)
    BY <1>4, <2>0, <2>8 DEF RegType
  <2> QED BY <2>1, <2>2, <2>3, <2>4, <2>5, <2>6, <2>7, <2>8 DEF Receive
<1>7. QuietRequest'
  <2>1. CASE s_rx2tx'.new
    <3>1. stm = "GET_REG_TYPE" /\ quiet >= 24
      BY <1>2, <2>1 DEF QuietInv, QuietPlaces
    <3>2. stm' = "WAITING"
      BY <3>1 DEF Receive, Waiting, Preambule, Mac, Ether, UdpHeader, ReqProperty, ReqNumber, RegType
    <3>3. quiet' >= 25
      BY <1>4, <3>1 DEF Apart
    <3> QED BY <3>2, <3>3 DEF QuietRequest
  <2> QED BY <2>1 DEF QuietRequest
<1> QED BY <1>3, <1>6, <1>7 DEF QuietInv

\* A step of the line is a byte for the receiver.
LEMMA StepReceives ==
  ASSUME LineTypes, Next
  PROVE  \E dv \in BOOLEAN, data \in Byte : Receive(dv, data)
<1>1. CASE Begin
  <2>1. pre_mem[1] \in Byte
    BY DEF pre_mem, Byte
  <2> QED BY <1>1, <2>1 DEF Begin
<1>2. CASE Continue
  <2>1. CASE pos < Body
    <3>1. Frames[kind][pos + 1] \in Byte
      <4>1. kind \in Kinds /\ pos + 1 \in 1 .. Body
        BY <2>1 DEF LineTypes, Body, FrameLength
      <4> QED BY <4>1, FrameBytes
    <3> QED BY <1>2, <2>1, <3>1 DEF Continue
  <2>2. CASE ~(pos < Body)
    BY <1>2, <2>2 DEF Continue, Byte
  <2> QED BY <2>1, <2>2
<1>3. CASE Silence
  <2>1. 0 \in Byte
    BY DEF Byte
  <2> QED BY <1>3, <2>1 DEF Silence
<1> QED BY <1>1, <1>2, <1>3 DEF Next

\* A step of the line keeps both, and a pulse comes late enough.
LEMMA StepKeepsReceiver ==
  ASSUME ReceiverInv, [Next]_vars
  PROVE  ReceiverInv' /\ [rx2tx'.new => quiet >= Apart - 1]_vars
<1>1. CASE Next
  <2>1. ReceiverTypes' /\ quiet' \in 0 .. Apart /\ QuietInv' /\ (rx2tx'.new => quiet >= Apart - 1)
    BY <1>1, StepReceives, ReceiveKeepsTypes, ReceiveKeepsQuiet DEF ReceiverInv, LineTypes
  <2>2. LineTypes'
    <3>1. Long \in Nat /\ FrameLength = 57 /\ Settled \in BOOLEAN
      BY DEF Long, Body, FrameLength, Settled, ReceiverInv, LineTypes
    <3> USE DEF ReceiverInv, LineTypes
    <3>2. CASE Begin
      BY <2>1, <3>1, <3>2 DEF Begin
    <3>3. CASE Continue
      <4>1. pos < FrameLength /\ pos' = pos + 1 /\ kind' = kind /\ idle' = idle /\ safe' = safe
        BY <3>3 DEF Continue
      <4>2. pos' \in 1 .. FrameLength
        BY <3>1, <4>1
      <4>3. kind' \in Kinds /\ idle' \in 0 .. Long /\ safe' \in BOOLEAN
        BY <4>1
      <4> QED BY <2>1, <4>2, <4>3
    <3>4. CASE Silence
      BY <2>1, <3>1, <3>4 DEF Silence
    <3> QED BY <1>1, <3>2, <3>3, <3>4 DEF Next
  <2> QED BY <2>1, <2>2 DEF ReceiverInv
<1>2. CASE UNCHANGED vars
  BY <1>2 DEF vars, receiver, ReceiverInv, ReceiverTypes, LineTypes, QuietInv,
     QuietPlaces, QuietRequest
<1> QED BY <1>1, <1>2

\* They hold after a reset.
LEMMA InitReceiver == Init => ReceiverInv
<1> SUFFICES ASSUME Init PROVE ReceiverInv
  OBVIOUS
<1>1. NoRequest \in [new : BOOLEAN, no : Byte, type : Byte] /\ ~NoRequest.new
  BY DEF NoRequest, Byte
<1>2. ReceiverTypes
  <2>1. s_rx2tx \in [new : BOOLEAN, no : Byte, type : Byte] /\ rx2tx \in [new : BOOLEAN, no : Byte, type : Byte]
    BY <1>1 DEF Init
  <2>2. /\ stm \in States /\ by_frame_cnt \in 0 .. CntMod - 1
        /\ correct_prmb_cnt \in 0 .. 7 /\ correct_mac_cnt \in 0 .. 5
    BY DEF Init, States
  <2>3. port_number_correct \in BOOLEAN /\ port_error \in BOOLEAN
    BY DEF Init
  <2> QED BY <2>1, <2>2, <2>3 DEF ReceiverTypes
<1>3. LineTypes
  BY DEF Init, LineTypes, Kinds, FrameLength, Long, Body, Apart
<1>4. QuietInv
  BY <1>1 DEF Init, QuietInv, QuietPlaces, QuietRequest
<1> QED BY <1>2, <1>3, <1>4 DEF ReceiverInv

\* The types, and the least distance from the last pulse in each state.
THEOREM ReceiverInvariant == Spec => []ReceiverInv
<1>1. ReceiverInv /\ [Next]_vars => ReceiverInv'
  BY StepKeepsReceiver
<1> QED BY <1>1, InitReceiver, PTL DEF Spec

\* Two pulses to send_udp are never nearer than the shortest frame, also when
\* frames break off (udp_rx.vhd:129, 196, 213).
THEOREM PulsesAlwaysApart == Spec => PulsesApart
<1>1. ReceiverInv /\ [Next]_vars => [rx2tx'.new => quiet >= Apart - 1]_vars
  BY StepKeepsReceiver
<1> QED BY <1>1, ReceiverInvariant, PTL DEF Spec, PulsesApart

-----------------------------------------------------------------------------
(***************************************************************************)
(* A safe frame is heard.  It takes a gap of three bytes: a frame that     *)
(* breaks off behind its tag is heard in the third byte of the silence.    *)
(* Ethernet's gap is twelve.                                               *)
(***************************************************************************)
AtRest == stm = "WAITING" /\ by_frame_cnt = 0 /\ ~s_rx2tx.new

\* So many bytes of silence bring the receiver to rest, at most.
ToRest ==
  CASE stm = "WAITING" -> IF AtRest THEN 0 ELSE 1
    [] stm \in {"GET_PREAMBULE", "GETING_ETHER1", "GET_REQ_PROPERTY", "GET_REG_TYPE"} -> 2
    [] stm = "GETING_MAC1" -> 14 - correct_mac_cnt
    [] stm = "GETING_MAC2" -> 8 - correct_mac_cnt
    [] stm = "GETING_ETHER2" -> CntMod - 3
    [] stm = "GETING_UDPHEADER" ->
         IF port_error THEN 2
         ELSE IF by_frame_cnt < 44 THEN 46 - by_frame_cnt
         ELSE IF by_frame_cnt < 50 THEN 52 - by_frame_cnt
         ELSE CntMod + 46 - by_frame_cnt
    [] stm = "GET_REQ_NUMBER" -> 3

RestInv == ToRest <= Long - idle

Tagged == kind \in {"status", "data"}

\* The rest of a frame passes by; its number and its checksum may look like the
\* beginning of a preamble, but not for long.
Ignoring ==
  \/ stm = "WAITING"
  \/ stm = "GET_PREAMBULE" /\ pos >= 52 /\ correct_prmb_cnt <= pos - 51

\* The state of a receiver that saw the frame begin.
Follows ==
  /\ pos \in 1 .. 7 => stm = "GET_PREAMBULE" /\ correct_prmb_cnt = pos
  /\ pos \in 8 .. 13 => stm = "GETING_MAC1" /\ correct_mac_cnt = pos - 8
  /\ pos \in 14 .. 19 => stm = "GETING_MAC2" /\ correct_mac_cnt = pos - 14
  /\ pos = 20 => stm = "GETING_ETHER1"
  /\ pos = 21 => stm = "GETING_ETHER2"
  /\ pos \in 22 .. 44 /\ kind # "arp" => stm = "GETING_UDPHEADER"
  /\ pos \in 45 .. 49 /\ kind \notin {"arp", "port"} => stm = "GETING_UDPHEADER"
  /\ pos = 50 /\ kind \notin {"arp", "port"} => stm = "GET_REQ_PROPERTY"
  /\ pos = 51 /\ Tagged => stm = "GET_REQ_NUMBER"
  /\ pos = 52 /\ Tagged => stm = "GET_REG_TYPE"
  /\ pos >= 53 \/ (pos >= 22 /\ kind = "arp") \/ (pos >= 45 /\ kind = "port")
       \/ (pos >= 51 /\ kind = "untagged") => Ignoring
  /\ pos <= 53 => by_frame_cnt = pos

PortFits ==
  /\ pos <= 43 => ~port_error
  /\ pos = 43 /\ kind # "arp" => (port_number_correct <=> kind # "port")
  /\ pos \in 44 .. 49 /\ kind \notin {"arp", "port"} => ~port_error
  /\ pos = 44 /\ kind = "port" => port_error

\* What has been heard of it, and what is about to be.
HeardFits ==
  /\ s_rx2tx.new <=> pos = 53 /\ Tagged
  /\ pos \in {52, 53} /\ Tagged => s_rx2tx.no = Number
  /\ pos = 53 /\ Tagged => s_rx2tx.type = IF kind = "status" THEN 0 ELSE 1
  /\ heard = IF pos <= 53 THEN <<>> ELSE Said

\* In the silence after it.
Harmless == stm \notin {"GET_REQ_NUMBER", "GET_REG_TYPE"} /\ ~s_rx2tx.new
AfterTag ==
  /\ idle = 1 => stm = "GET_REG_TYPE" /\ s_rx2tx.no = 0 /\ ~s_rx2tx.new /\ heard = <<>>
  /\ idle = 2 =>
       stm = "WAITING" /\ s_rx2tx.new /\ s_rx2tx.no = 0 /\ s_rx2tx.type = 0 /\ heard = <<>>
  /\ idle >= 3 => Harmless /\ heard = Said
AfterNumber ==
  /\ idle = 1 =>
       stm = "WAITING" /\ s_rx2tx.new /\ s_rx2tx.no = Number /\ s_rx2tx.type = 0 /\ heard = <<>>
  /\ idle >= 2 => Harmless /\ heard = Said
SilenceFits ==
  /\ pos = 51 /\ Tagged => AfterTag
  /\ pos = 52 /\ Tagged => AfterNumber
  /\ ~(pos \in {51, 52} /\ Tagged) => Harmless /\ heard = Said
  /\ pos = FrameLength => stm = "WAITING" /\ (idle >= 2 => by_frame_cnt = 0)

SafeInv ==
  /\ RestInv
  /\ safe /\ idle = 0 => Follows /\ PortFits /\ HeardFits
  /\ safe /\ idle > 0 => SilenceFits

\* The rank is bounded, and at 0 the receiver is at rest.
LEMMA ToRestBound ==
  ASSUME ReceiverTypes
  PROVE  ToRest \in Int /\ ToRest <= CntMod + 46 /\ (ToRest <= 0 => AtRest)
BY DEF ReceiverTypes, States, ToRest, AtRest

\* Which action a state takes.
LEMMA Dispatch ==
  ASSUME NEW dv, NEW data, Receive(dv, data)
  PROVE  /\ stm = "WAITING" => Waiting(dv, data)
         /\ stm = "GET_PREAMBULE" => Preambule(data)
         /\ stm \in {"GETING_MAC1", "GETING_MAC2"} => Mac
         /\ stm \in {"GETING_ETHER1", "GETING_ETHER2"} => Ether(data)
         /\ stm = "GETING_UDPHEADER" => UdpHeader(data)
         /\ stm = "GET_REQ_PROPERTY" => ReqProperty(data)
         /\ stm = "GET_REQ_NUMBER" => ReqNumber(data)
         /\ stm = "GET_REG_TYPE" => RegType(data)
BY DEF Receive, Waiting, Preambule, Mac, Ether, UdpHeader, ReqProperty, ReqNumber, RegType

\* The counter goes on by one, and round at its end.
LEMMA CountsOn ==
  ASSUME NEW b \in 0 .. CntMod - 1
  PROVE  (b + 1) % CntMod = IF b = CntMod - 1 THEN 0 ELSE b + 1
OBVIOUS

\* Silence is no byte of a preamble.
LEMMA NoZeroInPreamble == \A p \in 1 .. 8 : pre_mem[p] # 0 /\ (pre_mem[p] = 85 <=> p < 8)
BY DEF pre_mem

\* Silence takes the receiver nearer to rest.
LEMMA SilenceRests ==
  ASSUME ReceiverTypes, Receive(FALSE, 0)
  PROVE  ToRest' <= ToRest - 1 \/ (ToRest <= 1 /\ ToRest' = 0)
<1> USE DEF ReceiverTypes
<1>d. /\ stm = "WAITING" => Waiting(FALSE, 0)
      /\ stm = "GET_PREAMBULE" => Preambule(0)
      /\ stm \in {"GETING_MAC1", "GETING_MAC2"} => Mac
      /\ stm \in {"GETING_ETHER1", "GETING_ETHER2"} => Ether(0)
      /\ stm = "GETING_UDPHEADER" => UdpHeader(0)
      /\ stm = "GET_REQ_PROPERTY" => ReqProperty(0)
      /\ stm = "GET_REQ_NUMBER" => ReqNumber(0)
      /\ stm = "GET_REG_TYPE" => RegType(0)
  BY Dispatch
<1>a. s_rx2tx' \in [new : BOOLEAN, no : Byte, type : Byte]
  <2>1. 0 \in Byte
    BY DEF Byte
  <2> QED BY <2>1, RequestStep
<1>1. CASE stm = "WAITING"
  <2>1. stm' = "WAITING" /\ by_frame_cnt' = 0 /\ s_rx2tx' = [s_rx2tx EXCEPT !.new = FALSE]
    BY <1>d, <1>1 DEF Waiting
  <2>2. ~s_rx2tx'.new
    BY <2>1
  <2>3. ToRest' = 0
    BY <2>1, <2>2 DEF ToRest, AtRest
  <2>4. ToRest <= 1
    BY <1>1 DEF ToRest
  <2> QED BY <2>3, <2>4
<1>b. stm' = "WAITING" => ToRest' <= 1
  BY DEF ToRest
<1>2. CASE stm \in {"GET_PREAMBULE", "GETING_ETHER1", "GET_REQ_PROPERTY", "GET_REG_TYPE"}
  <2>1. stm' = "WAITING"
    <3>1. CASE stm = "GET_PREAMBULE"
      <4>1. correct_prmb_cnt + 1 \in 1 .. 8
        OBVIOUS
      <4> QED BY <1>d, <3>1, <4>1, NoZeroInPreamble DEF Preambule
    <3>2. CASE stm = "GETING_ETHER1"
      BY <1>d, <3>2 DEF Ether
    <3>3. CASE stm = "GET_REQ_PROPERTY"
      BY <1>d, <3>3 DEF ReqProperty
    <3>4. CASE stm = "GET_REG_TYPE"
      BY <1>d, <3>4 DEF RegType
    <3> QED BY <1>2, <3>1, <3>2, <3>3, <3>4
  <2>2. ToRest = 2
    BY <1>2 DEF ToRest
  <2> QED BY <1>b, <2>1, <2>2
<1>3. CASE stm \in {"GETING_MAC1", "GETING_MAC2"}
  BY <1>d, <1>3 DEF Mac, ToRest
<1>4. CASE stm = "GETING_ETHER2"
  <2>1. stm' = "GETING_UDPHEADER" /\ by_frame_cnt' \in 0 .. CntMod - 1
    BY <1>d, <1>4 DEF Ether, Counted
  <2>2. ToRest' <= CntMod - 4
    BY <2>1 DEF ToRest
  <2>3. ToRest = CntMod - 3
    BY <1>4 DEF ToRest
  <2>4. ToRest' \in Int
    BY <2>1 DEF ToRest
  <2> QED BY <2>2, <2>3, <2>4
<1>5. CASE stm = "GETING_UDPHEADER"
  <2>1. UdpHeader(0) /\ port_number[2] = 206
    BY <1>d, <1>5 DEF port_number
  <2>2. by_frame_cnt' = IF by_frame_cnt = CntMod - 1 THEN 0 ELSE by_frame_cnt + 1
    BY <2>1, CountsOn DEF UdpHeader, Counted
  <2>3. CASE port_error
    <3>1. stm' = "WAITING" /\ ToRest = 2
      BY <1>5, <2>1, <2>3 DEF UdpHeader, ToRest
    <3> QED BY <1>b, <3>1
  <2>4. CASE ~port_error /\ by_frame_cnt = 43
    <3>a. port_error'
      <4>1. port_error' = ~(0 = port_number[2] /\ port_number_correct)
        BY <2>1, <2>4 DEF UdpHeader
      <4>2. 0 # port_number[2]
        BY <2>1
      <4> QED BY <4>1, <4>2, Zenon
    <3>1. stm' = "GETING_UDPHEADER" /\ port_error' /\ ToRest = 3
      BY <1>5, <2>1, <2>4, <3>a DEF UdpHeader, ToRest
    <3>2. ToRest' = 2
      BY <3>1 DEF ToRest
    <3> QED BY <3>1, <3>2
  <2>5. CASE ~port_error /\ by_frame_cnt = 49
    <3>1. stm' = "GET_REQ_PROPERTY" /\ ToRest = 3
      BY <1>5, <2>1, <2>5 DEF UdpHeader, ToRest
    <3>2. ToRest' = 2
      BY <3>1 DEF ToRest
    <3> QED BY <3>1, <3>2
  <2>6. CASE ~port_error /\ by_frame_cnt \notin {43, 49}
    <3>1. stm' = "GETING_UDPHEADER" /\ ~port_error'
      BY <2>1, <2>6 DEF UdpHeader
    <3> QED BY <1>5, <2>2, <2>6, <3>1 DEF ToRest
  <2> QED BY <2>3, <2>4, <2>5, <2>6
<1>6. CASE stm = "GET_REQ_NUMBER"
  BY <1>d, <1>6 DEF ReqNumber, ToRest
<1> QED BY <1>1, <1>2, <1>3, <1>4, <1>5, <1>6 DEF States

\* A step keeps the rank below the silence that is missing.
LEMMA StepKeepsRest ==
  ASSUME ReceiverInv, ReceiverInv', RestInv, Next
  PROVE  RestInv'
<1>1. ToRest \in Int /\ ToRest' \in Int /\ ToRest' <= CntMod + 46
  BY ToRestBound DEF ReceiverInv, ReceiverTypes, States, ToRest, AtRest
<1>2. idle \in 0 .. Long /\ Long = CntMod + 53
  BY DEF ReceiverInv, LineTypes, Long, Body
<1>3. CASE idle' = 0
  BY <1>1, <1>2, <1>3 DEF RestInv, Long, Body
<1>4. CASE Silence
  <2>1. ToRest' <= ToRest - 1 \/ (ToRest <= 1 /\ ToRest' = 0)
    BY <1>4, SilenceRests DEF Silence, ReceiverInv
  <2>2. idle' = IF idle < Long THEN idle + 1 ELSE idle
    BY <1>4 DEF Silence
  <2> QED BY <1>1, <1>2, <2>1, <2>2 DEF RestInv, Long, Body
<1> QED BY <1>3, <1>4 DEF Next, Begin, Continue

\* What has been heard with what a byte adds.
LEMMA Adding ==
  ASSUME NEW x
  PROVE  <<>> \o <<>> = <<>> /\ <<>> \o <<x>> = <<x>> /\ <<x>> \o <<>> = <<x>>
OBVIOUS

\* The pulse of a step is the request that was raised.
LEMMA PulseIs ==
  ASSUME NEW dv, NEW data, Receive(dv, data)
  PROVE  /\ ~s_rx2tx.new => Pulse = <<>>
         /\ s_rx2tx.new => Pulse = <<[no |-> s_rx2tx.no, type |-> s_rx2tx.type]>>
BY DEF Receive, Pulse

\* Without a pulse nothing is heard.
LEMMA NothingAdded ==
  ASSUME NEW dv, NEW data, Receive(dv, data), ~s_rx2tx.new, heard' = heard \o Pulse,
         heard = <<>> \/ heard = Said
  PROVE  heard' = heard
<1>1. Pulse = <<>>
  BY PulseIs
<1>2. heard = <<>> \/ \E x : heard = <<x>>
  BY DEF Said
<1> QED BY <1>1, <1>2, Adding, Zenon

\* A frame begins at rest.
LEMMA BeginIsSafe ==
  ASSUME MinGap >= 3, ReceiverInv, SafeInv, Begin
  PROVE  safe' /\ idle' = 0 => Follows' /\ PortFits' /\ HeardFits'
<1> SUFFICES ASSUME safe' PROVE Follows' /\ PortFits' /\ HeardFits'
  OBVIOUS
<1>1. idle \in 3 .. Long /\ Long \in Nat
  BY DEF Begin, ReceiverInv, LineTypes, Long, Body
<1>2. AtRest
  <2>1. CASE idle = Long
    <3>1. ToRest <= 0
      BY <1>1, <2>1 DEF SafeInv, RestInv
    <3> QED BY <3>1, ToRestBound DEF ReceiverInv
  <2>2. CASE safe /\ pos = FrameLength
    BY <1>1, <2>2 DEF SafeInv, SilenceFits, Harmless, AtRest, FrameLength
  <2> QED BY <2>1, <2>2 DEF Begin, Settled
<1>3. Waiting(TRUE, pre_mem[1]) /\ Receive(TRUE, pre_mem[1])
  BY <1>2, Dispatch DEF Begin, AtRest
<1>4. /\ stm' = "GET_PREAMBULE" /\ correct_prmb_cnt' = 1 /\ ~port_error'
      /\ s_rx2tx' = [s_rx2tx EXCEPT !.new = FALSE] /\ by_frame_cnt' = (by_frame_cnt + 1) % CntMod
  BY <1>3 DEF Waiting, Counted
<1>5. by_frame_cnt' = 1
  BY <1>2, <1>4, CountsOn DEF AtRest
<1>6. pos' = 1
  BY DEF Begin
<1>7. ~s_rx2tx'.new
  BY <1>4, RequestRecord DEF ReceiverInv, ReceiverTypes
<1>8. heard' = <<>>
  BY <1>2, <1>3, PulseIs DEF Begin, AtRest
<1> QED BY <1>4, <1>5, <1>6, <1>7, <1>8 DEF Follows, PortFits, HeardFits

\* The receiver follows the frame byte by byte.
LEMMA ContinueFollows ==
  ASSUME ReceiverInv, ReceiverInv', SafeInv, safe, idle = 0, Continue
  PROVE  Follows' /\ PortFits'
<1> PICK data \in IF pos < Body THEN {Frames[kind][pos + 1]} ELSE CheckByte : Receive(TRUE, data)
  BY DEF Continue
<1>d. /\ stm = "WAITING" => Waiting(TRUE, data)
      /\ stm = "GET_PREAMBULE" => Preambule(data)
      /\ stm \in {"GETING_MAC1", "GETING_MAC2"} => Mac
      /\ stm \in {"GETING_ETHER1", "GETING_ETHER2"} => Ether(data)
      /\ stm = "GETING_UDPHEADER" => UdpHeader(data)
      /\ stm = "GET_REQ_PROPERTY" => ReqProperty(data)
      /\ stm = "GET_REQ_NUMBER" => ReqNumber(data)
      /\ stm = "GET_REG_TYPE" => RegType(data)
  BY Dispatch
<1>1. /\ pos' = pos + 1 /\ kind' = kind /\ kind \in Kinds /\ pos \in 1 .. 56
      /\ Follows /\ PortFits
  BY DEF Continue, ReceiverInv, LineTypes, SafeInv, FrameLength
<1>2. pos <= 52 => data = Frames[kind][pos + 1]
  BY <1>1 DEF Body
<1>b. /\ \A p \in 1 .. 8 : Frames[kind][p] = pre_mem[p]
      /\ Frames[kind][21] = 8 /\ Frames[kind][22] = (IF kind = "arp" THEN 6 ELSE 0)
      /\ Frames[kind][43] = (IF kind = "port" THEN 227 ELSE 226)
      /\ kind # "port" => Frames[kind][44] = 206
      /\ Frames[kind][51] = (IF kind = "untagged" THEN 165 ELSE 90)
      /\ \A p \in 23 .. 50 : Frames[kind][p] # 85
  BY <1>1, FrameBytes
<1>t. ReceiverTypes /\ correct_mac_cnt \in 0 .. 5 /\ correct_prmb_cnt \in 0 .. 7
  BY DEF ReceiverInv, ReceiverTypes
\* The place in the frame is counted.
<1>3. by_frame_cnt' = (by_frame_cnt + 1) % CntMod
  <2>1. stm \in States
    BY <1>t DEF ReceiverTypes
  <2> QED BY <1>d, <2>1 DEF States, Waiting, Preambule, Mac, Ether, UdpHeader, ReqProperty, ReqNumber,
             RegType, Counted
<1>4. pos' <= 53 => by_frame_cnt' = pos'
  <2> SUFFICES ASSUME pos <= 52 PROVE by_frame_cnt' = pos + 1
    BY <1>1
  <2>1. by_frame_cnt = pos /\ pos \in 0 .. CntMod - 1 /\ pos # CntMod - 1
    BY <1>1 DEF Follows
  <2> QED BY <1>3, <2>1, CountsOn
<1>p. /\ stm = "WAITING" => ~port_error'
      /\ stm \notin {"WAITING", "GETING_UDPHEADER"} =>
           port_error' = port_error /\ port_number_correct' = port_number_correct
  BY <1>d, <1>t DEF ReceiverTypes, States, Waiting, Preambule, Mac, Ether, ReqProperty, ReqNumber, RegType,
     portVars
<1> DEFINE Goal == Follows' /\ PortFits'
<1>5. CASE pos \in 1 .. 6
  <2>1. stm = "GET_PREAMBULE" /\ correct_prmb_cnt = pos /\ data = pre_mem[pos + 1]
    BY <1>1, <1>2, <1>b, <1>5 DEF Follows
  <2>2. stm' = "GET_PREAMBULE" /\ correct_prmb_cnt' = pos + 1
    BY <1>d, <1>5, <2>1, PreambleLength DEF Preambule
  <2> QED BY <1>1, <1>4, <1>5, <1>p, <2>1, <2>2 DEF Follows, PortFits
<1>6. CASE pos = 7
  <2>1. stm = "GET_PREAMBULE" /\ correct_prmb_cnt = 7 /\ data = pre_mem[8]
    BY <1>1, <1>2, <1>b, <1>6 DEF Follows
  <2>2. correct_mac_cnt = 0
    BY <2>1 DEF ReceiverInv, QuietInv, QuietPlaces
  <2>3. stm' = "GETING_MAC1" /\ correct_mac_cnt' = 0
    BY <1>d, <1>6, <2>1, <2>2, PreambleLength DEF Preambule
  <2> QED BY <1>1, <1>4, <1>6, <1>p, <2>1, <2>3 DEF Follows, PortFits
<1>7. CASE pos \in 8 .. 19
  <2>1. stm \in {"GETING_MAC1", "GETING_MAC2"} /\ Mac
    BY <1>1, <1>d, <1>7 DEF Follows
  <2> QED BY <1>1, <1>4, <1>7, <1>p, <2>1 DEF Follows, PortFits, Mac
<1>8. CASE pos \in {20, 21}
  <2>1. stm \in {"GETING_ETHER1", "GETING_ETHER2"} /\ Ether(data)
    BY <1>1, <1>d, <1>8 DEF Follows
  <2> QED BY <1>1, <1>2, <1>4, <1>8, <1>b, <1>p, <2>1 DEF Follows, PortFits, Ether, Ignoring
<1> DEFINE Gone == \/ pos >= 53 \/ (pos >= 22 /\ kind = "arp") \/ (pos >= 45 /\ kind = "port")
                   \/ (pos >= 51 /\ kind = "untagged")
\* Nothing it ignores is long enough for a preamble.
<1>9. CASE Gone
  <2>1. Ignoring
    BY <1>1, <1>9 DEF Follows
  <2>2. Ignoring'
    <3>1. CASE stm = "WAITING"
      <4>1. data = 85 => pos >= 51
        BY <1>1, <1>2, <1>b, <1>9
      <4> QED BY <1>1, <1>d, <3>1, <4>1 DEF Waiting, Ignoring, pre_mem
    <3>2. CASE stm = "GET_PREAMBULE"
      BY <1>1, <1>d, <1>t, <2>1, <3>2, PreambleLength DEF Preambule, Ignoring
    <3> QED BY <2>1, <3>1, <3>2 DEF Ignoring
  <2>3. Follows'
    BY <1>1, <1>4, <1>9, <2>2 DEF Follows, Tagged
  <2>4. pos <= 51 => ~port_error'
    BY <1>1, <1>p, <2>1 DEF Ignoring
  <2>5. PortFits'
    BY <1>1, <1>9, <2>4 DEF PortFits
  <2> QED BY <2>3, <2>5
<1>10. CASE pos \in 22 .. 49 /\ ~Gone
  <2>1. stm = "GETING_UDPHEADER" /\ by_frame_cnt = pos /\ UdpHeader(data)
    BY <1>1, <1>d, <1>10 DEF Follows
  <2>2. port_number[1] = 226 /\ port_number[2] = 206
    BY DEF port_number
  <2>3. stm' = IF port_error THEN "WAITING" ELSE IF pos = 49 THEN "GET_REQ_PROPERTY" ELSE stm
    BY <2>1 DEF UdpHeader
  <2>4. port_error => pos = 44 /\ kind = "port"
    BY <1>1, <1>10 DEF PortFits
  <2>5. pos = 44 /\ kind = "port" => port_error
    BY <1>1 DEF PortFits
  <2>6. Follows'
    BY <1>1, <1>4, <1>10, <2>1, <2>3, <2>4, <2>5 DEF Follows, Ignoring, Tagged
  <2>7. pos # 43 => port_error' = port_error
    BY <2>1 DEF UdpHeader
  <2>8. pos = 42 => (port_number_correct' <=> kind # "port")
    <3>1. pos = 42 => port_number_correct' = (data = port_number[1])
      BY <2>1 DEF UdpHeader
    <3>2. pos = 42 => (data = 226 <=> kind # "port")
      BY <1>2, <1>b
    <3> QED BY <2>2, <3>1, <3>2
  <2>9. pos = 43 => (port_error' <=> kind = "port")
    <3>1. pos = 43 => port_error' = ~(data = port_number[2] /\ port_number_correct)
      BY <2>1 DEF UdpHeader
    <3>2. pos = 43 => (port_number_correct <=> kind # "port")
      BY <1>1, <1>10 DEF PortFits
    <3>3. pos = 43 /\ kind # "port" => data = port_number[2]
      BY <1>2, <1>b, <2>2
    <3> QED BY <3>1, <3>2, <3>3, Zenon
  <2>10. PortFits'
    BY <1>1, <1>10, <2>4, <2>7, <2>8, <2>9 DEF PortFits
  <2> QED BY <2>6, <2>10
<1>11. CASE pos = 50 /\ ~Gone
  <2>1. stm = "GET_REQ_PROPERTY" /\ ReqProperty(data)
    BY <1>1, <1>d, <1>11 DEF Follows
  <2> QED BY <1>1, <1>2, <1>4, <1>11, <1>b, <2>1 DEF Follows, PortFits, ReqProperty, Ignoring, Kinds, Tagged
<1>12. CASE pos \in {51, 52} /\ ~Gone
  <2>1. Tagged
    BY <1>1, <1>12 DEF Kinds, Tagged
  <2>2. stm' = IF pos = 51 THEN "GET_REG_TYPE" ELSE "WAITING"
    BY <1>1, <1>d, <1>12, <2>1 DEF Follows, ReqNumber, RegType
  <2> QED BY <1>1, <1>4, <1>12, <2>1, <2>2 DEF Follows, PortFits, Ignoring, Tagged
<1> QED BY <1>1, <1>5, <1>6, <1>7, <1>8, <1>9, <1>10, <1>11, <1>12

\* Where the receiver is about to take the type.
LEMMA TypeIsNext ==
  ASSUME ReceiverInv, SafeInv, safe, idle = 0, Next
  PROVE  stm = "GET_REG_TYPE" <=> pos = 52 /\ Tagged
BY DEF ReceiverInv, LineTypes, SafeInv, Follows, Ignoring, Kinds, Tagged, FrameLength

\* A byte of a followed frame keeps what was heard of it.
LEMMA ContinueHears ==
  ASSUME ReceiverInv, ReceiverInv', SafeInv, safe, idle = 0, Continue
  PROVE  HeardFits'
<1> PICK data \in IF pos < Body THEN {Frames[kind][pos + 1]} ELSE CheckByte : Receive(TRUE, data)
  BY DEF Continue
<1>1. /\ pos' = pos + 1 /\ kind' = kind /\ kind \in Kinds /\ pos \in 1 .. 56
      /\ Follows /\ HeardFits /\ heard' = heard \o Pulse
  BY DEF Continue, ReceiverInv, LineTypes, SafeInv, FrameLength
<1>k. kind \in Kinds /\ pos \in 1 .. 56
  BY <1>1
<1>f. /\ \A p \in 1 .. Body : Frames[kind][p] \in Byte
      /\ Frames[kind][52] = Number
      /\ Frames[kind][53] = (IF kind = "status" THEN 0 ELSE 1)
  BY <1>k, FrameBytes
<1>g. pos <= 52 => data = Frames[kind][pos + 1]
  BY <1>k DEF Body
<1>2. stm = "GET_REG_TYPE" <=> pos = 52 /\ Tagged
  BY TypeIsNext DEF Next
<1>r. ReceiverTypes /\ s_rx2tx \in [new : BOOLEAN, no : Byte, type : Byte]
  BY DEF ReceiverInv, ReceiverTypes
<1>b. data \in Byte
  <2>1. CASE pos < Body
    <3>1. pos + 1 \in 1 .. Body /\ pos <= 52
      BY <1>1, <2>1 DEF Body
    <3> QED BY <1>f, <1>g, <3>1
  <2>2. CASE ~(pos < Body)
    BY <2>2 DEF Byte
  <2> QED BY <2>1, <2>2
<1>3. pos = 52 /\ Tagged =>
        /\ s_rx2tx'.new /\ s_rx2tx'.no = Number
        /\ s_rx2tx'.type = IF kind = "status" THEN 0 ELSE 1
  <2> SUFFICES ASSUME pos = 52, Tagged
               PROVE  /\ s_rx2tx'.new /\ s_rx2tx'.no = Number
                      /\ s_rx2tx'.type = IF kind = "status" THEN 0 ELSE 1
    OBVIOUS
  <2>1. s_rx2tx' = [s_rx2tx EXCEPT !.type = data, !.new = TRUE]
    BY <1>2, Dispatch DEF RegType
  <2>2. s_rx2tx.no = Number
    BY <1>1 DEF HeardFits
  <2>3. data = IF kind = "status" THEN 0 ELSE 1
    BY <1>f, <1>g
  <2> QED BY <1>r, <1>b, <2>1, <2>2, <2>3, RequestRecord
<1>4. ~(pos = 52 /\ Tagged) => ~s_rx2tx'.new
  <2>1. s_rx2tx'.new => stm = "GET_REG_TYPE" \/ (s_rx2tx.new /\ stm # "WAITING")
    BY <1>r, <1>b, RequestStep
  <2>2. s_rx2tx.new => stm = "WAITING"
    BY DEF ReceiverInv, QuietInv, QuietRequest
  <2> QED BY <1>2, <2>1, <2>2
<1>5. pos = 51 /\ Tagged => s_rx2tx'.no = Number
  <2> SUFFICES ASSUME pos = 51, Tagged PROVE s_rx2tx'.no = Number
    OBVIOUS
  <2>1. stm = "GET_REQ_NUMBER"
    BY <1>1 DEF Follows
  <2>2. s_rx2tx' = [s_rx2tx EXCEPT !.no = data]
    BY <2>1, Dispatch DEF ReqNumber
  <2>3. data = Number
    BY <1>f, <1>g
  <2> QED BY <1>r, <1>b, <2>2, <2>3, RequestRecord
<1>6. heard' = IF pos' <= 53 THEN <<>> ELSE Said'
  <2>1. CASE pos = 53 /\ Tagged
    <3>1. heard = <<>> /\ s_rx2tx.new /\ s_rx2tx.no = Number
          /\ s_rx2tx.type = IF kind = "status" THEN 0 ELSE 1
      BY <1>1, <2>1 DEF HeardFits
    <3>2. heard' = <<[no |-> Number, type |-> IF kind = "status" THEN 0 ELSE 1]>>
      <4>1. Pulse = <<[no |-> s_rx2tx.no, type |-> s_rx2tx.type]>>
        BY <3>1, PulseIs
      <4> QED BY <1>1, <3>1, <4>1, Adding
    <3>3. Said' = <<[no |-> Number, type |-> IF kind = "status" THEN 0 ELSE 1]>>
      BY <1>1, <2>1 DEF Said, Tagged, TagAt, Body
    <3> QED BY <1>1, <2>1, <3>2, <3>3
  <2>2. CASE ~(pos = 53 /\ Tagged)
    <3>1. ~s_rx2tx.new /\ (heard = <<>> \/ heard = Said)
      BY <1>1, <2>2 DEF HeardFits
    <3>2. heard' = heard
      BY <1>1, <3>1, NothingAdded
    <3>3. CASE pos <= 52
      BY <1>1, <3>2, <3>3 DEF HeardFits
    <3>4. CASE pos = 53
      <4>1. heard = <<>> /\ Said' = <<>>
        BY <1>1, <2>2, <3>4 DEF HeardFits, Said, Tagged, Kinds
      <4> QED BY <1>1, <3>2, <3>4, <4>1
    <3>5. CASE pos >= 54
      <4>1. heard = Said /\ Said' = Said
        BY <1>1, <3>5 DEF HeardFits, Said, TagAt, Body
      <4> QED BY <1>1, <3>2, <3>5, <4>1
    <3> QED BY <1>1, <3>3, <3>4, <3>5
  <2> QED BY <2>1, <2>2
<1> QED BY <1>1, <1>3, <1>4, <1>5, <1>6 DEF HeardFits, Tagged

\* In the silence no request is taken up, and the one being taken is finished.
LEMMA SilenceIsHarmless ==
  ASSUME ReceiverInv, Harmless, Receive(FALSE, 0)
  PROVE  Harmless'
<1>1. ReceiverTypes /\ 0 \in Byte
  BY DEF ReceiverInv, Byte
<1>2. ~s_rx2tx'.new
  BY <1>1, RequestStep DEF Harmless
<1>3. stm' \notin {"GET_REQ_NUMBER", "GET_REG_TYPE"}
  <2>1. stm \in States \ {"GET_REQ_NUMBER", "GET_REG_TYPE"}
    BY <1>1 DEF ReceiverTypes, Harmless
  <2>2. CASE stm = "GET_REQ_PROPERTY"
    <3>1. ReqProperty(0)
      BY <2>2, Dispatch
    <3> QED BY <3>1 DEF ReqProperty
  <2>3. CASE stm # "GET_REQ_PROPERTY"
    BY <2>1, <2>3, Dispatch DEF States, Waiting, Preambule, Mac, Ether, UdpHeader
  <2> QED BY <2>2, <2>3
<1> QED BY <1>2, <1>3 DEF Harmless

\* What a byte of silence does in the states a frame may end in.
LEMMA SilenceStep ==
  ASSUME ReceiverInv, Receive(FALSE, 0)
  PROVE  /\ s_rx2tx.new \/ stm = "WAITING" =>
              stm' = "WAITING" /\ by_frame_cnt' = 0 /\ ~s_rx2tx'.new
         /\ stm = "GET_PREAMBULE" => stm' = "WAITING" /\ s_rx2tx' = s_rx2tx
         /\ stm = "GET_REQ_NUMBER" =>
              /\ stm' = "GET_REG_TYPE" /\ s_rx2tx'.no = 0
              /\ s_rx2tx'.new = s_rx2tx.new
         /\ stm = "GET_REG_TYPE" =>
              /\ stm' = "WAITING" /\ s_rx2tx'.new
              /\ s_rx2tx'.no = s_rx2tx.no /\ s_rx2tx'.type = 0
<1>1. s_rx2tx \in [new : BOOLEAN, no : Byte, type : Byte] /\ 0 \in Byte
  BY DEF ReceiverInv, ReceiverTypes, Byte
<1>2. s_rx2tx.new => stm = "WAITING"
  BY DEF ReceiverInv, QuietInv, QuietRequest
<1>3. CASE stm = "WAITING"
  <2>1. stm' = "WAITING" /\ by_frame_cnt' = 0 /\ s_rx2tx' = [s_rx2tx EXCEPT !.new = FALSE]
    BY <1>3, Dispatch DEF Waiting
  <2> QED BY <1>1, <1>3, <2>1, RequestRecord
<1>4. CASE stm = "GET_PREAMBULE"
  <2>1. correct_prmb_cnt + 1 \in 1 .. 8
    BY DEF ReceiverInv, ReceiverTypes
  <2>2. Preambule(0)
    BY <1>4, Dispatch
  <2> QED BY <1>2, <1>4, <2>1, <2>2, NoZeroInPreamble DEF Preambule
<1>5. CASE stm = "GET_REQ_NUMBER"
  <2>1. stm' = "GET_REG_TYPE" /\ s_rx2tx' = [s_rx2tx EXCEPT !.no = 0]
    BY <1>5, Dispatch DEF ReqNumber
  <2>2. s_rx2tx'.no = 0
    BY <1>1, <2>1, RequestRecord
  <2>3. s_rx2tx'.new = s_rx2tx.new
    BY <1>1, <2>1
  <2> QED BY <1>2, <1>5, <2>1, <2>2, <2>3
<1>6. CASE stm = "GET_REG_TYPE"
  <2>1. stm' = "WAITING" /\ s_rx2tx' = [s_rx2tx EXCEPT !.type = 0, !.new = TRUE]
    BY <1>6, Dispatch DEF RegType
  <2> QED BY <1>1, <1>2, <1>6, <2>1, RequestRecord
<1> QED BY <1>2, <1>3, <1>4, <1>5, <1>6

\* The first silent byte after a frame that was followed.
LEMMA SilenceBegins ==
  ASSUME ReceiverInv, SafeInv, safe, idle = 0, Silence
  PROVE  SilenceFits'
<1>1. /\ Receive(FALSE, 0) /\ heard' = heard \o Pulse
      /\ pos' = pos /\ kind' = kind /\ idle' = 1
  <2>1. Long \in Nat /\ Long > 0
    BY DEF Long, Body
  <2>2. Receive(FALSE, 0) /\ heard' = heard \o Pulse /\ pos' = pos /\ kind' = kind
    BY DEF Silence
  <2>3. idle' = IF idle < Long THEN idle + 1 ELSE idle
    BY DEF Silence
  <2>4. idle' = 1
    BY <2>1, <2>3
  <2> QED BY <2>2, <2>4
<1>s. Said' = Said
  BY <1>1 DEF Said
<1>2. Follows /\ HeardFits /\ pos \in 1 .. 57 /\ kind \in Kinds
  BY DEF SafeInv, ReceiverInv, LineTypes, FrameLength
<1>3. ~s_rx2tx.new => heard' = heard
  <2>1. heard = <<>> \/ heard = Said
    BY <1>2 DEF HeardFits
  <2> QED BY <1>1, <2>1, NothingAdded
<1>4. CASE pos = 51 /\ Tagged
  <2>1. stm = "GET_REQ_NUMBER" /\ ~s_rx2tx.new /\ heard = <<>>
    BY <1>2, <1>4 DEF Follows, HeardFits
  <2>2. stm' = "GET_REG_TYPE" /\ s_rx2tx'.no = 0 /\ ~s_rx2tx'.new /\ heard' = <<>>
    BY <1>1, <1>3, <2>1, SilenceStep
  <2> QED BY <1>1, <1>4, <2>2 DEF SilenceFits, AfterTag, Tagged, FrameLength
<1>5. CASE pos = 52 /\ Tagged
  <2>1. stm = "GET_REG_TYPE" /\ s_rx2tx.no = Number /\ ~s_rx2tx.new /\ heard = <<>>
    BY <1>2, <1>5 DEF Follows, HeardFits
  <2>2. stm' = "WAITING" /\ s_rx2tx'.new /\ s_rx2tx'.no = Number /\ s_rx2tx'.type = 0
        /\ heard' = <<>>
    BY <1>1, <1>3, <2>1, SilenceStep
  <2> QED BY <1>1, <1>5, <2>2 DEF SilenceFits, AfterNumber, Tagged, FrameLength
<1>6. CASE ~(pos \in {51, 52} /\ Tagged)
  <2>1. stm \notin {"GET_REQ_NUMBER", "GET_REG_TYPE"}
    BY <1>2, <1>6 DEF Follows, Ignoring, Tagged, Kinds
  <2>2. Harmless'
    <3>1. CASE s_rx2tx.new
      BY <1>1, <3>1, SilenceStep DEF Harmless
    <3>2. CASE ~s_rx2tx.new
      BY <1>1, <2>1, <3>2, SilenceIsHarmless DEF Harmless
    <3> QED BY <3>1, <3>2
  <2>3. heard' = Said
    <3>1. CASE pos = 53 /\ Tagged
      <4>1. heard = <<>> /\ s_rx2tx.new /\ s_rx2tx.no = Number
            /\ s_rx2tx.type = IF kind = "status" THEN 0 ELSE 1
        BY <1>2, <3>1 DEF HeardFits
      <4>2. Pulse = <<[no |-> s_rx2tx.no, type |-> s_rx2tx.type]>>
        BY <1>1, <4>1, PulseIs
      <4>3. Said = <<[no |-> Number, type |-> IF kind = "status" THEN 0 ELSE 1]>>
        BY <3>1 DEF Said, Tagged, TagAt, Body
      <4> QED BY <1>1, <4>1, <4>2, <4>3, Adding
    <3>2. CASE ~(pos = 53 /\ Tagged)
      <4>1. ~s_rx2tx.new
        BY <1>2, <3>2 DEF HeardFits
      <4>2. CASE pos <= 53
        <5>1. heard = <<>> /\ Said = <<>>
          BY <1>2, <1>6, <3>2, <4>2 DEF HeardFits, Said, TagAt, Tagged, Kinds
        <5> QED BY <1>3, <4>1, <5>1
      <4>3. CASE pos >= 54
        BY <1>2, <1>3, <4>1, <4>3 DEF HeardFits
      <4> QED BY <1>2, <4>2, <4>3
    <3> QED BY <3>1, <3>2
  <2>4. pos = 57 => stm' = "WAITING"
    <3>1. pos = 57 => Ignoring
      BY <1>2 DEF Follows
    <3> QED BY <1>1, <3>1, SilenceStep DEF Ignoring
  <2>5. heard' = Said'
    BY <1>s, <2>3
  <2> QED BY <1>1, <1>6, <2>2, <2>4, <2>5 DEF SilenceFits, FrameLength, Tagged
<1> QED BY <1>4, <1>5, <1>6

\* The silent bytes after the first.
LEMMA SilenceGoesOn ==
  ASSUME ReceiverInv, SafeInv, safe, idle > 0, Silence
  PROVE  SilenceFits'
<1>1. /\ Receive(FALSE, 0) /\ heard' = heard \o Pulse
      /\ pos' = pos /\ kind' = kind /\ Said' = Said
  BY DEF Silence, Said
<1>2. /\ idle \in 1 .. Long /\ Long \in Nat /\ Long >= 4
      /\ idle' = IF idle < Long THEN idle + 1 ELSE idle
  BY DEF Silence, ReceiverInv, LineTypes, Long, Body
<1>3. SilenceFits /\ pos \in 1 .. 57
  BY DEF SafeInv, ReceiverInv, LineTypes, FrameLength
<1>4. ~s_rx2tx.new /\ (heard = <<>> \/ heard = Said) => heard' = heard
  BY <1>1, NothingAdded
<1>5. Harmless /\ heard = Said => Harmless' /\ heard' = Said'
  BY <1>1, <1>4, SilenceIsHarmless DEF Harmless
<1>6. CASE pos = 51 /\ Tagged
  <2>1. AfterTag
    BY <1>3, <1>6 DEF SilenceFits
  <2>2. CASE idle = 1
    <3>1. stm' = "WAITING" /\ s_rx2tx'.new /\ s_rx2tx'.no = 0 /\ s_rx2tx'.type = 0
      BY <1>1, <2>1, <2>2, SilenceStep DEF AfterTag
    <3>2. heard' = <<>>
      BY <1>4, <2>1, <2>2 DEF AfterTag
    <3>3. AfterTag'
      BY <1>2, <2>2, <3>1, <3>2 DEF AfterTag
    <3> QED BY <1>1, <1>6, <3>3 DEF SilenceFits, Tagged, FrameLength
  <2>3. CASE idle = 2
    <3>1. stm = "WAITING" /\ s_rx2tx.new /\ s_rx2tx.no = 0 /\ s_rx2tx.type = 0 /\ heard = <<>>
      BY <2>1, <2>3 DEF AfterTag
    <3>2. Harmless'
      BY <1>1, <3>1, SilenceStep DEF Harmless
    <3>3. Pulse = <<[no |-> 0, type |-> 0]>>
      BY <1>1, <3>1, PulseIs
    <3>4. Said = <<[no |-> 0, type |-> 0]>>
      BY <1>6 DEF Said, Tagged, TagAt, Body
    <3>5. heard' = Said'
      BY <1>1, <3>1, <3>3, <3>4, Adding
    <3>6. AfterTag'
      BY <1>2, <2>3, <3>2, <3>5 DEF AfterTag
    <3> QED BY <1>1, <1>6, <3>6 DEF SilenceFits, Tagged, FrameLength
  <2>4. CASE idle >= 3
    <3>1. Harmless' /\ heard' = Said'
      BY <1>5, <2>1, <2>4 DEF AfterTag
    <3>2. AfterTag'
      BY <1>2, <2>4, <3>1 DEF AfterTag
    <3> QED BY <1>1, <1>6, <3>2 DEF SilenceFits, Tagged, FrameLength
  <2> QED BY <1>2, <2>2, <2>3, <2>4
<1>7. CASE pos = 52 /\ Tagged
  <2>1. AfterNumber
    BY <1>3, <1>7 DEF SilenceFits
  <2>2. Harmless' /\ heard' = Said'
    <3>1. CASE idle = 1
      <4>1. stm = "WAITING" /\ s_rx2tx.new /\ s_rx2tx.no = Number /\ s_rx2tx.type = 0
            /\ heard = <<>>
        BY <2>1, <3>1 DEF AfterNumber
      <4>2. Harmless'
        BY <1>1, <4>1, SilenceStep DEF Harmless
      <4>3. Pulse = <<[no |-> Number, type |-> 0]>>
        BY <1>1, <4>1, PulseIs
      <4>4. Said = <<[no |-> Number, type |-> 0]>>
        BY <1>7 DEF Said, Tagged, TagAt, Body
      <4> QED BY <1>1, <4>1, <4>2, <4>3, <4>4, Adding
    <3>2. CASE idle >= 2
      BY <1>5, <2>1, <3>2 DEF AfterNumber
    <3> QED BY <1>2, <3>1, <3>2
  <2>3. AfterNumber'
    BY <1>2, <2>2 DEF AfterNumber
  <2> QED BY <1>1, <1>7, <2>3 DEF SilenceFits, Tagged, FrameLength
<1>8. CASE ~(pos \in {51, 52} /\ Tagged)
  <2>1. Harmless' /\ heard' = Said'
    BY <1>3, <1>5, <1>8 DEF SilenceFits
  <2>2. pos = 57 => stm' = "WAITING" /\ by_frame_cnt' = 0
    BY <1>1, <1>3, SilenceStep DEF SilenceFits, FrameLength
  <2> QED BY <1>1, <1>8, <2>1, <2>2 DEF SilenceFits, FrameLength, Tagged
<1> QED BY <1>3, <1>6, <1>7, <1>8

\* Every step keeps the receiver on the frame.
LEMMA StepKeepsSafe ==
  ASSUME MinGap >= 3, ReceiverInv, ReceiverInv', SafeInv, [Next]_vars
  PROVE  SafeInv'
<1>1. CASE Next
  <2>1. RestInv'
    BY <1>1, StepKeepsRest DEF SafeInv
  <2>2. safe' /\ idle' = 0 => Follows' /\ PortFits' /\ HeardFits'
    <3>1. CASE Begin
      BY <3>1, BeginIsSafe
    <3>2. CASE Continue
      <4>1. idle = 0 /\ safe' = safe
        BY <3>2 DEF Continue
      <4> QED BY <3>2, <4>1, ContinueFollows, ContinueHears
    <3>3. CASE Silence
      <4>1. idle' # 0
        BY <3>3 DEF Silence, ReceiverInv, LineTypes, Long, Body
      <4> QED BY <4>1
    <3> QED BY <1>1, <3>1, <3>2, <3>3 DEF Next
  <2>3. safe' /\ idle' > 0 => SilenceFits'
    <3>1. CASE Begin \/ Continue
      <4>1. idle' = 0
        BY <3>1 DEF Begin, Continue
      <4> QED BY <4>1
    <3>2. CASE Silence
      <4>1. safe' = safe /\ idle \in Nat
        BY <3>2 DEF Silence, ReceiverInv, LineTypes, Long, Body
      <4> QED BY <3>2, <4>1, SilenceBegins, SilenceGoesOn
    <3> QED BY <1>1, <3>1, <3>2 DEF Next
  <2> QED BY <2>1, <2>2, <2>3 DEF SafeInv
<1>2. CASE UNCHANGED vars
  <2>1. RestInv' = RestInv /\ safe' = safe /\ idle' = idle
    BY <1>2 DEF vars, receiver, RestInv, ToRest, AtRest
  <2>2. Follows' = Follows /\ PortFits' = PortFits
    BY <1>2 DEF vars, receiver, Follows, Ignoring, Tagged, PortFits
  <2>3. Said' = Said
    BY <1>2 DEF vars, Said
  <2>4. HeardFits' = HeardFits
    BY <1>2, <2>3 DEF vars, receiver, HeardFits, Tagged
  <2>5. SilenceFits' = SilenceFits
    BY <1>2, <2>3 DEF vars, receiver, SilenceFits, AfterTag, AfterNumber, Harmless, Tagged
  <2> QED BY <2>1, <2>2, <2>4, <2>5 DEF SafeInv
<1> QED BY <1>1, <1>2

\* The line is settled after a reset.
LEMMA InitSafe == Init => SafeInv
<1> SUFFICES ASSUME Init PROVE SafeInv
  OBVIOUS
<1>1. ~s_rx2tx.new
  BY DEF Init, NoRequest
<1>2. AtRest /\ RestInv
  BY <1>1 DEF Init, AtRest, RestInv, ToRest, Long, Body
<1>3. SilenceFits
  BY <1>1 DEF Init, SilenceFits, Tagged, Harmless, Said, FrameLength
<1>4. idle > 0
  BY DEF Init, Long, Body
<1> QED BY <1>2, <1>3, <1>4 DEF SafeInv

\* The receiver follows every frame that found the line settled.
THEOREM SafeInvariant ==
  ASSUME MinGap >= 3
  PROVE  Spec => []SafeInv
<1>1. ReceiverInv /\ ReceiverInv' /\ SafeInv /\ [Next]_vars => SafeInv'
  BY StepKeepsSafe
<1> QED BY <1>1, InitSafe, ReceiverInvariant, PTL DEF Spec

\* A frame that finds the line settled is heard once, as what it says, before
\* the next may begin (udp_rx.vhd:118-132), if the gap between frames is three
\* bytes or more: Ethernet's is twelve.
THEOREM SafeFrameAlwaysHeard ==
  ASSUME MinGap >= 3
  PROVE  Spec => []SafeFrameHeard
<1>1. ReceiverInv /\ SafeInv => SafeFrameHeard
  <2> SUFFICES ASSUME ReceiverInv, SafeInv, safe, idle >= MinGap PROVE heard = Said
    BY DEF SafeFrameHeard
  <2>1. SilenceFits /\ idle >= 3 /\ idle \in Nat
    BY DEF SafeInv, ReceiverInv, LineTypes, Long, Body
  <2> QED BY <2>1 DEF SilenceFits, AfterTag, AfterNumber
<1> QED BY <1>1, SafeInvariant, ReceiverInvariant, PTL
=============================================================================
