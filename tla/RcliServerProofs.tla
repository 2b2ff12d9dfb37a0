-------------------------- MODULE RcliServerProofs --------------------------
(***************************************************************************)
(* What holds of the previous server for every number of cycle threads and *)
(* every set of durations: the types with the ownership of the mutex, that *)
(* at most one thread measures, and that a response which mixes two        *)
(* collections is marked.                                                  *)
(*                                                                         *)
(* OneCycle is not inductive: the server tests cycle_state and starts the  *)
(* thread in two steps.  The strengthening says that a thread in its loop  *)
(* keeps cycle_state from CYCLE_ENDED whatever the other ones do to it,    *)
(* and that nobody is in the loop between the server's test and its start. *)
(*                                                                         *)
(* ModeIsKept, for a server that was not hurried: at most one cycle thread *)
(* exists, and its place, the server's place and the three flags fit each  *)
(* other, case by case (Unhurried).                                        *)
(***************************************************************************)
EXTENDS RcliServer, TLAPS

StartPlaces ==
  {"enableDur", "enable", "restartDur", "startRcvTest", "startRcvSet", "startMode",
   "startState", "startSet"}
CtlPlaces == ControlPlaces \cup StartPlaces \cup {"ctlMode", "setDur"}

\* Where the server is tells which request it works on, and one that starts a
\* cycle was accepted only with a thread to spare.
PlacesTell ==
  /\ pc[Srv] \in CtlPlaces => request.fn = "MEAS_CTL"
  /\ pc[Srv] \in StartPlaces => request.mode = "CYCLE"
  /\ request.mode = "CYCLE" /\ pc[Srv] \in CtlPlaces => \E c \in Cycles : pc[c] = "none"
  /\ rcvLoopState = "ENDED" \/ pc[Srv] = "startRcvSet" => rcvPc = "none"

TypeInv == TypeOK /\ PlacesTell

\* Two parts of TypeOK, for the steps whose proof needs it in pieces.
PcOK ==
  /\ pc \in [Threads -> ControlPlaces \cup ServerPlaces \cup CyclePlaces]
  /\ pc[Srv] \in ControlPlaces \cup ServerPlaces
  /\ \A c \in Cycles : pc[c] \in ControlPlaces \cup CyclePlaces
RecordsOK ==
  /\ mixed \in BOOLEAN /\ lastUnsucc \in BOOLEAN /\ hasUnread \in BOOLEAN /\ hurried \in BOOLEAN
  /\ word \in [mode : Modes, unread : BOOLEAN] /\ copied \in [mixed : BOOLEAN, unsucc : BOOLEAN]

USE RcliAssumption DEF Srv, Threads, Modes

\* What the fields of a request are.
LEMMA RequestTypes ==
  /\ \A r \in Requests : r.mode \in Modes /\ (r.fn = "MEAS_CTL" => r.dur \in Durations)
  /\ \A r \in Requests : r.fn \in {"STATUS", "DATA_ALT", "SET_TH", "OTHER", "MEAS_CTL"}
  /\ \A r \in Requests : r.mode = "CYCLE" => r.fn = "MEAS_CTL"
  /\ Ask("OTHER") \in Requests /\ Ask("OTHER").mode = "ON_REQ"
BY DEF Requests, Ctl, Ask

\* A thread to spare is one that does not run.
LEMMA FreeIsFree ==
  ASSUME \E c \in Cycles : pc[c] = "none"
  PROVE  FreeCycle \in Cycles /\ pc[FreeCycle] = "none"
BY DEF FreeCycle

\* The types hold at the start.
LEMMA InitTypes == Init => TypeInv
<1> SUFFICES ASSUME Init PROVE TypeInv
  OBVIOUS
<1>1. /\ pc \in [Threads -> ControlPlaces \cup ServerPlaces \cup CyclePlaces]
      /\ pc[Srv] = "recv" /\ \A c \in Cycles : pc[c] = "none"
  BY DEF Init, ControlPlaces, ServerPlaces, CyclePlaces
<1>2. word \in [mode : Modes, unread : BOOLEAN] /\ copied \in [mixed : BOOLEAN, unsucc : BOOLEAN]
  BY DEF Init, NoWord, NoCopy
<1>3. TypeOK
  BY <1>1, <1>2, RequestTypes
  DEF Init, TypeOK, If, ServerPlaces, CyclePlaces
<1>4. PlacesTell
  BY <1>1 DEF Init, PlacesTell, ControlPlaces, CtlPlaces, StartPlaces
<1> QED BY <1>3, <1>4 DEF TypeInv

\* cycle_stop and en_onreq_mode, of whichever thread, keep the types.
LEMMA ControlKeepsTypes ==
  ASSUME TypeInv, NEW t \in Threads, Control(t)
  PROVE  TypeInv'
<1> USE RequestTypes DEF TypeInv, TypeOK, PcOK, RecordsOK, PlacesTell, Goto, If, ControlPlaces,
                         ServerPlaces, CyclePlaces, CtlPlaces, StartPlaces
<1>1. CASE OnReqMode(t)
  BY <1>1 DEF OnReqMode, Look, ControlRest
<1>2. CASE OnReqState(t)
  BY <1>2 DEF OnReqState, Look, ControlRest
<1>3. CASE OnReqSet(t)
  BY <1>3 DEF OnReqSet, ControlRest
<1>4. CASE OnReqClear(t)
  <2>1. TypeOK'
    <3>1. PcOK'
      BY <1>4 DEF OnReqClear, ControlRest
    <3>2. RecordsOK'
      BY <1>4 DEF OnReqClear, ControlRest
    <3> QED BY <1>4, <3>1, <3>2 DEF OnReqClear, ControlRest
  <2>2. PlacesTell'
    <3>1. CASE t = Srv
      BY <1>4, <3>1 DEF OnReqClear, ControlRest
    <3>2. CASE t # Srv
      BY <1>4, <3>2 DEF OnReqClear, ControlRest
    <3> QED BY <3>1, <3>2
  <2> QED BY <2>1, <2>2
<1>5. CASE StopRcvTest(t)
  BY <1>5 DEF StopRcvTest, Look, ControlRest
<1>6. CASE StopRcvSet(t)
  BY <1>6 DEF StopRcvSet, ControlRest
<1>7. CASE StopRcvWait(t)
  BY <1>7 DEF StopRcvWait, Look, ControlRest
<1>8. CASE StopMode(t)
  BY <1>8 DEF StopMode, Look, ControlRest, AfterStop
<1>9. CASE StopState(t)
  BY <1>9 DEF StopState, Look, ControlRest, AfterStop
<1>10. CASE StopSet(t)
  BY <1>10 DEF StopSet, ControlRest
<1>11. CASE StopWait(t)
  BY <1>11 DEF StopWait, Look, ControlRest, AfterStop
<1> QED BY <1>1, <1>2, <1>3, <1>4, <1>5, <1>6, <1>7, <1>8, <1>9, <1>10, <1>11 DEF Control

\* The request loop keeps them.
LEMMA ServerKeepsTypes ==
  ASSUME TypeInv, Handle \/ RecvReq
  PROVE  TypeInv'
<1> USE RequestTypes DEF TypeInv, TypeOK, PcOK, RecordsOK, PlacesTell, Goto, If, ControlPlaces,
                         ServerPlaces, CyclePlaces, CtlPlaces, StartPlaces
<1>a. CASE Control(Srv)
  BY <1>a, ControlKeepsTypes
<1>1. CASE StartRcvTest
  BY <1>1 DEF StartRcvTest, Look, ControlRest
<1>2. CASE StartRcvSet
  BY <1>2 DEF StartRcvSet, flags, meas
<1>3. CASE StartMode
  BY <1>3 DEF StartMode, Look, ControlRest
<1>4. CASE StartState
  BY <1>4 DEF StartState, Look, ControlRest
<1>5. CASE StartWait
  BY <1>5 DEF StartWait, Look, ControlRest
<1>6. CASE StartSet
  <2>1. FreeCycle \in Cycles /\ pc[Srv] = "startSet"
    BY <1>6, FreeIsFree DEF StartSet
  <2>2. pc' = [pc EXCEPT ![Srv] = "startWait", ![FreeCycle] = "begin"]
    BY <1>6 DEF StartSet
  <2>3. TypeOK'
    <3>1. PcOK'
      BY <1>6, <2>1, <2>2 DEF StartSet, meas
    <3>2. RecordsOK'
      BY <1>6, <2>1, <2>2 DEF StartSet, meas
    <3> QED BY <1>6, <2>1, <2>2, <3>1, <3>2 DEF StartSet, meas
  <2>4. PlacesTell'
    BY <1>6, <2>1, <2>2 DEF StartSet, meas
  <2> QED BY <2>3, <2>4
<1>7. CASE DataMode
  BY <1>7 DEF DataMode, Look, ControlRest
<1>8. CASE CtlMode
  BY <1>8 DEF CtlMode, Look, ControlRest
<1>9. CASE EnableCycle
  <2>1. TypeOK'
    <3>1. PcOK'
      BY <1>9, ZenonT(60) DEF EnableCycle, ControlRest
    <3>2. RecordsOK'
      BY <1>9 DEF EnableCycle, ControlRest
    <3> QED BY <1>9, <3>1, <3>2 DEF EnableCycle, ControlRest
  <2>2. PlacesTell'
    <3>1. pc[Srv] = "enable" /\ pc'[Srv] \in {"startRcvTest", "update"}
      BY <1>9 DEF EnableCycle
    <3>2. \A c \in Cycles : pc'[c] = pc[c]
      BY <1>9 DEF EnableCycle
    <3>3. request' = request /\ rcvPc' = rcvPc /\ rcvLoopState' = rcvLoopState
      BY <1>9 DEF EnableCycle, ControlRest
    <3> QED BY <3>1, <3>2, <3>3
  <2> QED BY <2>1, <2>2
<1>10. CASE SetDur("setDur", "update")
  BY <1>10 DEF SetDur, meas
<1>11. CASE SetDur("enableDur", "enable")
  BY <1>11 DEF SetDur, meas
<1>12. CASE SetDur("restartDur", "startRcvTest")
  BY <1>12 DEF SetDur, meas
<1>13. CASE Measure(Srv, "update")
  BY <1>13 DEF Measure, flags
<1>14. CASE Copy
  <2>1. copied' \in [mixed : BOOLEAN, unsucc : BOOLEAN]
    BY <1>14 DEF Copy
  <2>2. TypeOK'
    <3>1. PcOK'
      BY <1>14, <2>1 DEF Copy, flags
    <3>2. RecordsOK'
      BY <1>14, <2>1 DEF Copy, flags
    <3> QED BY <1>14, <2>1, <3>1, <3>2 DEF Copy, flags
  <2>3. PlacesTell'
    BY <1>14 DEF Copy, flags
  <2> QED BY <2>2, <2>3
<1>15. CASE SetTh
  BY <1>15 DEF SetTh, Look, ControlRest
<1>16. CASE UpdateStatus
  BY <1>16 DEF UpdateStatus, flags, meas, NoWord
<1>17. CASE SendResp
  BY <1>17 DEF SendResp, flags, meas, NoWord, NoCopy, Ask
<1>18. CASE RecvReq
  BY <1>18 DEF RecvReq, flags, meas, Handler
<1> QED BY <1>a, <1>1, <1>2, <1>3, <1>4, <1>5, <1>6, <1>7, <1>8, <1>9, <1>10, <1>11, <1>12, <1>13,
           <1>14, <1>15, <1>16, <1>17, <1>18 DEF Handle, Start

\* A cycle thread keeps them.
LEMMA CycleKeepsTypes ==
  ASSUME TypeInv, NEW c \in Cycles, Cycle(c)
  PROVE  TypeInv'
<1> USE RequestTypes DEF TypeInv, TypeOK, PcOK, RecordsOK, PlacesTell, Goto, If, ControlPlaces,
                         ServerPlaces, CyclePlaces, CtlPlaces, StartPlaces
<1>a. CASE Control(c)
  BY <1>a, ControlKeepsTypes
<1>1. CASE Begin(c)
  BY <1>1 DEF Begin, CycleRest, meas
<1>2. CASE WithinTime(c)
  BY <1>2 DEF WithinTime, CycleRest, meas
<1>3. CASE TimeOver(c)
  BY <1>3 DEF TimeOver, CycleRest, meas
<1>4. CASE Leave(c)
  BY <1>4 DEF Leave, CycleRest, meas
<1>5. CASE LoopState(c)
  BY <1>5 DEF LoopState, Look, ControlRest
<1>6. CASE Measure(c, "loopState")
  BY <1>6 DEF Measure, flags
<1> QED BY <1>a, <1>1, <1>2, <1>3, <1>4, <1>5, <1>6 DEF Cycle

\* The receive loop keeps them.
LEMMA ReceiveKeepsTypes ==
  ASSUME TypeInv, Receive
  PROVE  TypeInv'
<1> USE DEF TypeInv, TypeOK, PcOK, RecordsOK, PlacesTell, If, ReceiveRest
<1>1. CASE ReceiveTest
  BY <1>1 DEF ReceiveTest
<1>2. CASE CollectPart
  BY <1>2 DEF CollectPart
<1>3. CASE CollectEnd
  <2>1. TypeOK'
    <3>1. PcOK'
      BY <1>3 DEF CollectEnd
    <3>2. RecordsOK'
      BY <1>3 DEF CollectEnd
    <3> QED BY <1>3, <3>1, <3>2 DEF CollectEnd
  <2>2. PlacesTell'
    BY <1>3 DEF CollectEnd
  <2> QED BY <2>1, <2>2
<1>4. CASE ReceiveEnd
  BY <1>4 DEF ReceiveEnd
<1> QED BY <1>1, <1>2, <1>3, <1>4 DEF Receive

\* Every step keeps them.
LEMMA StepKeepsTypes ==
  ASSUME TypeInv, [Next]_vars
  PROVE  TypeInv'
<1>1. CASE Next
  BY <1>1, ServerKeepsTypes, CycleKeepsTypes, ReceiveKeepsTypes DEF Next
<1>2. CASE UNCHANGED vars
  BY <1>2 DEF vars, flags, meas, TypeInv, TypeOK, PlacesTell, If
<1> QED BY <1>1, <1>2

\* The variables keep their types, and the mutex is the receive loop's exactly
\* while it collects (radar_cli.cpp:172-193).
THEOREM TypesHold == Spec => []TypeOK
<1>1. Init => TypeInv
  BY InitTypes
<1>2. TypeInv /\ [Next]_vars => TypeInv'
  BY StepKeepsTypes
<1>3. TypeInv => TypeOK
  BY DEF TypeInv
<1> QED BY <1>1, <1>2, <1>3, PTL DEF Spec

-----------------------------------------------------------------------------
(***************************************************************************)
(* One thread measures.                                                    *)
(***************************************************************************)
LoopInv ==
  /\ OneCycle
  /\ \A c \in Cycles : InLoop(c) => cycleState # "ENDED"
  /\ pc[Srv] = "startSet" => \A c \in Cycles : ~InLoop(c)

\* A step that lets nobody into the loop, and neither ends the cycle nor goes
\* to start one.
LEMMA NobodyEnters ==
  ASSUME LoopInv,
         \A c \in Cycles : InLoop(c)' => InLoop(c),
         cycleState' # "ENDED" \/ cycleState' = cycleState,
         pc'[Srv] = "startSet" => pc[Srv] = "startSet"
  PROVE  LoopInv'
BY DEF LoopInv, OneCycle

\* cycle_stop and en_onreq_mode keep the places of the cycle threads apart.
LEMMA ControlKeepsLoop ==
  ASSUME TypeInv, LoopInv, NEW t \in Threads, Control(t)
  PROVE  LoopInv'
<1>1. \E place \in ControlPlaces \cup {"setDur", "restartDur", "none"} : Goto(t, place)
  BY DEF Control, OnReqMode, OnReqState, OnReqSet, OnReqClear, StopRcvTest, StopRcvSet,
         StopRcvWait, StopMode, StopState, StopSet, StopWait, Look, AfterStop, If, ControlPlaces
<1>2. cycleState' \in {cycleState, "STOP"}
  BY DEF Control, OnReqMode, OnReqState, OnReqSet, OnReqClear, StopRcvTest, StopRcvSet,
         StopRcvWait, StopMode, StopState, StopSet, StopWait, Look
<1>3. PICK place \in ControlPlaces \cup {"setDur", "restartDur", "none"} : Goto(t, place)
  BY <1>1
<1>4. /\ \A c \in Cycles : InLoop(c)' => InLoop(c)
      /\ pc'[Srv] = "startSet" => pc[Srv] = "startSet"
  BY <1>3 DEF Goto, TypeInv, TypeOK, InLoop, ControlPlaces
<1> QED BY <1>2, <1>4, NobodyEnters

\* The request loop keeps them apart, also when it starts one.
LEMMA ServerKeepsLoop ==
  ASSUME TypeInv, LoopInv, Handle \/ RecvReq
  PROVE  LoopInv'
<1> USE DEF TypeInv, TypeOK, InLoop
<1>1. CASE Control(Srv)
  BY <1>1, ControlKeepsLoop
\* The server has seen CYCLE_ENDED, which nobody in the loop leaves standing.
<1>2. CASE StartState
  BY <1>2 DEF StartState, Look, Goto, If, LoopInv, OneCycle
<1>3. CASE StartSet
  <2>1. FreeCycle \in Cycles
    BY <1>3, FreeIsFree DEF StartSet, PlacesTell, CtlPlaces, StartPlaces
  <2>2. cycleState' = "START" /\ pc' = [pc EXCEPT ![Srv] = "startWait", ![FreeCycle] = "begin"]
    BY <1>3 DEF StartSet
  <2>3. \A c \in Cycles : ~InLoop(c)
    BY <1>3 DEF StartSet, LoopInv
  <2>4. \A c \in Cycles : InLoop(c)' => c = FreeCycle
    BY <2>1, <2>2, <2>3
  <2>5. pc'[Srv] = "startWait"
    BY <2>1, <2>2
  <2> QED BY <2>2, <2>4, <2>5 DEF LoopInv, OneCycle
<1>4. CASE RecvReq
  <2>1. PICK r \in Requests : Goto(Srv, Handler(r.fn))
    BY <1>4 DEF RecvReq
  <2>2. Handler(r.fn) # "startSet"
    BY <2>1, RequestTypes DEF Handler
  <2>3. cycleState' = cycleState
    BY <1>4 DEF RecvReq, flags
  <2> QED BY <2>1, <2>2, <2>3, NobodyEnters DEF Goto
<1>5. CASE Handle /\ ~Control(Srv) /\ ~StartState /\ ~StartSet
  <2>1. cycleState' = cycleState
    BY <1>5 DEF Handle, Start, StartRcvTest, StartRcvSet, StartMode, StartWait, DataMode, CtlMode,
       EnableCycle, SetDur, Measure, Copy, SetTh, UpdateStatus, SendResp, Look, ControlRest, flags
  <2>2. \E place \in (ControlPlaces \cup ServerPlaces) \ {"startSet"} : Goto(Srv, place)
    BY <1>5 DEF Handle, Start, StartRcvTest, StartRcvSet, StartMode, StartWait, DataMode, CtlMode,
       EnableCycle, SetDur, Measure, Copy, SetTh, UpdateStatus, SendResp, Look, If,
       ControlPlaces, ServerPlaces
  <2>3. PICK place \in (ControlPlaces \cup ServerPlaces) \ {"startSet"} : Goto(Srv, place)
    BY <2>2
  <2> QED BY <2>1, <2>3, NobodyEnters DEF Goto, ControlPlaces
<1> QED BY <1>1, <1>2, <1>3, <1>4, <1>5

\* A cycle thread keeps them apart.
LEMMA CycleKeepsLoop ==
  ASSUME TypeInv, LoopInv, NEW c \in Cycles, Cycle(c)
  PROVE  LoopInv'
<1> USE DEF TypeInv, TypeOK, InLoop
<1>1. CASE Control(c)
  BY <1>1, ControlKeepsLoop
<1>2. CASE Begin(c)
  BY <1>2, NobodyEnters DEF Begin, Goto
<1>3. CASE LoopState(c)
  BY <1>3, NobodyEnters DEF LoopState, Look, If, Goto
<1>4. CASE WithinTime(c)
  BY <1>4, NobodyEnters DEF WithinTime, Goto
<1>5. CASE TimeOver(c)
  BY <1>5, NobodyEnters DEF TimeOver, CycleRest, Goto
<1>6. CASE Measure(c, "loopState")
  BY <1>6, NobodyEnters DEF Measure, Goto, flags
\* CYCLE_ENDED is set by the only thread in the loop, on its way out.
<1>7. CASE Leave(c)
  <2>1. \A d \in Cycles : InLoop(d) => d = c
    BY <1>7 DEF Leave, LoopInv, OneCycle
  <2>2. \A d \in Cycles : ~InLoop(d)'
    BY <1>7, <2>1 DEF Leave, Goto, If
  <2> QED BY <2>2 DEF LoopInv, OneCycle
<1> QED BY <1>1, <1>2, <1>3, <1>4, <1>5, <1>6, <1>7 DEF Cycle

\* Every step keeps them apart.
LEMMA StepKeepsLoop ==
  ASSUME TypeInv, LoopInv, [Next]_vars
  PROVE  LoopInv'
<1>1. CASE Receive \/ UNCHANGED vars
  <2>1. pc' = pc /\ cycleState' = cycleState
    BY <1>1 DEF Receive, ReceiveTest, CollectPart, CollectEnd, ReceiveEnd, ReceiveRest, vars, flags
  <2> QED BY <2>1, NobodyEnters DEF InLoop
<1> QED BY <1>1, ServerKeepsLoop, CycleKeepsLoop DEF Next

\* Whatever the flags are seen as, and however many threads are still on the
\* way out, at most one measures (radar_cli.cpp:84-150).
THEOREM OneCycleAlways == Spec => []OneCycle
<1>1. Init => TypeInv /\ LoopInv
  BY InitTypes DEF Init, LoopInv, OneCycle, InLoop
<1>2. TypeInv /\ LoopInv /\ [Next]_vars => (TypeInv /\ LoopInv)'
  BY StepKeepsTypes, StepKeepsLoop
<1>3. LoopInv => OneCycle
  BY DEF LoopInv
<1> QED BY <1>1, <1>2, <1>3, PTL DEF Spec

-----------------------------------------------------------------------------
(***************************************************************************)
(* A mixed response is marked.                                             *)
(***************************************************************************)
MixedInv ==
  /\ MixedIsMarked
  /\ mixed /\ mtx = "free" => lastUnsucc

\* Every step keeps half a collection marked.
LEMMA StepKeepsMixed ==
  ASSUME TypeInv, MixedInv, [Next]_vars
  PROVE  MixedInv'
<1> USE DEF MixedInv, MixedIsMarked
<1>1. CASE RecvReq \/ UNCHANGED vars
  BY <1>1 DEF RecvReq, meas, vars
<1>2. CASE Copy
  BY <1>2 DEF Copy
<1>3. CASE SendResp
  BY <1>3 DEF SendResp, meas, NoCopy
<1>4. CASE Handle /\ ~Copy /\ ~SendResp
  BY <1>4 DEF Handle, Start, StartRcvTest, StartRcvSet, StartMode, StartState, StartSet, StartWait,
     DataMode, CtlMode, EnableCycle, SetDur, Measure, SetTh, UpdateStatus, Control, OnReqMode,
     OnReqState, OnReqSet, OnReqClear, StopRcvTest, StopRcvSet, StopRcvWait, StopMode, StopState,
     StopSet, StopWait, Look, ControlRest, meas
<1>5. CASE \E c \in Cycles : Cycle(c)
  BY <1>5 DEF Cycle, Begin, LoopState, WithinTime, TimeOver, Measure, Leave, Control, OnReqMode,
     OnReqState, OnReqSet, OnReqClear, StopRcvTest, StopRcvSet, StopRcvWait, StopMode, StopState,
     StopSet, StopWait, Look, ControlRest, CycleRest, meas
\* While data is being written the receive loop owns the mutex.
<1>6. CASE ReceiveTest
  BY <1>6 DEF ReceiveTest, ReceiveRest
<1>7. CASE CollectPart
  BY <1>7 DEF CollectPart, ReceiveRest, TypeInv, TypeOK, If
<1>8. CASE CollectEnd
  BY <1>8 DEF CollectEnd, ReceiveRest
<1>9. CASE ReceiveEnd
  BY <1>9 DEF ReceiveEnd, ReceiveRest
<1> QED BY <1>1, <1>2, <1>3, <1>4, <1>5, <1>6, <1>7, <1>8, <1>9 DEF Next, Receive

\* The copy of a response never runs into a collection under way, so a mixed
\* one comes from a collection that failed (radar_cli.cpp:178, 289-305).
THEOREM MixedAlwaysMarked == Spec => []MixedIsMarked
<1>1. Init => TypeInv /\ MixedInv
  BY InitTypes DEF Init, MixedInv, MixedIsMarked, NoCopy
<1>2. TypeInv /\ MixedInv /\ [Next]_vars => (TypeInv /\ MixedInv)'
  BY StepKeepsTypes, StepKeepsMixed
<1>3. MixedInv => MixedIsMarked
  BY DEF MixedInv
<1> QED BY <1>1, <1>2, <1>3, PTL DEF Spec

-----------------------------------------------------------------------------
(***************************************************************************)
(* The answer to MEAS_CTL says what is.                                    *)
(*                                                                         *)
(* As long as nobody hurried there is one cycle thread at most, and where  *)
(* the server is tells what that thread may be doing and how the flags are *)
(* set.                                                                    *)
(***************************************************************************)
\* Where the server leaves the cycle alone.
RestPlaces == {"recv", "dataMode", "meas", "copy", "setTh", "update", "reply"}
\* Where the server is on its way to stop a cycle it has found running.
StoppingPlaces ==
  {"onreqMode", "onreqState", "stopRcvTest", "stopRcvSet", "stopRcvWait", "stopMode",
   "stopState", "stopSet"}
\* Where it is on its way to start one.
StartingPlaces ==
  {"restartDur", "startRcvTest", "startRcvSet", "startMode", "startState", "startSet"}
OnReqPlaces == {"onreqMode", "onreqState", "onreqSet", "onreqClear", "setDur"}

\* Which request the server works on, where PlacesTell does not say it.
RequestFits ==
  /\ pc[Srv] \in {"dataMode", "meas", "copy"} => request.fn = "DATA_ALT"
  /\ pc[Srv] = "setTh" => request.fn = "SET_TH"
  /\ pc[Srv] \in OnReqPlaces => request.mode = "ON_REQ"
  /\ pc[Srv] = "startWait" => request.fn = "MEAS_CTL" /\ request.mode = "CYCLE"

Answering(mode) ==
  pc[Srv] \in {"update", "reply"} /\ request.fn = "MEAS_CTL" /\ request.mode = mode

\* A cycle thread at work, and one that ran out of time.
Running(c) ==
  pc[c] \in {"loopState", "loopTime", "meas"} /\ cycleState = "DURING" /\ measMode = "CYCLE"
Ending(c) ==
  /\ cycleDur # 0 /\ ~tmo[c]
  /\ \/ pc[c] = "leave" /\ cycleState = "DURING" /\ measMode = "CYCLE"
     \/ pc[c] \in {"onreqMode", "onreqState", "onreqSet"} /\ cycleState = "ENDED" /\ measMode = "CYCLE"
     \/ pc[c] = "onreqClear" /\ cycleState = "ENDED" /\ measMode = "ON_REQ"
\* A cycle thread that was told to stop.
Stopping(c) ==
  pc[c] \in {"loopState", "loopTime", "meas", "leave"} /\ cycleState = "STOP" /\ measMode = "CYCLE"

\* What a cycle thread may be doing.
ThreadFits(c) ==
  \/ pc[Srv] \in RestPlaces /\ ~Answering("ON_REQ") /\ (Running(c) \/ Ending(c))
  \/ pc[Srv] \in StoppingPlaces \cup {"ctlMode"} /\ Running(c) /\ tmo[c] /\ cycleDur = 0
  \/ pc[Srv] = "stopWait" /\ Stopping(c) /\ tmo[c] /\ cycleDur = 0
  \/ pc[Srv] = "startWait" /\ measMode = "CYCLE"
       /\ (Running(c) \/ (pc[c] = "begin" /\ cycleState = "START"))

\* How the flags are when there is none.
NoThreadFits ==
  /\ cycleState = "ENDED"
  /\ pc[Srv] \notin StoppingPlaces \cup {"startWait"}
  /\ pc[Srv] \in RestPlaces \cup {"ctlMode", "setDur", "onreqClear", "enableDur", "enable"}
       => measMode = "ON_REQ"
  /\ pc[Srv] \in StartingPlaces \cup {"stopWait"} => measMode = "CYCLE"
  /\ hasUnread =>
       \/ pc[Srv] \in {"update", "copy"} /\ request.fn = "DATA_ALT"
       \/ pc[Srv] \in StartingPlaces \cup {"stopWait", "onreqSet", "onreqClear"}
  /\ Answering("CYCLE") => cycleDur # 0

WordFits ==
  pc[Srv] = "reply" /\ request.fn = "MEAS_CTL" =>
    /\ request.mode = "ON_REQ" => word = [mode |-> "ON_REQ", unread |-> FALSE]
    /\ request.mode = "CYCLE" /\ cycleDur = 0 => word.mode = "CYCLE"

NoThread == \A c \in Cycles : pc[c] = "none"

OneAtMost == \A c, d \in Cycles : pc[c] # "none" /\ pc[d] # "none" => c = d
ThreadsFit == \A c \in Cycles : pc[c] # "none" => ThreadFits(c)

Unhurried == OneAtMost /\ ThreadsFit /\ (NoThread => NoThreadFits) /\ WordFits

ModeInv == RequestFits /\ (~hurried => Unhurried)


\* cycle_stop and en_onreq_mode of the request loop keep what the mode says.
LEMMA ControlKeepsMode ==
  ASSUME TypeInv, ModeInv, Control(Srv)
  PROVE  ModeInv'
<1> USE DEF TypeInv, TypeOK, PcOK, PlacesTell, Goto, If, ControlPlaces, ServerPlaces, CyclePlaces,
      CtlPlaces, StartPlaces, ModeInv, Unhurried, RequestFits, OneAtMost, ThreadsFit, ThreadFits, NoThread,
      NoThreadFits, WordFits, Answering, Running, Ending, Stopping, RestPlaces, StoppingPlaces, StartingPlaces, OnReqPlaces
<1>1. CASE OnReqMode(Srv)
  BY <1>1 DEF OnReqMode, Look, ControlRest
<1>2. CASE OnReqState(Srv)
  BY <1>2 DEF OnReqState, Look, ControlRest
<1>3. CASE OnReqSet(Srv)
  BY <1>3 DEF OnReqSet, ControlRest
<1>4. CASE OnReqClear(Srv)
  BY <1>4 DEF OnReqClear, ControlRest
<1>5. CASE StopRcvTest(Srv)
  BY <1>5 DEF StopRcvTest, Look, ControlRest
<1>6. CASE StopRcvSet(Srv)
  BY <1>6 DEF StopRcvSet, ControlRest
<1>7. CASE StopRcvWait(Srv)
  BY <1>7 DEF StopRcvWait, Look, ControlRest
<1>8. CASE StopMode(Srv)
  <2>1. RequestFits'
    BY <1>8, RequestTypes DEF StopMode, Look, ControlRest, AfterStop
  <2>2. ~hurried' => OneAtMost'
    BY <1>8 DEF StopMode, Look, ControlRest, AfterStop
  <2>3. ~hurried' => ThreadsFit'
    BY <1>8 DEF StopMode, Look, ControlRest, AfterStop
  <2>4. ~hurried' => (NoThread => NoThreadFits)'
    BY <1>8 DEF StopMode, Look, ControlRest, AfterStop
  <2>5. ~hurried' => WordFits'
    BY <1>8 DEF StopMode, Look, ControlRest, AfterStop
  <2> QED BY ONLY <2>1, <2>2, <2>3, <2>4, <2>5 DEF ModeInv, Unhurried
<1>9. CASE StopState(Srv)
  <2>1. RequestFits'
    BY <1>9, RequestTypes DEF StopState, Look, ControlRest, AfterStop
  <2>2. ~hurried' => OneAtMost'
    BY <1>9 DEF StopState, Look, ControlRest, AfterStop
  <2>3. ~hurried' => ThreadsFit'
    BY <1>9 DEF StopState, Look, ControlRest, AfterStop
  <2>4. ~hurried' => (NoThread => NoThreadFits)'
    BY <1>9 DEF StopState, Look, ControlRest, AfterStop
  <2>5. ~hurried' => WordFits'
    BY <1>9 DEF StopState, Look, ControlRest, AfterStop
  <2> QED BY ONLY <2>1, <2>2, <2>3, <2>4, <2>5 DEF ModeInv, Unhurried
<1>10. CASE StopSet(Srv)
  BY <1>10 DEF StopSet, ControlRest
<1>11. CASE StopWait(Srv)
  <2>1. RequestFits'
    BY <1>11, RequestTypes DEF StopWait, Look, ControlRest, AfterStop
  <2>2. ~hurried' => OneAtMost'
    BY <1>11 DEF StopWait, Look, ControlRest, AfterStop
  <2>3. ~hurried' => ThreadsFit'
    BY <1>11 DEF StopWait, Look, ControlRest, AfterStop
  <2>4. ~hurried' => (NoThread => NoThreadFits)'
    BY <1>11 DEF StopWait, Look, ControlRest, AfterStop
  <2>5. ~hurried' => WordFits'
    BY <1>11 DEF StopWait, Look, ControlRest, AfterStop
  <2> QED BY ONLY <2>1, <2>2, <2>3, <2>4, <2>5 DEF ModeInv, Unhurried
<1> QED BY <1>1, <1>2, <1>3, <1>4, <1>5, <1>6, <1>7, <1>8, <1>9, <1>10, <1>11 DEF Control

\* The request loop keeps it.
LEMMA ServerKeepsMode ==
  ASSUME TypeInv, ModeInv, Handle \/ RecvReq
  PROVE  ModeInv'
<1> USE DEF TypeInv, TypeOK, PcOK, PlacesTell, Goto, If, ControlPlaces, ServerPlaces, CyclePlaces,
      CtlPlaces, StartPlaces, ModeInv, Unhurried, RequestFits, OneAtMost, ThreadsFit, ThreadFits, NoThread,
      NoThreadFits, WordFits, Answering, Running, Ending, Stopping, RestPlaces, StoppingPlaces, StartingPlaces, OnReqPlaces
<1>a. CASE Control(Srv)
  BY <1>a, ControlKeepsMode
<1>1. CASE StartRcvTest
  BY <1>1 DEF StartRcvTest, Look, ControlRest
<1>2. CASE StartRcvSet
  BY <1>2 DEF StartRcvSet, flags, meas
<1>3. CASE StartMode
  BY <1>3 DEF StartMode, Look, ControlRest
<1>4. CASE StartState
  BY <1>4 DEF StartState, Look, ControlRest
<1>5. CASE StartWait
  BY <1>5 DEF StartWait, Look, ControlRest
\* The thread that starts is the only one.
<1>6. CASE StartSet
  <2>1. FreeCycle \in Cycles /\ pc[Srv] = "startSet"
    BY <1>6, FreeIsFree DEF StartSet
  <2>2. pc' = [pc EXCEPT ![Srv] = "startWait", ![FreeCycle] = "begin"]
    BY <1>6 DEF StartSet
  <2>3. ~hurried => \A c \in Cycles : pc[c] = "none"
    BY <2>1
  <2>4. /\ pc'[Srv] = "startWait" /\ pc'[FreeCycle] = "begin"
        /\ ~hurried => \A c \in Cycles : c # FreeCycle => pc'[c] = "none"
    BY <2>1, <2>2, <2>3
  <2>5. /\ request' = request /\ measMode' = measMode /\ cycleState' = "START"
        /\ hurried' = hurried
    BY <1>6 DEF StartSet, meas
  <2>6. RequestFits'
    BY <2>1, <2>4, <2>5
  <2>7. ~hurried' => OneAtMost'
    BY <2>4, <2>5
  <2>8. ~hurried' => ThreadsFit'
    <3>1. ~hurried => measMode = "CYCLE"
      BY <2>1, <2>3
    <3> QED BY <2>4, <2>5, <3>1
  <2>9. ~NoThread' /\ WordFits'
    BY <2>1, <2>4
  <2> QED BY ONLY <2>6, <2>7, <2>8, <2>9 DEF ModeInv, Unhurried
<1>7. CASE DataMode
  BY <1>7 DEF DataMode, Look, ControlRest
<1>8. CASE CtlMode
  BY <1>8 DEF CtlMode, Look, ControlRest
<1>9. CASE EnableCycle
  <2>1. CASE hurried
    BY <1>9, <2>1 DEF EnableCycle, ControlRest
\* Nobody but the server itself has touched the mode.
  <2>2. CASE ~hurried
    <3>1. NoThread /\ cycleState = "ENDED" /\ measMode = "ON_REQ"
      BY <1>9, <2>2 DEF EnableCycle
    <3>2. pc'[Srv] = "startRcvTest" /\ NoThread' /\ measMode' = "CYCLE"
      BY <1>9, <3>1 DEF EnableCycle
    <3>3. cycleState' = "ENDED"
      BY <1>9, <3>1 DEF EnableCycle, ControlRest
    <3> QED BY <3>2, <3>3
  <2> QED BY <2>1, <2>2
<1>10. CASE SetDur("setDur", "update")
  BY <1>10 DEF SetDur, meas
<1>11. CASE SetDur("enableDur", "enable")
  BY <1>11 DEF SetDur, meas
<1>12. CASE SetDur("restartDur", "startRcvTest")
  BY <1>12 DEF SetDur, meas
<1>13. CASE Measure(Srv, "update")
  BY <1>13 DEF Measure, flags
<1>14. CASE Copy
  BY <1>14 DEF Copy, flags
<1>15. CASE SetTh
  <2>1. RequestFits'
    BY <1>15 DEF SetTh, Look, ControlRest
  <2>2. ~hurried' => OneAtMost'
    BY <1>15 DEF SetTh, Look, ControlRest
  <2>3. ~hurried' => ThreadsFit'
    BY <1>15 DEF SetTh, Look, ControlRest
  <2>4. ~hurried' => (NoThread => NoThreadFits)'
    BY <1>15 DEF SetTh, Look, ControlRest
  <2>5. ~hurried' => WordFits'
    BY <1>15 DEF SetTh, Look, ControlRest
  <2> QED BY ONLY <2>1, <2>2, <2>3, <2>4, <2>5 DEF ModeInv, Unhurried
<1>16. CASE UpdateStatus
  <2>1. RequestFits'
    BY <1>16 DEF UpdateStatus, flags, meas, NoWord
  <2>2. ~hurried' => OneAtMost'
    BY <1>16 DEF UpdateStatus, flags, meas, NoWord
  <2>3. ~hurried' => ThreadsFit'
    BY <1>16 DEF UpdateStatus, flags, meas, NoWord
  <2>4. ~hurried' => (NoThread => NoThreadFits)'
    BY <1>16 DEF UpdateStatus, flags, meas, NoWord
  <2>5. ~hurried' => WordFits'
    BY <1>16 DEF UpdateStatus, flags, meas, NoWord
  <2> QED BY ONLY <2>1, <2>2, <2>3, <2>4, <2>5 DEF ModeInv, Unhurried
<1>17. CASE SendResp
  BY <1>17, RequestTypes DEF SendResp, flags, meas
\* The thread that is there when MEAS_CTL comes has measured and is without end.
<1>18. CASE RecvReq
  <2>1. PICK r \in Requests : /\ request' = r /\ Goto(Srv, Handler(r.fn))
                              /\ hurried' = (hurried \/ (r.fn = "MEAS_CTL" /\ Unsettled))
    BY <1>18 DEF RecvReq
  <2>2. /\ measMode' = measMode /\ cycleState' = cycleState /\ cycleDur' = cycleDur
        /\ tmo' = tmo /\ hasUnread' = hasUnread /\ word' = word /\ pc[Srv] = "recv"
    BY <1>18 DEF RecvReq, flags, meas
  <2>3. pc'[Srv] = Handler(r.fn) /\ \A c \in Cycles : pc'[c] = pc[c]
    BY <2>1
  <2>4. CASE r.fn # "MEAS_CTL"
    <3>1. pc'[Srv] \in {"update", "dataMode", "setTh", "reply"}
      BY <2>3, <2>4, RequestTypes DEF Handler
    <3>2. RequestFits'
      BY <2>1, <2>3, <2>4, RequestTypes DEF Handler
    <3> QED BY <2>1, <2>2, <2>3, <2>4, <3>1, <3>2
  <2>5. CASE r.fn = "MEAS_CTL"
    <3>1. pc'[Srv] = "ctlMode"
      BY <2>3, <2>5 DEF Handler
    <3>2. ~hurried' => ~hurried /\ ~Unsettled
      BY <2>1, <2>5
    <3>3. ASSUME ~hurried', NEW c \in Cycles, pc[c] # "none"
          PROVE  Running(c) /\ tmo[c] /\ cycleDur = 0
      <4>1. tmo[c] /\ cycleDur = 0
        BY <3>2, <3>3 DEF Unsettled
      <4> QED BY <2>2, <3>2, <3>3, <4>1
    <3>4. ASSUME ~hurried' PROVE OneAtMost' /\ ThreadsFit'
      BY <2>2, <2>3, <3>1, <3>2, <3>3, <3>4
    <3>5. ASSUME ~hurried' PROVE (NoThread => NoThreadFits)'
      BY <2>2, <2>3, <3>1, <3>2, <3>5
    <3> QED BY <2>1, <3>1, <3>4, <3>5
  <2> QED BY <2>4, <2>5
<1> QED BY <1>a, <1>1, <1>2, <1>3, <1>4, <1>5, <1>6, <1>7, <1>8, <1>9, <1>10, <1>11, <1>12, <1>13,
           <1>14, <1>15, <1>16, <1>17, <1>18 DEF Handle, Start

\* A cycle thread keeps it.
LEMMA CycleKeepsMode ==
  ASSUME TypeInv, ModeInv, NEW c \in Cycles, Cycle(c)
  PROVE  ModeInv'
<1> USE DEF TypeInv, TypeOK, PcOK, PlacesTell, Goto, If, ControlPlaces, ServerPlaces, CyclePlaces,
      CtlPlaces, StartPlaces, ModeInv, Unhurried, RequestFits, OneAtMost, ThreadsFit, ThreadFits, NoThread,
      NoThreadFits, WordFits, Answering, Running, Ending, Stopping, RestPlaces, StoppingPlaces, StartingPlaces, OnReqPlaces
<1>1. CASE Begin(c)
  BY <1>1 DEF Begin, CycleRest, meas
<1>2. CASE LoopState(c)
  BY <1>2 DEF LoopState, Look, ControlRest
<1>3. CASE WithinTime(c)
  BY <1>3 DEF WithinTime, CycleRest, meas
\* While the server waits for the thread to start, this is hurried.
<1>4. CASE TimeOver(c)
  <2>1. RequestFits'
    BY <1>4 DEF TimeOver, CycleRest, meas
  <2>2. ~hurried' => OneAtMost'
    BY <1>4 DEF TimeOver, CycleRest, meas
  <2>3. ~hurried' => ThreadsFit'
    BY <1>4, ZenonT(60) DEF TimeOver, CycleRest, meas
  <2>4. ~hurried' => (NoThread => NoThreadFits)'
    BY <1>4 DEF TimeOver, CycleRest, meas
  <2>5. ~hurried' => WordFits'
    BY <1>4 DEF TimeOver, CycleRest, meas
  <2> QED BY ONLY <2>1, <2>2, <2>3, <2>4, <2>5 DEF ModeInv, Unhurried
<1>5. CASE Measure(c, "loopState")
  BY <1>5 DEF Measure, flags
<1>6. CASE Leave(c)
  BY <1>6 DEF Leave, CycleRest, meas
\* Out of its loop a thread goes straight back to on-request mode.
<1>7. CASE OnReqMode(c)
  BY <1>7 DEF OnReqMode, Look, ControlRest
<1>8. CASE OnReqState(c)
  BY <1>8 DEF OnReqState, Look, ControlRest
<1>9. CASE OnReqSet(c)
  BY <1>9 DEF OnReqSet, ControlRest
<1>10. CASE OnReqClear(c)
  BY <1>10 DEF OnReqClear, ControlRest
<1>11. CASE StopRcvTest(c)
  BY <1>11 DEF StopRcvTest, Look, ControlRest
<1>12. CASE StopRcvSet(c)
  BY <1>12 DEF StopRcvSet, ControlRest
<1>13. CASE StopRcvWait(c)
  BY <1>13 DEF StopRcvWait, Look, ControlRest
<1>14. CASE StopMode(c)
  BY <1>14 DEF StopMode, Look, ControlRest, AfterStop
<1>15. CASE StopState(c)
  BY <1>15 DEF StopState, Look, ControlRest, AfterStop
<1>16. CASE StopSet(c)
  BY <1>16 DEF StopSet, ControlRest
<1>17. CASE StopWait(c)
  BY <1>17 DEF StopWait, Look, ControlRest, AfterStop
<1> QED BY <1>1, <1>2, <1>3, <1>4, <1>5, <1>6, <1>7, <1>8, <1>9, <1>10, <1>11, <1>12, <1>13, <1>14,
           <1>15, <1>16, <1>17 DEF Cycle, Control

\* Every step keeps it.
LEMMA StepKeepsMode ==
  ASSUME TypeInv, ModeInv, [Next]_vars
  PROVE  ModeInv'
<1>1. CASE Receive \/ UNCHANGED vars
  <2>1. /\ pc' = pc /\ request' = request /\ measMode' = measMode /\ cycleState' = cycleState
        /\ cycleDur' = cycleDur /\ tmo' = tmo /\ hasUnread' = hasUnread /\ word' = word
        /\ hurried' = hurried
    BY <1>1 DEF Receive, ReceiveTest, CollectPart, CollectEnd, ReceiveEnd, ReceiveRest, vars, flags,
       meas
  <2> QED BY <2>1 DEF ModeInv, Unhurried, RequestFits, OneAtMost, ThreadsFit, ThreadFits, NoThread,
       NoThreadFits, WordFits, Answering, Running, Ending, Stopping
<1> QED BY <1>1, ServerKeepsMode, CycleKeepsMode DEF Next

\* However the polled flags interleave, MEAS_CTL's answer is true unless the
\* client or the clock was ahead of a cycle thread (rrw_server.cpp:110-140).
THEOREM ModeAlwaysKept == Spec => []ModeIsKept
<1>1. Init => TypeInv /\ ModeInv
  <2> SUFFICES ASSUME Init PROVE ModeInv
    BY InitTypes
  <2>1. pc[Srv] = "recv" /\ \A c \in Cycles : pc[c] = "none"
    BY DEF Init
  <2> QED BY <2>1, RequestTypes DEF Init, ModeInv, Unhurried, RequestFits, OneAtMost, ThreadsFit, NoThread, NoThreadFits,
       WordFits, Answering, RestPlaces, StoppingPlaces, StartingPlaces, OnReqPlaces
<1>2. TypeInv /\ ModeInv /\ [Next]_vars => (TypeInv /\ ModeInv)'
  BY StepKeepsTypes, StepKeepsMode
<1>3. ModeInv => ModeIsKept
  <2> SUFFICES ASSUME ModeInv, pc[Srv] = "reply", request.fn = "MEAS_CTL", ~hurried
               PROVE  /\ request.mode = "ON_REQ" =>
                            word = [mode |-> "ON_REQ", unread |-> FALSE] /\ \A c \in Cycles : ~InLoop(c)
                      /\ request.mode = "CYCLE" /\ cycleDur = 0 =>
                            word.mode = "CYCLE" /\ \E c \in Cycles : InLoop(c)
    BY DEF ModeIsKept
  <2> USE DEF ModeInv, Unhurried, ThreadsFit, Answering, StoppingPlaces, RestPlaces
  <2>1. ASSUME request.mode = "ON_REQ", NEW c \in Cycles PROVE ~InLoop(c)
    BY <2>1 DEF ThreadFits, InLoop
  <2>2. ASSUME request.mode = "CYCLE", cycleDur = 0 PROVE \E c \in Cycles : InLoop(c)
    <3>1. PICK c \in Cycles : pc[c] # "none"
      BY <2>2 DEF NoThread, NoThreadFits
    <3> QED BY <2>2, <3>1 DEF ThreadFits, Running, Ending, InLoop
  <2> QED BY <2>1, <2>2 DEF WordFits
<1> QED BY <1>1, <1>2, <1>3, PTL DEF Spec
=============================================================================
