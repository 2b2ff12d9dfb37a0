----------------------------- MODULE RcliServer -----------------------------
(***************************************************************************)
(* The previous measurement server: rrw_server.cpp (the request loop       *)
(* srv_do), radar_cli.cpp (the radar client) and the threads the client    *)
(* starts.                                                                 *)
(*                                                                         *)
(*   Srv         srv_do: receive, handle, answer                           *)
(*   Cycles      rcli_cycle_fn, measures until stopped or out of time      *)
(*   receive     rcli_rcv_loop_fn, collects packets under the mutex        *)
(*                                                                         *)
(* The threads hand over by polling cycle_state, rcv_loop_state and        *)
(* meas_mode, which no lock protects: every access to one of the three is  *)
(* a step of its own.  rcli_cycle_stop and rcli_en_onreq_mode are called   *)
(* by the server and by a cycle thread that ran out of time, so their      *)
(* steps have the calling thread as parameter.  What runs between lock and *)
(* unlock is one step where the holder does not wait.                      *)
(***************************************************************************)
EXTENDS Integers, FiniteSets

CONSTANTS
  Cycles,     \* bound: the cycle threads that may exist at a time
  Durations   \* the values of cycle_dur a client asks for, 0 is without end

ASSUME RcliAssumption ==
  /\ IsFiniteSet(Cycles) /\ "srv" \notin Cycles
  /\ Durations \subseteq Nat

VARIABLES
  pc,           \* where the server and each cycle thread are
  rcvPc,        \* where the receive loop is
  request,      \* the request being handled
  measMode,     \* meas_mode
  cycleState,   \* cycle_state
  rcvLoopState, \* rcv_loop_state
  cycleDur,     \* cycle_dur
  tmo,          \* rcli_cycle_fn's local tmo, per cycle thread
  mtx,          \* owner of mtx while a collection is under way
  mixed,        \* data holds parts of two collections
  lastUnsucc, hasUnread,
  word,         \* the status word of the response to MEAS_CTL
  copied,       \* what the last DATA_ALT response was copied from
  hurried       \* history: the client or the clock was ahead of a cycle thread

flags == <<measMode, cycleState, rcvLoopState, cycleDur>>
meas  == <<mtx, mixed, lastUnsucc, hasUnread>>
vars  == <<pc, rcvPc, request, flags, tmo, meas, word, copied, hurried>>

Srv == "srv"
Threads == {Srv} \cup Cycles

Modes == {"ON_REQ", "CYCLE"}
Ctl(mode, dur) == [fn |-> "MEAS_CTL", mode |-> mode, dur |-> dur]
Ask(fn) == [fn |-> fn, mode |-> "ON_REQ", dur |-> 0]
\* "OTHER" is GET_TH and whatever is answered as a bad request.
Requests == {Ask(fn) : fn \in {"STATUS", "DATA_ALT", "SET_TH", "OTHER"}}
              \cup {Ctl(mode, dur) : mode \in Modes, dur \in Durations}

InLoop(c) == pc[c] \in {"begin", "loopState", "loopTime", "meas", "leave"}

NoWord == [mode |-> "ON_REQ", unread |-> FALSE]
NoCopy == [mixed |-> FALSE, unsucc |-> FALSE]

\* rcli_init; the last two calls of it are in a comment, so no thread runs.
Init ==
  /\ pc = [t \in Threads |-> IF t = Srv THEN "recv" ELSE "none"]
  /\ rcvPc = "none"
  /\ request = Ask("OTHER")
  /\ measMode = "ON_REQ" /\ cycleState = "ENDED" /\ rcvLoopState = "ENDED"
  /\ cycleDur \in Durations
  /\ tmo = [c \in Cycles |-> FALSE]
  /\ mtx = "free" /\ mixed = FALSE /\ lastUnsucc = FALSE /\ hasUnread = FALSE
  /\ word = NoWord /\ copied = NoCopy
  /\ hurried = FALSE

Goto(t, place) == pc' = [pc EXCEPT ![t] = place]
If(cond, yes, no) == IF cond THEN yes ELSE no

-----------------------------------------------------------------------------
(***************************************************************************)
(* rcli_en_onreq_mode(t) and rcli_cycle_stop(t).                           *)
(***************************************************************************)
\* Where cycle_stop returns to: the server restarts the cycle with it, all
\* other calls come from en_onreq_mode.
AfterStop(t) == If(t = Srv /\ request.mode = "CYCLE", "restartDur", "onreqSet")

ControlRest == UNCHANGED <<rcvPc, request, cycleDur, tmo, mtx, mixed, lastUnsucc, word, copied, hurried>>
Look(t, place, next) ==
  /\ pc[t] = place /\ Goto(t, next)
  /\ ControlRest /\ UNCHANGED <<measMode, cycleState, rcvLoopState, hasUnread>>

OnReqMode(t)  == Look(t, "onreqMode", If(measMode = "CYCLE", "onreqState", "onreqSet"))
OnReqState(t) == Look(t, "onreqState", If(cycleState # "ENDED", "stopRcvTest", "onreqSet"))

OnReqSet(t) ==
  /\ pc[t] = "onreqSet" /\ Goto(t, "onreqClear")
  /\ measMode' = "ON_REQ"
  /\ ControlRest /\ UNCHANGED <<cycleState, rcvLoopState, hasUnread>>

OnReqClear(t) ==
  /\ pc[t] = "onreqClear" /\ Goto(t, If(t = Srv, "setDur", "none"))
  /\ hasUnread' = FALSE
  /\ ControlRest /\ UNCHANGED <<measMode, cycleState, rcvLoopState>>

\* rcli_rcv_loop_stop
StopRcvTest(t) == Look(t, "stopRcvTest", If(rcvLoopState # "ENDED", "stopRcvSet", "stopMode"))

StopRcvSet(t) ==
  /\ pc[t] = "stopRcvSet" /\ Goto(t, "stopRcvWait")
  /\ rcvLoopState' = "STOP"
  /\ ControlRest /\ UNCHANGED <<measMode, cycleState, hasUnread>>

StopRcvWait(t) == rcvLoopState = "ENDED" /\ Look(t, "stopRcvWait", "stopMode")

\* The rest of rcli_cycle_stop.
StopMode(t)  == Look(t, "stopMode", If(measMode = "CYCLE", "stopState", AfterStop(t)))

\* Mutant: the cycle is waited for and never told to stop.
StopStateUntold(t) == Look(t, "stopState", If(cycleState = "DURING", "stopWait", AfterStop(t)))

StopState(t) == Look(t, "stopState", If(cycleState = "DURING", "stopSet", AfterStop(t)))

StopSet(t) ==
  /\ pc[t] = "stopSet" /\ Goto(t, "stopWait")
  /\ cycleState' = "STOP"
  /\ ControlRest /\ UNCHANGED <<measMode, rcvLoopState, hasUnread>>

\* Mutant: the cycle's end is not waited for.
StopNoWait(t) == Look(t, "stopWait", AfterStop(t))

StopWait(t) == cycleState = "ENDED" /\ Look(t, "stopWait", AfterStop(t))

Control(t) ==
  \/ OnReqMode(t) \/ OnReqState(t) \/ OnReqSet(t) \/ OnReqClear(t)
  \/ StopRcvTest(t) \/ StopRcvSet(t) \/ StopRcvWait(t)
  \/ StopMode(t) \/ StopState(t) \/ StopSet(t) \/ StopWait(t)

-----------------------------------------------------------------------------
(***************************************************************************)
(* rcli_cycle_start, called by the server only.                            *)
(***************************************************************************)
StartRcvTest == Look(Srv, "startRcvTest", If(rcvLoopState = "ENDED", "startRcvSet", "startMode"))

\* rcv_loop_state = RCV_START; pthread_create(rcli_rcv_loop_fn)
StartRcvSet ==
  /\ pc[Srv] = "startRcvSet" /\ Goto(Srv, "startMode")
  /\ rcvLoopState' = "START" /\ rcvPc' = "test"
  /\ UNCHANGED <<request, measMode, cycleState, cycleDur, tmo, meas, word, copied, hurried>>

StartMode  == Look(Srv, "startMode", If(measMode = "CYCLE", "startState", "update"))

\* Mutant: a cycle is started whatever became of the one before.
StartStateAlways == Look(Srv, "startState", "startSet")

StartState == Look(Srv, "startState", If(cycleState = "ENDED", "startSet", "update"))

\* Threads that do not run are alike.
FreeCycle == CHOOSE c \in Cycles : pc[c] = "none"

\* cycle_state = CYCLE_START; pthread_create(rcli_cycle_fn)
StartSet ==
  /\ pc[Srv] = "startSet"
  /\ cycleState' = "START"
  /\ pc' = [pc EXCEPT ![Srv] = "startWait", ![FreeCycle] = "begin"]
  /\ UNCHANGED <<rcvPc, request, measMode, rcvLoopState, cycleDur, tmo, meas, word, copied, hurried>>

StartWait == cycleState = "DURING" /\ Look(Srv, "startWait", "update")

Start == StartRcvTest \/ StartRcvSet \/ StartMode \/ StartState \/ StartSet \/ StartWait

-----------------------------------------------------------------------------
(***************************************************************************)
(* The mutex and what is done under it.                                    *)
(***************************************************************************)
\* rcli_meas: collecting was left to the receive loop, its last result counts.
Measure(t, next) ==
  /\ pc[t] = "meas" /\ Goto(t, next)
  /\ mtx = "free"
  /\ hasUnread' = (hasUnread \/ ~lastUnsucc)
  /\ UNCHANGED <<rcvPc, request, flags, tmo, mtx, mixed, lastUnsucc, word, copied, hurried>>

\* Mutant: rcli_copy_last_raw copies without the mutex.
CopyUnlocked ==
  /\ pc[Srv] = "copy" /\ Goto(Srv, "reply")
  /\ copied' = [mixed |-> mixed, unsucc |-> lastUnsucc]
  /\ hasUnread' = FALSE
  /\ UNCHANGED <<rcvPc, request, flags, tmo, mtx, mixed, lastUnsucc, word, hurried>>

\* rcli_copy_last_raw, whether the last collection succeeded or not.
Copy ==
  /\ pc[Srv] = "copy" /\ Goto(Srv, "reply")
  /\ mtx = "free"
  /\ copied' = [mixed |-> mixed, unsucc |-> lastUnsucc]
  /\ hasUnread' = FALSE
  /\ UNCHANGED <<rcvPc, request, flags, tmo, mtx, mixed, lastUnsucc, word, hurried>>

\* srv_handle_setth_req: the new points take the place of the old ones.
SetTh == mtx = "free" /\ Look(Srv, "setTh", "reply")

-----------------------------------------------------------------------------
(***************************************************************************)
(* A cycle thread: rcli_cycle_fn.                                          *)
(***************************************************************************)
CycleRest == UNCHANGED <<rcvPc, request, measMode, rcvLoopState, cycleDur, meas, word, copied>>

Begin(c) ==
  /\ pc[c] = "begin" /\ Goto(c, "loopState")
  /\ cycleState' = "DURING"
  /\ CycleRest /\ UNCHANGED <<tmo, hurried>>

LoopState(c) == Look(c, "loopState", If(cycleState # "STOP", "loopTime", "leave"))

WithinTime(c) ==
  /\ pc[c] = "loopTime" /\ Goto(c, "meas")
  /\ tmo' = [tmo EXCEPT ![c] = TRUE]
  /\ CycleRest /\ UNCHANGED <<cycleState, hurried>>

\* The time is over, which a server that has not yet seen CYCLE_DURING misses.
TimeOver(c) ==
  /\ pc[c] = "loopTime" /\ Goto(c, "leave")
  /\ cycleDur # 0
  /\ tmo' = [tmo EXCEPT ![c] = FALSE]
  /\ hurried' = (hurried \/ pc[Srv] = "startWait")
  /\ CycleRest /\ UNCHANGED cycleState

\* Mutant: a cycle that is out of time leaves the mode as it is.
LeaveOnly(c) ==
  /\ pc[c] = "leave" /\ Goto(c, "none")
  /\ cycleState' = "ENDED" /\ tmo' = [tmo EXCEPT ![c] = FALSE]
  /\ CycleRest /\ UNCHANGED hurried

Leave(c) ==
  /\ pc[c] = "leave" /\ Goto(c, If(tmo[c], "none", "onreqMode"))
  /\ cycleState' = "ENDED" /\ tmo' = [tmo EXCEPT ![c] = FALSE]
  /\ CycleRest /\ UNCHANGED hurried

Cycle(c) ==
  \/ Begin(c) \/ LoopState(c) \/ WithinTime(c) \/ TimeOver(c) \/ Measure(c, "loopState")
  \/ Leave(c) \/ Control(c)

-----------------------------------------------------------------------------
(***************************************************************************)
(* The receive loop: rcli_rcv_loop_fn with rcli_collect, which writes each *)
(* packet it accepts into data at once.                                    *)
(***************************************************************************)
ReceiveRest == UNCHANGED <<pc, request, measMode, cycleState, cycleDur, tmo, hasUnread, word, copied, hurried>>

\* The test and the lock that follows it: nobody else waits inside the mutex.
ReceiveTest ==
  /\ rcvPc = "test"
  /\ IF rcvLoopState # "STOP"
       THEN rcvPc' = "collect" /\ mtx' = "receive"
       ELSE rcvPc' = "end" /\ UNCHANGED mtx
  /\ ReceiveRest /\ UNCHANGED <<rcvLoopState, mixed, lastUnsucc>>

\* The first packet of a collection.
CollectPart ==
  /\ rcvPc = "collect" /\ rcvPc' = "collecting"
  /\ mixed' = TRUE
  /\ ReceiveRest /\ UNCHANGED <<rcvLoopState, mtx, lastUnsucc>>

\* Mutant: a collection that failed keeps the mutex.
CollectEndLocked ==
  /\ \/ rcvPc = "collecting" /\ mixed' = FALSE /\ lastUnsucc' = FALSE /\ mtx' = "free"
     \/ rcvPc \in {"collect", "collecting"} /\ lastUnsucc' = TRUE /\ UNCHANGED <<mixed, mtx>>
  /\ rcvPc' = "test"
  /\ ReceiveRest /\ UNCHANGED rcvLoopState

\* The eighth one, or an error of the socket, with or without a first packet.
CollectEnd ==
  /\ \/ rcvPc = "collecting" /\ mixed' = FALSE /\ lastUnsucc' = FALSE
     \/ rcvPc \in {"collect", "collecting"} /\ lastUnsucc' = TRUE /\ UNCHANGED mixed
  /\ rcvPc' = "test" /\ mtx' = "free"
  /\ ReceiveRest /\ UNCHANGED rcvLoopState

ReceiveEnd ==
  /\ rcvPc = "end" /\ rcvPc' = "none"
  /\ rcvLoopState' = "ENDED"
  /\ ReceiveRest /\ UNCHANGED <<mtx, mixed, lastUnsucc>>

Receive == ReceiveTest \/ CollectPart \/ CollectEnd \/ ReceiveEnd

-----------------------------------------------------------------------------
(***************************************************************************)
(* The server: srv_recv_req, srv_handle_req, srv_prepare_resp,             *)
(* srv_send_resp.                                                          *)
(***************************************************************************)
\* A cycle that can end by itself, or has not measured yet.
Unsettled == \E c \in Cycles : pc[c] # "none" /\ (cycleDur # 0 \/ ~tmo[c])

Handler(fn) ==
  CASE fn = "STATUS"   -> "update"
    [] fn = "DATA_ALT" -> "dataMode"
    [] fn = "MEAS_CTL" -> "ctlMode"
    [] fn = "SET_TH"   -> "setTh"
    [] fn = "OTHER"    -> "reply"

RecvReq ==
  /\ pc[Srv] = "recv"
  /\ \E r \in Requests :
       /\ r.mode = "CYCLE" => \E c \in Cycles : pc[c] = "none"
       /\ request' = r
       /\ Goto(Srv, Handler(r.fn))
       /\ hurried' = (hurried \/ (r.fn = "MEAS_CTL" /\ Unsettled))
  /\ UNCHANGED <<rcvPc, flags, tmo, meas, word, copied>>

DataMode == Look(Srv, "dataMode", If(measMode = "ON_REQ", "meas", "update"))

\* srv_handle_meas_ctl_req looks at the mode first.
CtlMode ==
  Look(Srv, "ctlMode",
       If(request.mode = "ON_REQ", If(measMode = "CYCLE", "onreqMode", "setDur"),
                                   If(measMode = "ON_REQ", "enableDur", "stopRcvTest")))

SetDur(place, next) ==
  /\ pc[Srv] = place /\ Goto(Srv, next)
  /\ cycleDur' = request.dur
  /\ UNCHANGED <<rcvPc, request, measMode, cycleState, rcvLoopState, tmo, meas, word, copied, hurried>>

\* rcli_en_cycle_mode
EnableCycle ==
  /\ pc[Srv] = "enable"
  /\ \/ measMode = "ON_REQ" /\ measMode' = "CYCLE" /\ Goto(Srv, "startRcvTest")
     \/ measMode # "ON_REQ" /\ UNCHANGED measMode /\ Goto(Srv, "update")
  /\ ControlRest /\ UNCHANGED <<cycleState, rcvLoopState, hasUnread>>

\* srv_update_status; the word is kept where a property asks for it.
UpdateStatus ==
  /\ pc[Srv] = "update" /\ Goto(Srv, If(request.fn = "DATA_ALT", "copy", "reply"))
  /\ word' = If(request.fn = "MEAS_CTL", [mode |-> measMode, unread |-> hasUnread], NoWord)
  /\ UNCHANGED <<rcvPc, request, flags, tmo, meas, copied, hurried>>

\* What was kept of the request and its response is dropped.
SendResp ==
  /\ pc[Srv] = "reply" /\ Goto(Srv, "recv")
  /\ request' = Ask("OTHER") /\ word' = NoWord /\ copied' = NoCopy
  /\ UNCHANGED <<rcvPc, flags, tmo, meas, hurried>>

\* A request is on the way through the server.
Handle ==
  \/ DataMode \/ CtlMode \/ EnableCycle
  \/ SetDur("setDur", "update") \/ SetDur("enableDur", "enable")
  \/ SetDur("restartDur", "startRcvTest")
  \/ Measure(Srv, "update") \/ Copy \/ SetTh \/ UpdateStatus \/ SendResp
  \/ Control(Srv) \/ Start

Next == RecvReq \/ Handle \/ (\E c \in Cycles : Cycle(c)) \/ Receive

Spec == Init /\ [][Next]_vars

(***************************************************************************)
(* Every thread runs (WF).  The receive loop sleeps 10 ms with the mutex   *)
(* free after each collection, so who waits for it gets it (SF).  A finite *)
(* duration passes (SF of TimeOver).  A collection ends, with the eighth   *)
(* packet or by the socket's timeout.  Only one thread is in the cycle's   *)
(* loop (OneCycle), so the fairness of its steps is stated for all of them *)
(* at once.                                                                *)
(***************************************************************************)
Fairness ==
  /\ WF_vars(Handle) /\ WF_vars(Receive)
  /\ \A c \in Cycles : WF_vars(Cycle(c))
  /\ SF_vars(\E c \in Cycles : Measure(c, "loopState")) /\ SF_vars(\E c \in Cycles : TimeOver(c))
  /\ SF_vars(Measure(Srv, "update") \/ Copy \/ SetTh)

FairSpec == Spec /\ Fairness

-----------------------------------------------------------------------------
(* Properties *)

ControlPlaces ==
  {"onreqMode", "onreqState", "onreqSet", "onreqClear", "stopRcvTest", "stopRcvSet",
   "stopRcvWait", "stopMode", "stopState", "stopSet", "stopWait"}
ServerPlaces ==
  {"recv", "update", "dataMode", "ctlMode", "setTh", "reply", "meas", "copy", "setDur",
   "enableDur", "enable", "restartDur", "startRcvTest", "startRcvSet", "startMode",
   "startState", "startSet", "startWait"}
CyclePlaces == {"none", "begin", "loopState", "loopTime", "meas", "leave"}

\* The types of the variables; the mutex is owned by the receive loop exactly
\* while it collects.
TypeOK ==
  /\ pc \in [Threads -> ControlPlaces \cup ServerPlaces \cup CyclePlaces]
  /\ pc[Srv] \in ControlPlaces \cup ServerPlaces
  /\ \A c \in Cycles : pc[c] \in ControlPlaces \cup CyclePlaces
  /\ rcvPc \in {"none", "test", "collect", "collecting", "end"}
  /\ request \in Requests /\ measMode \in Modes
  /\ cycleState \in {"START", "DURING", "STOP", "ENDED"}
  /\ rcvLoopState \in {"START", "STOP", "ENDED"}
  /\ cycleDur \in Durations /\ tmo \in [Cycles -> BOOLEAN]
  /\ mtx = If(rcvPc \in {"collect", "collecting"}, "receive", "free")
  /\ mixed \in BOOLEAN /\ lastUnsucc \in BOOLEAN /\ hasUnread \in BOOLEAN /\ hurried \in BOOLEAN
  /\ word \in [mode : Modes, unread : BOOLEAN]
  /\ copied \in [mixed : BOOLEAN, unsucc : BOOLEAN]

\* In every interleaving of the polled flags, also with a cycle thread that
\* is still switching to on-request mode while the server starts the next,
\* at most one thread measures (radar_cli.cpp:84-150).
OneCycle == \A c, d \in Cycles : InLoop(c) /\ InLoop(d) => c = d

\* A DATA_ALT response that mixes two collections was copied after a
\* collection that failed half-way: the copy never runs into a collection under
\* way (radar_cli.cpp:178, 289-305).  The mark is the server's last_unsucc; the
\* response has no field for it, a client sees it in a later STATUS only.
MixedIsMarked == copied.mixed => copied.unsucc

\* Unless the client or the clock was ahead of a cycle thread, the answer to
\* MEAS_CTL says what is: after ON_REQ no thread measures and nothing is
\* unread, after CYCLE without end a thread measures (rrw_server.cpp:110-140
\* with the threads of radar_cli.cpp).
ModeIsKept ==
  pc[Srv] = "reply" /\ request.fn = "MEAS_CTL" /\ ~hurried =>
     /\ request.mode = "ON_REQ" =>
           word = [mode |-> "ON_REQ", unread |-> FALSE] /\ \A c \in Cycles : ~InLoop(c)
     /\ request.mode = "CYCLE" /\ cycleDur = 0 =>
           word.mode = "CYCLE" /\ \E c \in Cycles : InLoop(c)

\* Every request is answered, also while the receive loop collects and the
\* cycle measures; MEAS_CTL alone may wait in vain for a flag, and only when
\* the client or the clock was ahead of a cycle thread (rrw_server.cpp:97-223,
\* radar_cli.cpp:84-207).
RequestAnswered ==
  (pc[Srv] # "recv") ~> (pc[Srv] = "reply" \/ (hurried /\ request.fn = "MEAS_CTL"))

\* A cycle with a duration ends by itself and leaves on-request mode behind,
\* unless somebody was ahead of it (radar_cli.cpp:100-128).
LimitedCycleEnds ==
  (cycleDur # 0 /\ \E c \in Cycles : InLoop(c)) ~> (measMode = "ON_REQ" \/ hurried)
=============================================================================
