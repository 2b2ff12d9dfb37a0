---------------------------- MODULE RadarServer ----------------------------
(***************************************************************************)
(* The measurement server of protocol/rrw_server as rrw_server.cbp builds  *)
(* it (target Debug, RTL_SIMULATION defined): three threads and two        *)
(* mutexes.                                                                *)
(*                                                                         *)
(*   radar     UdpRadar::th_fnc_main, fills a sweep pair and captures it   *)
(*   main      UdpServer::start and start_measure, turns a capture into    *)
(*             the published measurement                                   *)
(*   dispatch  UdpServer::th_start_dispatch, answers the client's requests *)
(*                                                                         *)
(* srvMtx is the mutex of the UdpServer object, radMtx the one of its      *)
(* member radar (UdpConnection::mtx: every object has its own).  A copy of *)
(* a structure that another thread could see half done is two steps, so    *)
(* that what the mutexes protect is visible in the model.                  *)
(***************************************************************************)
EXTENDS Integers, Sequences

CONSTANTS
  MaxSweep,   \* bound: sweep pairs the radar thread captures
  InboxCap,   \* bound: requests under way from the client to the server
  ClientFns,  \* the functions the client asks for
  ClientSizes, \* the sizes its requests have
  Garbage     \* what the uninitialised meas_data_curr.meas_index may hold

Functions == {"STATUS", "DATA_ALT", "MEAS_CTL", "GET_TH", "SET_TH", "UNKNOWN"}

\* Cut off behind the header, as long as the protocol says, or longer.
Sizes == {"short", "exact", "long"}

ASSUME ServerAssumption ==
  /\ MaxSweep \in Nat                  \* sweeps are numbered 1..MaxSweep
  /\ InboxCap \in Nat \ {0}            \* the client can send something
  /\ ClientFns \subseteq Functions
  /\ ClientSizes \subseteq Sizes
  /\ Garbage \subseteq 0 .. 255        \* one byte
  /\ Garbage # {}

VARIABLES
  srvMtx, radMtx,        \* owner of each mutex, or "free"
  mainPc, dispPc, radPc, \* where each thread is
  isWorking,             \* UdpServer::is_working
  alive,                 \* FALSE once an uncaught exception ended the process
  status,                \* UdpServer::status: meas_mode, has_unread, _unused
  measData,              \* UdpServer::meas_data, the published measurement
  data,                  \* UdpRadar::data, the radar thread's sweep pair
  dataForServer,         \* UdpRadar::data_for_server
  dataIsCaptured,        \* UdpRadar::data_is_captured
  capture,               \* create_data's local data
  curr,                  \* create_data's locals meas_data_curr and targets
  inbox,                 \* requests on their way to the server
  request,               \* UdpServer::request
  resp,                  \* the response under construction
  sent,                  \* history: the answer given to the current request
  measSent,              \* history: measData went out in a DATA_ALT response
  lateCount              \* history: publications since the mode went off

lockVars   == <<srvMtx, radMtx>>
radarVars  == <<data, dataForServer, dataIsCaptured>>
measVars   == <<capture, curr>>
reqVars    == <<request, resp, sent>>
vars == <<srvMtx, radMtx, mainPc, dispPc, radPc, isWorking, alive, status,
          measData, data, dataForServer, dataIsCaptured, capture, curr,
          inbox, request, resp, sent, measSent, lateCount>>

(***************************************************************************)
(* Data.  A sweep pair names, for either half, the sweep it was filled     *)
(* from; 0 is the empty vector before the first one.  A measurement        *)
(* carries the sweep pair, the capture its targets were computed from, and *)
(* its number.                                                             *)
(***************************************************************************)
NoSweep == 0
SweepId == 0 .. MaxSweep
SweepPair == [rise : SweepId, fall : SweepId]
Pair(n) == [rise |-> n, fall |-> n]
Whole(p) == p.rise = p.fall

Measurement == [sweeps : SweepPair, targets : SweepId, index : 0 .. 255]
NoMeasurement == [sweeps |-> Pair(NoSweep), targets |-> NoSweep, index |-> 0]

Request == [fn : Functions, mode : {0, 1}, valid : BOOLEAN, size : Sizes]
\* Of the other functions the header is read only.
Asked ==
  [fn : ClientFns \ {"MEAS_CTL", "SET_TH"}, mode : {0}, valid : {TRUE}, size : {"exact"}]
    \cup [fn : ClientFns \cap {"MEAS_CTL"}, mode : {0, 1}, valid : {TRUE}, size : ClientSizes]
    \cup [fn : ClientFns \cap {"SET_TH"}, mode : {0}, valid : {TRUE}, size : ClientSizes]
NoRequest == [fn |-> "UNKNOWN", mode |-> 0, valid |-> FALSE, size |-> "exact"]

Bit == {0, 1}
Status == [meas_mode : Bit, has_unread : Bit, unused : Bit]
NoStatus == [meas_mode |-> 0, has_unread |-> 0, unused |-> 0]

\* fn "NONE" is no response; word is the status word, meas the measurement.
Response == [fn : Functions \cup {"NONE"}, word : Status, meas : Measurement]
NoResponse == [fn |-> "NONE", word |-> NoStatus, meas |-> NoMeasurement]

(***************************************************************************)
(* The process after the constructors of the global server: the radar      *)
(* thread runs already (UdpRadar::UdpRadar calls start), main is about to  *)
(* enter UdpServer::start.                                                 *)
(***************************************************************************)
Init ==
  /\ srvMtx = "free" /\ radMtx = "free"
  /\ mainPc = "create" /\ dispPc = "none" /\ radPc = "fill"
  /\ isWorking = FALSE
  /\ alive = TRUE
  /\ status = NoStatus
  /\ measData = NoMeasurement
  /\ data = Pair(NoSweep)
  /\ dataForServer = Pair(NoSweep)
  /\ dataIsCaptured = FALSE
  /\ capture = Pair(NoSweep)
  /\ curr = NoMeasurement
  /\ inbox = <<>>
  /\ request = NoRequest
  /\ resp = NoResponse
  /\ sent = NoResponse
  /\ measSent = FALSE
  /\ lateCount = 0

\* A thread is at a place, and the process has not ended.
RadarAt(place)    == alive /\ radPc = place
MainAt(place)     == alive /\ mainPc = place
DispatchAt(place) == alive /\ dispPc = place

(***************************************************************************)
(* Mutexes.                                                                *)
(***************************************************************************)
SrvLock(t)   == srvMtx = "free" /\ srvMtx' = t
SrvUnlock(t) == srvMtx' = "free"
RadLock(t)   == radMtx = "free" /\ radMtx' = t
RadUnlock(t) == radMtx' = "free"

(***************************************************************************)
(* Thread radar: while (true) read_sweeps().                               *)
(***************************************************************************)
RadarRest == UNCHANGED <<srvMtx, mainPc, dispPc, isWorking, alive, status,
                         measData, measVars, inbox, reqVars, measSent, lateCount>>

\* read_sweeps fills data; nobody else reads data, so one step.
RadarFill ==
  /\ RadarAt("fill") /\ data.rise < MaxSweep
  /\ data' = Pair(data.rise + 1)
  /\ radPc' = "lock"
  /\ RadarRest /\ UNCHANGED <<radMtx, dataForServer, dataIsCaptured>>

RadarLock ==
  /\ RadarAt("lock")
  /\ RadLock("radar")
  /\ radPc' = "copyRise"
  /\ RadarRest /\ UNCHANGED radarVars

\* data_for_server = data, the rise sweep first.
RadarCopyRise ==
  /\ RadarAt("copyRise")
  /\ dataForServer' = [dataForServer EXCEPT !.rise = data.rise]
  /\ radPc' = "copyFall"
  /\ RadarRest /\ UNCHANGED <<radMtx, data, dataIsCaptured>>

RadarCopyFall ==
  /\ RadarAt("copyFall")
  /\ dataForServer' = [dataForServer EXCEPT !.fall = data.fall]
  /\ radPc' = "captured"
  /\ RadarRest /\ UNCHANGED <<radMtx, data, dataIsCaptured>>

RadarCaptured ==
  /\ RadarAt("captured")
  /\ dataIsCaptured' = TRUE
  /\ radPc' = "fill"
  /\ RadUnlock("radar")
  /\ RadarRest /\ UNCHANGED <<data, dataForServer>>

Radar == RadarFill \/ RadarLock \/ RadarCopyRise \/ RadarCopyFall \/ RadarCaptured

(***************************************************************************)
(* Thread main: start().  The dispatcher exists before is_working is set.  *)
(***************************************************************************)
MainRest == UNCHANGED <<radPc, alive, data, dataForServer, inbox, reqVars>>

StartCreate ==
  /\ MainAt("create")
  /\ status' = NoStatus
  /\ dispPc' = "test"
  /\ mainPc' = "setWorking"
  /\ MainRest
  /\ UNCHANGED <<lockVars, isWorking, measData, dataIsCaptured, measVars, measSent, lateCount>>

StartWorking ==
  /\ MainAt("setWorking")
  /\ isWorking' = TRUE
  /\ mainPc' = "loop"
  /\ MainRest
  /\ UNCHANGED <<lockVars, dispPc, status, measData, dataIsCaptured, measVars, measSent, lateCount>>

(***************************************************************************)
(* start_measure(): test the mode under the mutex, measure without it.     *)
(***************************************************************************)
MeasRest == MainRest /\ UNCHANGED <<dispPc, isWorking>>

MeasureLock ==
  /\ MainAt("loop") /\ isWorking
  /\ SrvLock("main")
  /\ mainPc' = "mode"
  /\ MeasRest
  /\ UNCHANGED <<radMtx, status, measData, dataIsCaptured, measVars, measSent, lateCount>>

\* Mutant: the mode is not tested.
MeasureAlways ==
  /\ MainAt("mode")
  /\ SrvUnlock("main")
  /\ mainPc' = "waitLock"
  /\ MeasRest
  /\ UNCHANGED <<radMtx, status, measData, dataIsCaptured, measVars, measSent, lateCount>>

MeasureMode ==
  /\ MainAt("mode")
  /\ SrvUnlock("main")
  /\ mainPc' = IF status.meas_mode = 1 THEN "waitLock" ELSE "loop"
  /\ MeasRest
  /\ UNCHANGED <<radMtx, status, measData, dataIsCaptured, measVars, measSent, lateCount>>

(***************************************************************************)
(* create_data(), first part: UdpRadar::wait_for_data.                     *)
(***************************************************************************)
WaitRest == MeasRest /\ UNCHANGED <<srvMtx, status, measData, measSent, lateCount>>

\* Mutant: wait_for_data tests the flag without taking the mutex.
WaitLockUnlocked ==
  /\ MainAt("waitLock")
  /\ radMtx' = "main"
  /\ mainPc' = "waitTest"
  /\ WaitRest /\ UNCHANGED <<dataIsCaptured, measVars>>

WaitLock ==
  /\ MainAt("waitLock")
  /\ RadLock("main")
  /\ mainPc' = "waitTest"
  /\ WaitRest /\ UNCHANGED <<dataIsCaptured, measVars>>

\* The mutex stays locked when the loop is left by break.
WaitTest ==
  /\ MainAt("waitTest")
  /\ \/ /\ dataIsCaptured
        /\ mainPc' = "takeRise"
        /\ UNCHANGED radMtx
     \/ /\ ~dataIsCaptured
        /\ mainPc' = "waitTimer"
        /\ RadUnlock("main")
  /\ WaitRest /\ UNCHANGED <<dataIsCaptured, measVars>>

\* elapsed_ms() > time_wait_ms returns false, and create_data returns 0.
WaitTimer ==
  /\ MainAt("waitTimer")
  /\ mainPc' \in {"waitLock", "loop"}
  /\ WaitRest /\ UNCHANGED <<radMtx, dataIsCaptured, measVars>>

TakeRise ==
  /\ MainAt("takeRise")
  /\ capture' = [capture EXCEPT !.rise = dataForServer.rise]
  /\ mainPc' = "takeFall"
  /\ WaitRest /\ UNCHANGED <<radMtx, dataIsCaptured, curr>>

TakeFall ==
  /\ MainAt("takeFall")
  /\ capture' = [capture EXCEPT !.fall = dataForServer.fall]
  /\ mainPc' = "taken"
  /\ WaitRest /\ UNCHANGED <<radMtx, dataIsCaptured, curr>>

\* Mutant: data_is_captured is not reset.
TakeKeep ==
  /\ MainAt("taken")
  /\ RadUnlock("main")
  /\ mainPc' = "process"
  /\ WaitRest /\ UNCHANGED <<dataIsCaptured, measVars>>

TakeClear ==
  /\ MainAt("taken")
  /\ dataIsCaptured' = FALSE
  /\ RadUnlock("main")
  /\ mainPc' = "process"
  /\ WaitRest /\ UNCHANGED measVars

(***************************************************************************)
(* create_data(), second part: compute on locals, then publish under the   *)
(* server's mutex.  meas_index is incremented on an uninitialised local.   *)
(***************************************************************************)
Process ==
  /\ MainAt("process")
  /\ \E g \in Garbage :
       curr' = [sweeps |-> capture, targets |-> capture.rise, index |-> (g + 1) % 256]
  /\ mainPc' = "pubLock"
  /\ WaitRest /\ UNCHANGED <<radMtx, dataIsCaptured, capture>>

\* Mutant: the measurement is replaced without the server's mutex.
PublishUnlocked ==
  /\ MainAt("pubLock")
  /\ mainPc' = "pubData"
  /\ MeasRest
  /\ UNCHANGED <<lockVars, status, measData, dataIsCaptured, measVars, measSent, lateCount>>

PublishLock ==
  /\ MainAt("pubLock")
  /\ SrvLock("main")
  /\ mainPc' = "pubData"
  /\ MeasRest
  /\ UNCHANGED <<radMtx, status, measData, dataIsCaptured, measVars, measSent, lateCount>>

\* meas_data = meas_data_curr, whose own targets vector is empty.
PublishData ==
  /\ MainAt("pubData")
  /\ measData' = [curr EXCEPT !.targets = NoSweep]
  /\ measSent' = FALSE
  /\ mainPc' = "pubTargets"
  /\ MeasRest
  /\ UNCHANGED <<lockVars, status, dataIsCaptured, measVars, lateCount>>

PublishTargets ==
  /\ MainAt("pubTargets")
  /\ measData' = [measData EXCEPT !.targets = curr.targets]
  /\ mainPc' = "pubUnread"
  /\ MeasRest
  /\ UNCHANGED <<lockVars, status, dataIsCaptured, measVars, measSent, lateCount>>

PublishUnread ==
  /\ MainAt("pubUnread")
  /\ status' = [status EXCEPT !.has_unread = 1]
  /\ lateCount' = IF status.meas_mode = 0 /\ lateCount < 2 THEN lateCount + 1 ELSE lateCount
  /\ SrvUnlock("main")
  /\ mainPc' = "loop"
  /\ MeasRest
  /\ UNCHANGED <<radMtx, measData, dataIsCaptured, measVars, measSent>>

Main ==
  \/ StartCreate \/ StartWorking \/ MeasureLock \/ MeasureMode
  \/ WaitLock \/ WaitTest \/ WaitTimer \/ TakeRise \/ TakeFall \/ TakeClear
  \/ Process \/ PublishLock \/ PublishData \/ PublishTargets \/ PublishUnread

(***************************************************************************)
(* Thread dispatch: while (is_working) dispatch_request().  The mutex is   *)
(* held while eudp_recvfrom waits for a request: the RTL variant of it has *)
(* no timeout.                                                             *)
(***************************************************************************)
DispRest == UNCHANGED <<radMtx, mainPc, radPc, isWorking, radarVars, measVars, measData>>

DispatchTest ==
  /\ DispatchAt("test")
  /\ dispPc' = IF isWorking THEN "lock" ELSE "exited"
  /\ DispRest
  /\ UNCHANGED <<srvMtx, alive, status, inbox, reqVars, measSent, lateCount>>

DispatchLock ==
  /\ DispatchAt("lock")
  /\ SrvLock("dispatch")
  /\ dispPc' = "recv"
  /\ DispRest
  /\ UNCHANGED <<alive, status, inbox, reqVars, measSent, lateCount>>

\* Mutant: the return for an invalid request leaves the mutex locked.
GetRequestKeepsLock ==
  /\ DispatchAt("recv") /\ inbox # <<>>
  /\ inbox' = Tail(inbox)
  /\ request' = Head(inbox)
  /\ resp' = NoResponse /\ sent' = NoResponse
  /\ dispPc' = IF Head(inbox).valid THEN "serve" ELSE "test"
  /\ DispRest
  /\ UNCHANGED <<srvMtx, alive, status, measSent, lateCount>>

\* get_request: a message that does not start with 0x5A is dropped.
GetRequest ==
  /\ DispatchAt("recv") /\ inbox # <<>>
  /\ inbox' = Tail(inbox)
  /\ request' = Head(inbox)
  /\ resp' = NoResponse /\ sent' = NoResponse
  /\ dispPc' = IF Head(inbox).valid THEN "serve" ELSE "unlock"
  /\ DispRest
  /\ UNCHANGED <<srvMtx, alive, status, measSent, lateCount>>

Serve(fn) ==
  /\ DispatchAt("serve") /\ request.fn = fn
  /\ DispRest /\ UNCHANGED <<srvMtx, inbox, request, sent>>

\* Mutants: has_unread is counted down; _unused is not reset.
AfterStatusCounted(s) ==
  IF s.unused = 1 THEN [s EXCEPT !.has_unread = @ - 1, !.unused = 0] ELSE s
AfterStatusSticky(s) == IF s.unused = 1 THEN [s EXCEPT !.has_unread = 0] ELSE s

\* _unused remembers that a DATA_ALT request came since the last STATUS.
AfterStatus(s) == IF s.unused = 1 THEN [s EXCEPT !.has_unread = 0, !.unused = 0] ELSE s

ServeStatus ==
  /\ Serve("STATUS")
  /\ status' = AfterStatus(status)
  /\ resp' = [NoResponse EXCEPT !.fn = "STATUS", !.word = status']
  /\ dispPc' = "send"
  /\ UNCHANGED <<alive, measSent, lateCount>>

\* create_response(&meas_data) appends the sweeps, then the targets.
ServeData ==
  /\ Serve("DATA_ALT")
  /\ resp' = [NoResponse EXCEPT !.fn = "DATA_ALT",
                                !.meas = [measData EXCEPT !.targets = NoSweep]]
  /\ dispPc' = "dataTargets"
  /\ UNCHANGED <<alive, status, measSent, lateCount>>

\* Mutant: _unused is not set.
ServeDataForgotten ==
  /\ DispatchAt("dataTargets")
  /\ resp' = [resp EXCEPT !.meas.targets = measData.targets]
  /\ measSent' = TRUE
  /\ dispPc' = "send"
  /\ DispRest /\ UNCHANGED <<srvMtx, alive, status, inbox, request, sent, lateCount>>

ServeDataTargets ==
  /\ DispatchAt("dataTargets")
  /\ resp' = [resp EXCEPT !.meas.targets = measData.targets]
  /\ status' = [status EXCEPT !.unused = 1]
  /\ measSent' = TRUE
  /\ dispPc' = "send"
  /\ DispRest /\ UNCHANGED <<srvMtx, alive, inbox, request, sent, lateCount>>

\* The parsers read with vector::at.  That of MEAS_CTL wants the mode and the
\* duration; that of SET_TH one byte more than the 3 + 4096 of a request.
TooShort(r) ==
  \/ r.fn = "MEAS_CTL" /\ r.size = "short"
  \/ r.fn = "SET_TH" /\ r.size # "long"

\* What at throws nothing catches, and the process ends.
ServeThrows ==
  /\ DispatchAt("serve") /\ TooShort(request)
  /\ alive' = FALSE
  /\ DispRest
  /\ UNCHANGED <<srvMtx, dispPc, status, inbox, reqVars, measSent, lateCount>>

ServeMeasCtl ==
  /\ Serve("MEAS_CTL") /\ ~TooShort(request)
  /\ status' = [status EXCEPT !.meas_mode = request.mode]
  /\ lateCount' = IF request.mode = 1 THEN 0 ELSE lateCount
  /\ resp' = [NoResponse EXCEPT !.fn = "MEAS_CTL", !.word = status']
  /\ dispPc' = "send"
  /\ UNCHANGED <<alive, measSent>>

ServeGetTh ==
  /\ Serve("GET_TH")
  /\ resp' = [NoResponse EXCEPT !.fn = "GET_TH"]
  /\ dispPc' = "send"
  /\ UNCHANGED <<alive, status, measSent, lateCount>>

ServeSetTh ==
  /\ Serve("SET_TH") /\ ~TooShort(request)
  /\ resp' = [NoResponse EXCEPT !.fn = "SET_TH"]
  /\ dispPc' = "send"
  /\ UNCHANGED <<alive, status, measSent, lateCount>>

ServeUnknown ==
  /\ Serve("UNKNOWN")
  /\ dispPc' = "unlock"
  /\ UNCHANGED <<alive, status, resp, measSent, lateCount>>

SendResp ==
  /\ DispatchAt("send")
  /\ sent' = resp
  /\ dispPc' = "unlock"
  /\ DispRest
  /\ UNCHANGED <<srvMtx, alive, status, inbox, request, resp, measSent, lateCount>>

\* The locals of the request end with it: what the history kept of the
\* answer is dropped too.
DispatchUnlock ==
  /\ DispatchAt("unlock")
  /\ SrvUnlock("dispatch")
  /\ request' = NoRequest /\ resp' = NoResponse /\ sent' = NoResponse
  /\ dispPc' = "test"
  /\ DispRest
  /\ UNCHANGED <<alive, status, inbox, measSent, lateCount>>

Dispatch ==
  \/ DispatchTest \/ DispatchLock \/ GetRequest
  \/ ServeStatus \/ ServeData \/ ServeDataTargets \/ ServeMeasCtl
  \/ ServeThrows \/ ServeGetTh \/ ServeSetTh \/ ServeUnknown
  \/ SendResp \/ DispatchUnlock

(***************************************************************************)
(* The client (external): any request at any time.  A lost, repeated or    *)
(* reordered datagram is one more sequence of requests it could have sent. *)
(***************************************************************************)
ClientSend ==
  /\ alive /\ Len(inbox) < InboxCap
  /\ \E r \in Asked : inbox' = Append(inbox, r)
  /\ UNCHANGED <<lockVars, mainPc, dispPc, radPc, isWorking, alive, status, measData,
                 radarVars, measVars, reqVars, measSent, lateCount>>

\* A message that is no request of the protocol: the mark is not 0x5A.
ClientGarble ==
  /\ alive /\ Len(inbox) < InboxCap
  /\ inbox' = Append(inbox, NoRequest)
  /\ UNCHANGED <<lockVars, mainPc, dispPc, radPc, isWorking, alive, status, measData,
                 radarVars, measVars, reqVars, measSent, lateCount>>

Next == Radar \/ Main \/ Dispatch \/ ClientSend \/ ClientGarble

Spec == Init /\ [][Next]_vars

(***************************************************************************)
(* Fairness.  Every thread keeps running (WF).  Lock acquisition is SF:    *)
(* main and dispatch unlock and lock again at once, and a thread waiting   *)
(* on the pthread mutex is assumed not to lose that race for ever.  The    *)
(* client keeps polling (WF), as client_stimulus_cpu.vhd does.             *)
(***************************************************************************)
Fairness ==
  /\ WF_vars(Radar) /\ WF_vars(Main) /\ WF_vars(Dispatch)
  /\ SF_vars(RadarLock) /\ SF_vars(MeasureLock) /\ SF_vars(WaitLock)
  /\ SF_vars(PublishLock) /\ SF_vars(DispatchLock)
  /\ WF_vars(ClientSend)

FairSpec == Spec /\ Fairness

-----------------------------------------------------------------------------
(* Properties *)

\* The types of the variables, and which values each thread's place allows.
TypeOK ==
  /\ srvMtx \in {"free", "main", "dispatch"}
  /\ radMtx \in {"free", "main", "radar"}
  /\ mainPc \in {"create", "setWorking", "loop", "mode", "waitLock", "waitTest", "waitTimer",
                 "takeRise", "takeFall", "taken", "process", "pubLock", "pubData",
                 "pubTargets", "pubUnread"}
  /\ dispPc \in {"none", "test", "lock", "recv", "serve", "dataTargets", "send", "unlock", "exited"}
  /\ radPc \in {"fill", "lock", "copyRise", "copyFall", "captured"}
  /\ isWorking \in BOOLEAN /\ alive \in BOOLEAN
  /\ status \in Status
  /\ measData \in Measurement
  /\ data \in SweepPair /\ dataForServer \in SweepPair /\ dataIsCaptured \in BOOLEAN
  /\ capture \in SweepPair
  /\ curr \in Measurement
  /\ inbox \in Seq(Request) /\ Len(inbox) <= InboxCap
  /\ request \in Request
  /\ resp \in Response /\ sent \in Response
  /\ measSent \in BOOLEAN
  /\ lateCount \in 0 .. 2

\* The capture that create_data works on has its rise and its fall sweep
\* from the same read_sweeps: the radar's mutex keeps the two copies of
\* data_for_server (UdpRadar.cpp:140 and 199) apart.
CaptureIntact == mainPc \in {"taken", "process", "pubLock"} => Whole(capture)

\* A DATA_ALT response never mixes measurements: rise, fall and targets come
\* from one capture, although the response is built in two parts and
\* meas_data is replaced in two assignments (UdpServer.cpp:303-304).
ReplyConsistent ==
  sent.fn = "DATA_ALT" => Whole(sent.meas.sweeps) /\ sent.meas.targets = sent.meas.sweeps.rise

\* A STATUS response that announces an unread measurement is right: one was
\* published and no DATA_ALT response carried it yet (the use of _unused,
\* UdpServer.cpp:192-194 and 211).
UnreadIsNew ==
  sent.fn = "STATUS" /\ sent.word.has_unread = 1 => measData.sweeps.rise # NoSweep /\ ~measSent

\* Switching measuring off stops it up to the measurement under way: at most
\* one is published while the mode stays off (the mode is tested at
\* UdpServer.cpp:75, the measurement published at 303).
AtMostOneLate == lateCount <= 1

\* Every published measurement is of a later sweep than the one it
\* replaces: no capture is handed over twice and none overtakes another.
MeasurementsAdvance ==
  [][mainPc = "pubData" /\ mainPc' = "pubTargets"
       => measData'.sweeps.rise > measData.sweeps.rise]_vars

\* A finished measurement is published: the dispatcher that waits for
\* requests with the mutex locked does not keep it for ever.
MeasurementPublished == (mainPc = "pubLock") ~> (mainPc = "pubUnread" \/ ~alive)

-----------------------------------------------------------------------------
(* What the protocol document says and the code does not do.               *)

\* protol.txt 3.5: has_unread is 0 if the data of the last measurement have
\* been requested already, so never while they have not.
NothingMissed ==
  sent.fn = "STATUS" /\ sent.word.has_unread = 0 /\ measData.sweeps.rise # NoSweep => measSent
=============================================================================
