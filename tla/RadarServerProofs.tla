------------------------- MODULE RadarServerProofs -------------------------
(***************************************************************************)
(* The safety properties of RadarServer for every number of sweeps, every  *)
(* inbox, every set of client functions.  The inductive invariant is       *)
(* TypeOK together with Locking (who holds which mutex follows from the    *)
(* places of the threads), SweepOrder and SweepWhole (what each copy of a  *)
(* sweep pair holds), ReplyWhole, UnreadTrue and LateBound.                *)
(***************************************************************************)
EXTENDS RadarServerRefines, SequenceTheorems, TLAPS

-----------------------------------------------------------------------------
(* Types *)

\* The constant records are of their types.
LEMMA ConstantTypes ==
  /\ NoSweep \in SweepId
  /\ Pair(NoSweep) \in SweepPair
  /\ NoStatus \in Status
  /\ NoMeasurement \in Measurement
  /\ NoRequest \in Request
  /\ NoResponse \in Response
<1>1. Pair(NoSweep) \in SweepPair /\ NoSweep \in SweepId
  BY ServerAssumption DEF Pair, NoSweep, SweepPair, SweepId
<1>2. NoStatus \in Status
  BY DEF NoStatus, Status, Bit
<1>3. NoMeasurement \in Measurement
  BY <1>1 DEF NoMeasurement, Measurement
<1>4. NoRequest \in Request
  BY DEF NoRequest, Request, Functions, Sizes
<1>5. NoResponse \in Response
  BY <1>2, <1>3 DEF NoResponse, Response
<1> QED
  BY <1>1, <1>2, <1>3, <1>4, <1>5

\* TypeOK is an invariant: every variable keeps its type.
THEOREM TypeCorrect == Spec => []TypeOK
<1>1. Init => TypeOK
  <2> SUFFICES ASSUME Init PROVE TypeOK
    OBVIOUS
  <2>1. inbox \in Seq(Request) /\ Len(inbox) <= InboxCap
    BY ServerAssumption DEF Init
  <2>2. isWorking \in BOOLEAN
    BY Zenon DEF Init
  <2>3. alive \in BOOLEAN
    BY Zenon DEF Init
  <2>4. dataIsCaptured \in BOOLEAN
    BY Zenon DEF Init
  <2>5. measSent \in BOOLEAN
    BY Zenon DEF Init
  <2> QED
    BY <2>1, <2>2, <2>3, <2>4, <2>5, ConstantTypes DEF Init, TypeOK
<1>2. TypeOK /\ [Next]_vars => TypeOK'
  <2> SUFFICES ASSUME TypeOK, [Next]_vars PROVE TypeOK'
    OBVIOUS
  <2> USE DEF TypeOK, MeasRest, MainRest, WaitRest, RadarRest, DispRest, measVars, reqVars, radarVars,
       lockVars, RadarAt, MainAt, DispatchAt, RadLock, RadUnlock, SrvLock, SrvUnlock, Serve
  <2>1. CASE RadarFill
    <3>1. data' \in SweepPair
      BY <2>1, ServerAssumption DEF RadarFill, SweepPair, SweepId, Pair
    <3> QED
      BY <2>1, <3>1, ConstantTypes DEF RadarFill
  <2>2. CASE RadarLock
    BY <2>2, ConstantTypes, ServerAssumption DEF RadarLock
  <2>3. CASE RadarCopyRise
    <3>1. dataForServer' \in SweepPair
      BY <2>3 DEF RadarCopyRise, SweepPair
    <3> QED
      BY <2>3, <3>1, ConstantTypes DEF RadarCopyRise
  <2>4. CASE RadarCopyFall
    <3>1. dataForServer' \in SweepPair
      BY <2>4 DEF RadarCopyFall, SweepPair
    <3> QED
      BY <2>4, <3>1, ConstantTypes DEF RadarCopyFall
  <2>5. CASE RadarCaptured
    BY <2>5, ConstantTypes, ServerAssumption DEF RadarCaptured
  <2>6. CASE StartCreate
    BY <2>6, ConstantTypes, ServerAssumption DEF StartCreate
  <2>7. CASE StartWorking
    BY <2>7, ConstantTypes, ServerAssumption DEF StartWorking
  <2>8. CASE MeasureLock
    BY <2>8, ConstantTypes, ServerAssumption DEF MeasureLock
  <2>9. CASE MeasureMode
    BY <2>9, ConstantTypes, ServerAssumption DEF MeasureMode
  <2>10. CASE WaitLock
    BY <2>10, ConstantTypes, ServerAssumption DEF WaitLock
  <2>11. CASE WaitTest
    BY <2>11, ConstantTypes, ServerAssumption DEF WaitTest
  <2>12. CASE WaitTimer
    BY <2>12, ConstantTypes, ServerAssumption DEF WaitTimer
  <2>13. CASE TakeRise
    <3>1. capture' \in SweepPair
      BY <2>13 DEF TakeRise, SweepPair
    <3> QED
      BY <2>13, <3>1, ConstantTypes DEF TakeRise
  <2>14. CASE TakeFall
    <3>1. capture' \in SweepPair
      BY <2>14 DEF TakeFall, SweepPair
    <3> QED
      BY <2>14, <3>1, ConstantTypes DEF TakeFall
  <2>15. CASE TakeClear
    BY <2>15, ConstantTypes, ServerAssumption DEF TakeClear
  <2>16. CASE Process
    <3>1. capture.rise \in SweepId
      BY <2>16 DEF SweepPair
    <3>2. curr' \in Measurement
      BY <2>16, <3>1, ServerAssumption DEF Process, Measurement
    <3> QED
      BY <2>16, <3>1, <3>2, ConstantTypes DEF Process
  <2>17. CASE PublishLock
    BY <2>17, ConstantTypes, ServerAssumption DEF PublishLock
  <2>18. CASE PublishData
    <3>1. measData' \in Measurement
      BY <2>18, ConstantTypes DEF PublishData, Measurement
    <3> QED
      BY <2>18, <3>1, ConstantTypes, ZenonT(60) DEF PublishData
  <2>19. CASE PublishTargets
    <3>1. measData' \in Measurement
      BY <2>19 DEF PublishTargets, Measurement
    <3> QED
      BY <2>19, <3>1, ConstantTypes DEF PublishTargets
  <2>20. CASE PublishUnread
    <3>1. status' \in Status
      BY <2>20 DEF PublishUnread, Status, Bit
    <3>2. lateCount' \in 0 .. 2
      BY <2>20 DEF PublishUnread
    <3> QED
      BY <2>20, <3>1, <3>2, ConstantTypes DEF PublishUnread
  <2>21. CASE DispatchTest
    BY <2>21, ConstantTypes, ServerAssumption DEF DispatchTest
  <2>22. CASE DispatchLock
    BY <2>22, ConstantTypes, ServerAssumption DEF DispatchLock
  <2>23. CASE GetRequest
    BY <2>23, ConstantTypes, ServerAssumption DEF GetRequest
  <2>24. CASE ServeStatus
    <3>1. status' \in Status
      BY <2>24 DEF ServeStatus, AfterStatus, Status, Bit
    <3>2. resp' \in Response
      BY <2>24, <3>1, ConstantTypes DEF ServeStatus, Response, Functions
    <3> QED
      BY <2>24, <3>1, <3>2, ConstantTypes DEF ServeStatus
  <2>25. CASE ServeData
    <3>1. [measData EXCEPT !.targets = NoSweep] \in Measurement
      BY <2>25, ConstantTypes DEF Measurement
    <3>2. resp' \in Response
      BY <2>25, <3>1, ConstantTypes DEF ServeData, Response, Functions
    <3> QED
      BY <2>25, <3>1, <3>2, ConstantTypes DEF ServeData
  <2>26. CASE ServeDataTargets
    <3>1. measData.targets \in SweepId
      BY <2>26 DEF Measurement
    <3>2. resp.meas \in Measurement
      BY <2>26 DEF Response
    <3>3. [resp.meas EXCEPT !.targets = measData.targets] \in Measurement
      BY <2>26, <3>1, <3>2 DEF Measurement
    <3>4. resp' \in Response
      BY <2>26, <3>3 DEF ServeDataTargets, Response
    <3>5. status' \in Status
      BY <2>26 DEF ServeDataTargets, Status, Bit
    <3> QED
      BY <2>26, <3>1, <3>2, <3>3, <3>4, <3>5, ConstantTypes DEF ServeDataTargets
  <2>27. CASE ServeMeasCtl
    <3>1. request.mode \in Bit
      BY <2>27 DEF Request, Bit
    <3>2. status' \in Status
      BY <2>27, <3>1 DEF ServeMeasCtl, Status
    <3>3. resp' \in Response
      BY <2>27, <3>2, ConstantTypes DEF ServeMeasCtl, Response, Functions
    <3>4. lateCount' \in 0 .. 2
      BY <2>27 DEF ServeMeasCtl
    <3> QED
      BY <2>27, <3>1, <3>2, <3>3, <3>4, ConstantTypes DEF ServeMeasCtl
  <2>28. CASE ServeGetTh
    <3>1. resp' \in Response
      BY <2>28, ConstantTypes DEF ServeGetTh, Response, Functions
    <3> QED
      BY <2>28, <3>1, ConstantTypes DEF ServeGetTh
  <2>29. CASE ServeSetTh
    <3>1. resp' \in Response
      BY <2>29, ConstantTypes DEF ServeSetTh, Response, Functions
    <3> QED
      BY <2>29, <3>1, ConstantTypes DEF ServeSetTh
  <2>35. CASE ServeThrows
    <3>1. alive' \in BOOLEAN
      BY <2>35, Zenon DEF ServeThrows
    <3> QED
      BY <2>35, <3>1, ConstantTypes DEF ServeThrows
  <2>30. CASE ServeUnknown
    BY <2>30, ConstantTypes, ServerAssumption DEF ServeUnknown
  <2>31. CASE SendResp
    BY <2>31, ConstantTypes, ServerAssumption DEF SendResp
  <2>32. CASE DispatchUnlock
    BY <2>32, ConstantTypes, ServerAssumption DEF DispatchUnlock
  <2>33. CASE ClientSend
    <3>1. Asked \subseteq Request
      BY <2>33, ServerAssumption DEF Asked, Request, Functions, Sizes
    <3>2. inbox' \in Seq(Request) /\ Len(inbox') <= InboxCap
      BY <2>33, <3>1, ServerAssumption DEF ClientSend
    <3> QED
      BY <2>33, <3>1, <3>2, ConstantTypes DEF ClientSend
  <2>34. CASE ClientGarble
    BY <2>34, ConstantTypes, ServerAssumption DEF ClientGarble
  <2>36. CASE UNCHANGED vars
    BY <2>36 DEF vars
  <2> QED
    BY <2>1, <2>2, <2>3, <2>4, <2>5, <2>6, <2>7, <2>8, <2>9, <2>10, <2>11, <2>12, <2>13, <2>14, <2>15, <2>16, <2>17, <2>18, <2>19, <2>20, <2>21, <2>22, <2>23, <2>24, <2>25, <2>26, <2>27, <2>28, <2>29, <2>30, <2>31, <2>32, <2>33, <2>34, <2>35, <2>36 DEF Next, Radar, Main, Dispatch
<1> QED
  BY <1>1, <1>2, PTL DEF Spec

-----------------------------------------------------------------------------
(* Mutexes *)

InSrvMain == mainPc \in {"mode", "pubData", "pubTargets", "pubUnread"}
InSrvDispatch == dispPc \in {"recv", "serve", "dataTargets", "send", "unlock"}
InRadMain == mainPc \in {"waitTest", "takeRise", "takeFall", "taken"}

\* A thread is inside a critical section exactly when it owns the mutex.
Locking ==
  /\ srvMtx = "main" <=> InSrvMain
  /\ srvMtx = "dispatch" <=> InSrvDispatch
  /\ radMtx = "main" <=> InRadMain
  /\ radMtx = "radar" <=> RadarCopies
  /\ mainPc = "create" => dispPc = "none" /\ status = NoStatus

\* Locking is an invariant: no two threads are ever inside critical sections
\* of the same mutex (UdpConnection::mutex_lock and its callers).
THEOREM MutualExclusion == Spec => []Locking
<1>1. Init => Locking
  BY DEF Init, Locking, InSrvMain, InSrvDispatch, InRadMain, RadarCopies
<1>2. TypeOK /\ Locking /\ [Next]_vars => Locking'
  <2> SUFFICES ASSUME TypeOK, Locking, [Next]_vars PROVE Locking'
    OBVIOUS
  <2> USE DEF TypeOK, Locking, InSrvMain, InSrvDispatch, InRadMain, RadarCopies,
       RadarAt, MainAt, DispatchAt, RadLock, RadUnlock, SrvLock, SrvUnlock
  <2>1. CASE Radar
    BY <2>1 DEF Radar, RadarFill, RadarLock, RadarCopyRise, RadarCopyFall, RadarCaptured,
       RadarRest
  <2>2. CASE StartCreate \/ StartWorking \/ MeasureLock \/ MeasureMode
    BY <2>2 DEF StartCreate, StartWorking, MeasureLock, MeasureMode, MeasRest, MainRest, lockVars
  <2>3. CASE WaitLock \/ WaitTest \/ WaitTimer \/ TakeRise \/ TakeFall \/ TakeClear \/ Process
    BY <2>3 DEF WaitLock, WaitTest, WaitTimer, TakeRise, TakeFall, TakeClear, Process,
       WaitRest, MeasRest, MainRest
  <2>4. CASE PublishLock \/ PublishData \/ PublishTargets \/ PublishUnread
    BY <2>4 DEF PublishLock, PublishData, PublishTargets, PublishUnread, MeasRest, MainRest, lockVars
  <2>5. CASE Dispatch
    BY <2>5 DEF Dispatch, DispatchTest, DispatchLock, GetRequest, ServeStatus, ServeData,
       ServeDataTargets, ServeThrows, ServeMeasCtl, ServeGetTh, ServeSetTh, ServeUnknown, SendResp,
       DispatchUnlock, Serve, DispRest
  <2>6. CASE ClientSend \/ ClientGarble \/ UNCHANGED vars
    BY <2>6 DEF ClientSend, ClientGarble, vars, lockVars
  <2> QED
    BY <2>1, <2>2, <2>3, <2>4, <2>5, <2>6 DEF Next, Main
<1> QED
  BY <1>1, <1>2, TypeCorrect, PTL DEF Spec

-----------------------------------------------------------------------------
(* Sweeps *)

Fetching == mainPc \in {"takeRise", "takeFall", "taken"}
Fetched == mainPc \in {"takeFall", "taken", "process", "pubLock", "pubData"}

\* The copies of a sweep pair, from the published one back to the radar's,
\* hold ever later sweeps; a capture that was not fetched is strictly later.
SweepOrder ==
  /\ measData.sweeps.rise <= capture.rise
  /\ capture.rise <= dataForServer.rise
  /\ dataForServer.rise <= data.rise
  /\ Fetched => measData.sweeps.rise < capture.rise
  /\ Fetching => dataIsCaptured
  /\ dataIsCaptured /\ ~(mainPc \in {"takeFall", "taken"}) => capture.rise < dataForServer.rise
  /\ radPc \in {"lock", "copyRise"} => dataForServer.rise < data.rise
  /\ RadarCopies => capture.rise < data.rise

\* A copy that is complete holds one sweep pair, and the measurement being
\* published is the capture.
SweepWhole ==
  /\ Whole(data)
  /\ radPc # "copyFall" => Whole(dataForServer)
  /\ radPc \in {"copyFall", "captured"} => dataForServer.rise = data.rise
  /\ mainPc # "takeFall" => Whole(capture)
  /\ mainPc \in {"takeFall", "taken"} => capture.rise = dataForServer.rise
  /\ mainPc \in {"pubLock", "pubData", "pubTargets", "pubUnread"}
       => curr.sweeps = capture /\ curr.targets = capture.rise
  /\ Whole(measData.sweeps)
  /\ mainPc # "pubTargets" => measData.targets = measData.sweeps.rise
  /\ mainPc \in {"pubTargets", "pubUnread"} => measData.sweeps = capture

\* The sweeps of every copy are numbers.
LEMMA SweepNumbers ==
  ASSUME TypeOK
  PROVE  /\ data.rise \in Int /\ dataForServer.rise \in Int
         /\ capture.rise \in Int /\ measData.sweeps.rise \in Int
         /\ data.rise >= 0
  BY ServerAssumption DEF TypeOK, SweepPair, SweepId, Measurement

\* SweepOrder and SweepWhole are invariants.
THEOREM SweepsInvariant == Spec => [](SweepOrder /\ SweepWhole)
<1>1. Init => SweepOrder /\ SweepWhole
  BY DEF Init, SweepOrder, SweepWhole, Fetched, Fetching, RadarCopies, Whole, Pair, NoSweep,
     NoMeasurement
<1>2. TypeOK /\ TypeOK' /\ Locking /\ SweepOrder /\ SweepWhole /\ [Next]_vars
        => SweepOrder' /\ SweepWhole'
  <2> SUFFICES ASSUME TypeOK, TypeOK', Locking, SweepOrder, SweepWhole, [Next]_vars
               PROVE  SweepOrder' /\ SweepWhole'
    OBVIOUS
  <2> USE SweepNumbers DEF Locking, InRadMain, RadarCopies, Fetching, Fetched, SweepOrder,
       SweepWhole, Whole, Pair, RadarAt, MainAt
  <2>a. /\ data \in SweepPair /\ dataForServer \in SweepPair /\ capture \in SweepPair
        /\ measData \in Measurement /\ curr \in Measurement
    BY DEF TypeOK
  <2>1. CASE RadarFill
    BY <2>1 DEF RadarFill, RadarRest, measVars
  <2>2. CASE RadarLock
    BY <2>2 DEF RadarLock, RadarRest, RadLock, radarVars, measVars
  <2>3. CASE RadarCopyRise
    BY <2>a, <2>3 DEF RadarCopyRise, RadarRest, measVars, SweepPair
  <2>4. CASE RadarCopyFall
    BY <2>a, <2>4 DEF RadarCopyFall, RadarRest, measVars, SweepPair
  <2>5. CASE RadarCaptured
    BY <2>5 DEF RadarCaptured, RadarRest, measVars
  <2>6. CASE StartCreate \/ StartWorking \/ MeasureLock \/ MeasureMode
    BY <2>6 DEF StartCreate, StartWorking, MeasureLock, MeasureMode, MeasRest, MainRest, measVars
  <2>7. CASE WaitLock \/ WaitTest \/ WaitTimer
    BY <2>7 DEF WaitLock, WaitTest, WaitTimer, WaitRest, MeasRest, MainRest, measVars
  <2>8. CASE TakeRise
    BY <2>a, <2>8 DEF TakeRise, WaitRest, MeasRest, MainRest, SweepPair
  <2>9. CASE TakeFall
    BY <2>a, <2>9 DEF TakeFall, WaitRest, MeasRest, MainRest, SweepPair
  <2>10. CASE TakeClear
    BY <2>10 DEF TakeClear, WaitRest, MeasRest, MainRest, measVars
  <2>11. CASE Process
    BY <2>11 DEF Process, WaitRest, MeasRest, MainRest
  <2>12. CASE PublishLock
    BY <2>12 DEF PublishLock, MeasRest, MainRest, measVars
  <2>13. CASE PublishData
    BY <2>a, <2>13 DEF PublishData, MeasRest, MainRest, measVars, Measurement
  <2>14. CASE PublishTargets
    BY <2>a, <2>14 DEF PublishTargets, MeasRest, MainRest, measVars, Measurement
  <2>15. CASE PublishUnread
    BY <2>15 DEF PublishUnread, MeasRest, MainRest, measVars
  <2>16. CASE Dispatch
    BY <2>16 DEF Dispatch, DispatchTest, DispatchLock, GetRequest, ServeStatus, ServeData,
       ServeDataTargets, ServeThrows, ServeMeasCtl, ServeGetTh, ServeSetTh, ServeUnknown, SendResp,
       DispatchUnlock, Serve, DispRest, radarVars, measVars
  <2>17. CASE ClientSend \/ ClientGarble \/ UNCHANGED vars
    BY <2>17 DEF ClientSend, ClientGarble, vars, radarVars, measVars
  <2> QED
    BY <2>1, <2>2, <2>3, <2>4, <2>5, <2>6, <2>7, <2>8, <2>9, <2>10, <2>11, <2>12, <2>13,
       <2>14, <2>15, <2>16, <2>17 DEF Next, Radar, Main
<1> QED
  BY <1>1, <1>2, TypeCorrect, MutualExclusion, PTL DEF Spec

\* The capture that create_data works on is one sweep pair.
THEOREM CaptureIsIntact == Spec => []CaptureIntact
<1>1. SweepWhole => CaptureIntact
  BY DEF SweepWhole, CaptureIntact
<1> QED
  BY <1>1, SweepsInvariant, PTL

\* Every published measurement is of a later sweep than the one before it.
THEOREM MeasurementsAdvanceAlways == Spec => MeasurementsAdvance
<1>1. TypeOK /\ SweepOrder /\ SweepWhole /\ [Next]_vars =>
        [mainPc = "pubData" /\ mainPc' = "pubTargets"
           => measData'.sweeps.rise > measData.sweeps.rise]_vars
  <2> SUFFICES ASSUME TypeOK, SweepOrder, SweepWhole, [Next]_vars,
                      mainPc = "pubData", mainPc' = "pubTargets"
               PROVE  measData'.sweeps.rise > measData.sweeps.rise
    OBVIOUS
  <2>1. PublishData
    BY DEF Next, vars, Radar, RadarFill, RadarLock, RadarCopyRise, RadarCopyFall, RadarCaptured,
       RadarRest, Main, StartCreate, StartWorking, MeasureLock, MeasureMode, WaitLock, WaitTest,
       WaitTimer, TakeRise, TakeFall, TakeClear, Process, PublishLock, PublishTargets,
       PublishUnread, MainAt, Dispatch, DispatchTest, DispatchLock, GetRequest, ServeStatus,
       ServeData, ServeDataTargets, ServeThrows, ServeMeasCtl, ServeGetTh, ServeSetTh, ServeUnknown,
       SendResp, DispatchUnlock, Serve, DispRest, ClientSend, ClientGarble
  <2>2. measData'.sweeps.rise = capture.rise
    BY <2>1 DEF PublishData, SweepWhole, TypeOK, Measurement
  <2> QED
    BY <2>2, SweepNumbers DEF SweepOrder, Fetched
<1> QED
  BY <1>1, TypeCorrect, SweepsInvariant, PTL DEF Spec, MeasurementsAdvance

-----------------------------------------------------------------------------
(* Responses *)

OfOneSweep(m) == Whole(m.sweeps) /\ m.targets = m.sweeps.rise

\* A response exists only while its request is served; a DATA_ALT response
\* is whole once its targets are in.
ReplyWhole ==
  /\ ~(dispPc \in {"dataTargets", "send", "unlock"}) => resp = NoResponse
  /\ dispPc # "unlock" => sent = NoResponse
  /\ dispPc = "dataTargets" => resp.fn = "DATA_ALT" /\ resp.meas.sweeps = measData.sweeps
  /\ dispPc # "dataTargets" /\ resp.fn = "DATA_ALT" => OfOneSweep(resp.meas)
  /\ sent.fn = "DATA_ALT" => OfOneSweep(sent.meas)

\* While the dispatcher is inside its critical section, nobody replaces
\* the measurement.
LEMMA DispatcherSeesWholeMeasurement ==
  ASSUME Locking, SweepWhole, InSrvDispatch
  PROVE  OfOneSweep(measData)
  BY DEF Locking, SweepWhole, InSrvDispatch, InSrvMain, OfOneSweep

\* ReplyWhole is an invariant.
THEOREM RepliesInvariant == Spec => []ReplyWhole
<1>1. Init => ReplyWhole
  BY DEF Init, ReplyWhole, NoResponse
<1>2. TypeOK /\ Locking /\ SweepWhole /\ ReplyWhole /\ [Next]_vars => ReplyWhole'
  <2> SUFFICES ASSUME TypeOK, Locking, SweepWhole, ReplyWhole, [Next]_vars PROVE ReplyWhole'
    OBVIOUS
  <2> USE DEF ReplyWhole, OfOneSweep, DispatchAt
  <2>a. resp \in Response /\ sent \in Response /\ measData \in Measurement
    BY DEF TypeOK
  <2>1. CASE Radar
    BY <2>1 DEF Radar, RadarFill, RadarLock, RadarCopyRise, RadarCopyFall, RadarCaptured,
       RadarRest, reqVars
  <2>2. CASE StartCreate \/ StartWorking \/ MeasureLock \/ MeasureMode
    BY <2>2 DEF StartCreate, StartWorking, MeasureLock, MeasureMode, MeasRest, MainRest, reqVars,
       MainAt, Locking
  <2>3. CASE WaitLock \/ WaitTest \/ WaitTimer \/ TakeRise \/ TakeFall \/ TakeClear \/ Process
    BY <2>3 DEF WaitLock, WaitTest, WaitTimer, TakeRise, TakeFall, TakeClear, Process,
       WaitRest, MeasRest, MainRest, reqVars
  <2>4. CASE PublishLock \/ PublishUnread
    BY <2>4 DEF PublishLock, PublishUnread, MeasRest, MainRest, reqVars
  <2>5. CASE PublishData \/ PublishTargets
    <3>1. dispPc # "dataTargets"
      BY <2>5 DEF Locking, InSrvMain, InSrvDispatch, PublishData, PublishTargets, MainAt
    <3> QED
      BY <3>1, <2>5 DEF PublishData, PublishTargets, MeasRest, MainRest, reqVars
  <2>6. CASE DispatchTest \/ DispatchLock \/ GetRequest \/ DispatchUnlock
    BY <2>6 DEF DispatchTest, DispatchLock, GetRequest, DispatchUnlock, DispRest, reqVars,
       NoResponse
  <2>7. CASE ServeStatus \/ ServeMeasCtl \/ ServeGetTh \/ ServeSetTh
    BY <2>7 DEF ServeStatus, ServeMeasCtl, ServeGetTh, ServeSetTh, Serve, DispRest, NoResponse
  <2>8. CASE ServeData
    <3>1. resp'.fn = "DATA_ALT" /\ resp'.meas.sweeps = measData.sweeps
      BY <2>a, <2>8 DEF ServeData, NoResponse, Measurement
    <3>2. dispPc' = "dataTargets" /\ sent' = NoResponse /\ measData' = measData
      BY <2>8 DEF ServeData, Serve, DispRest
    <3> QED
      BY <3>1, <3>2 DEF NoResponse
  <2>9. CASE ServeDataTargets
    <3>1. OfOneSweep(measData)
      BY <2>9, DispatcherSeesWholeMeasurement DEF ServeDataTargets, InSrvDispatch
    <3>2. resp' = [resp EXCEPT !.meas.targets = measData.targets]
      BY <2>9 DEF ServeDataTargets
    <3>3. resp'.meas.sweeps = measData.sweeps /\ resp'.meas.targets = measData.targets
      BY <2>a, <2>9, <3>2 DEF ServeDataTargets, Response, Measurement
    <3> QED
      BY <2>9, <3>1, <3>3 DEF ServeDataTargets, DispRest, NoResponse
  <2>10. CASE ServeThrows \/ ServeUnknown
    BY <2>10 DEF ServeThrows, ServeUnknown, Serve, DispRest, reqVars
  <2>11. CASE SendResp
    BY <2>11 DEF SendResp, DispRest
  <2>12. CASE ClientSend \/ ClientGarble \/ UNCHANGED vars
    BY <2>12 DEF ClientSend, ClientGarble, vars, reqVars
  <2> QED
    BY <2>1, <2>2, <2>3, <2>4, <2>5, <2>6, <2>7, <2>8, <2>9, <2>10, <2>11, <2>12
       DEF Next, Main, Dispatch
<1> QED
  BY <1>1, <1>2, TypeCorrect, MutualExclusion, SweepsInvariant, PTL DEF Spec

\* No DATA_ALT response ever mixes two measurements.
THEOREM RepliesAreConsistent == Spec => []ReplyConsistent
<1>1. ReplyWhole => ReplyConsistent
  BY DEF ReplyWhole, ReplyConsistent, OfOneSweep
<1> QED
  BY <1>1, RepliesInvariant, PTL

-----------------------------------------------------------------------------
(* The unread flag *)

Published == measData.sweeps.rise # NoSweep

\* With _unused clear, has_unread stands for a measurement nobody got; a
\* STATUS response says so while the dispatcher keeps the mutex.
UnreadTrue ==
  /\ status.unused = 0 /\ status.has_unread = 1 => Published /\ ~measSent
  /\ Publishing => Published /\ ~measSent
  /\ resp.fn = "STATUS" /\ resp.word.has_unread = 1 => Published /\ ~measSent
  /\ sent.fn = "STATUS" /\ sent.word.has_unread = 1 => Published /\ ~measSent

\* UnreadTrue is an invariant.
THEOREM UnreadInvariant == Spec => []UnreadTrue
<1>1. Init => UnreadTrue
  BY DEF Init, UnreadTrue, NoStatus, NoResponse, Publishing
<1>2. /\ TypeOK /\ Locking /\ SweepOrder /\ SweepWhole /\ ReplyWhole /\ UnreadTrue
      /\ [Next]_vars
      => UnreadTrue'
  <2> SUFFICES ASSUME TypeOK, Locking, SweepOrder, SweepWhole, ReplyWhole, UnreadTrue, [Next]_vars
               PROVE  UnreadTrue'
    OBVIOUS
  <2> USE DEF UnreadTrue, Published, Publishing, NoSweep
  <2>a. resp \in Response /\ sent \in Response /\ measData \in Measurement /\ status \in Status
        /\ curr \in Measurement
    BY DEF TypeOK
  <2>1. CASE Radar
    BY <2>1 DEF Radar, RadarFill, RadarLock, RadarCopyRise, RadarCopyFall, RadarCaptured,
       RadarRest, reqVars
  <2>2. CASE StartCreate
    BY <2>2 DEF StartCreate, MainRest, NoStatus, reqVars
  <2>3. CASE StartWorking \/ MeasureLock \/ MeasureMode
    BY <2>3 DEF StartWorking, MeasureLock, MeasureMode, MeasRest, MainRest, reqVars
  <2>4. CASE WaitLock \/ WaitTest \/ WaitTimer \/ TakeRise \/ TakeFall \/ TakeClear \/ Process
    BY <2>4 DEF WaitLock, WaitTest, WaitTimer, TakeRise, TakeFall, TakeClear, Process,
       WaitRest, MeasRest, MainRest, reqVars
  <2>5. CASE PublishLock
    BY <2>5 DEF PublishLock, MeasRest, MainRest, reqVars
  <2>6. CASE PublishData
    <3>1. measData'.sweeps.rise # 0
      BY <2>a, <2>6, SweepNumbers, ServerAssumption
         DEF PublishData, MainAt, SweepWhole, SweepOrder, Fetched, Measurement, SweepPair, SweepId
    <3> QED
      BY <2>6, <3>1 DEF PublishData, MeasRest, MainRest, reqVars
  <2>7. CASE PublishTargets
    BY <2>a, <2>7 DEF PublishTargets, MainAt, MeasRest, MainRest, reqVars, Measurement
  <2>8. CASE PublishUnread
    BY <2>8 DEF PublishUnread, MainAt, MeasRest, MainRest, reqVars
  <2>9. CASE DispatchTest \/ DispatchLock \/ GetRequest \/ DispatchUnlock
    BY <2>9 DEF DispatchTest, DispatchLock, GetRequest, DispatchUnlock, DispRest, reqVars,
       NoResponse
  <2>10. CASE ServeStatus
    BY <2>a, <2>10 DEF ServeStatus, AfterStatus, Serve, DispRest, NoResponse, NoStatus, Status, Bit
  <2>11. CASE ServeData
    BY <2>11 DEF ServeData, Serve, DispRest, NoResponse
  <2>12. CASE ServeDataTargets
    <3>1. mainPc' \notin {"pubTargets", "pubUnread"}
      BY <2>12 DEF ServeDataTargets, DispRest, DispatchAt, Locking, InSrvMain, InSrvDispatch
    <3>2. resp'.fn = "DATA_ALT" /\ sent'.fn = "NONE"
      BY <2>a, <2>12 DEF ServeDataTargets, DispatchAt, ReplyWhole, NoResponse, Response
    <3>3. status'.unused = 1
      BY <2>a, <2>12 DEF ServeDataTargets, Status
    <3> QED
      BY <3>1, <3>2, <3>3
  <2>13. CASE ServeMeasCtl
    BY <2>a, <2>13 DEF ServeMeasCtl, Serve, DispRest, NoResponse, Status
  <2>14. CASE ServeThrows \/ ServeGetTh \/ ServeSetTh \/ ServeUnknown
    BY <2>14 DEF ServeThrows, ServeGetTh, ServeSetTh, ServeUnknown, Serve, DispRest, reqVars, NoResponse
  <2>15. CASE SendResp
    BY <2>15 DEF SendResp, DispRest
  <2>16. CASE ClientSend \/ ClientGarble \/ UNCHANGED vars
    BY <2>16 DEF ClientSend, ClientGarble, vars, reqVars
  <2> QED
    BY <2>1, <2>2, <2>3, <2>4, <2>5, <2>6, <2>7, <2>8, <2>9, <2>10, <2>11, <2>12, <2>13,
       <2>14, <2>15, <2>16 DEF Next, Main, Dispatch
<1> QED
  BY <1>1, <1>2, TypeCorrect, MutualExclusion, SweepsInvariant, RepliesInvariant, PTL DEF Spec

\* A STATUS response that announces unread data is right.
THEOREM UnreadIsAlwaysNew == Spec => []UnreadIsNew
<1>1. UnreadTrue => UnreadIsNew
  BY DEF UnreadTrue, UnreadIsNew, Published
<1> QED
  BY <1>1, UnreadInvariant, PTL

-----------------------------------------------------------------------------
(* Switching measuring off *)

\* Nothing was published late while measuring is on, or while a round that
\* found it switched on is not over.
LateBound ==
  /\ status.meas_mode = 1 => lateCount = 0
  /\ Waiting \/ Computing \/ Publishing => lateCount = 0
  /\ lateCount <= 1

\* After measuring was switched off, at most one measurement is published.
THEOREM AtMostOneIsLate == Spec => []AtMostOneLate
<1>1. Init => LateBound
  BY DEF Init, LateBound, Waiting, Computing, Publishing
<1>2. TypeOK /\ LateBound /\ [Next]_vars => LateBound'
  <2> SUFFICES ASSUME TypeOK, LateBound, [Next]_vars PROVE LateBound'
    OBVIOUS
  <2> USE DEF LateBound, Waiting, Computing, Publishing, MainAt
  <2>a. status \in Status /\ request \in Request
    BY DEF TypeOK
  <2>1. CASE Radar
    BY <2>1 DEF Radar, RadarFill, RadarLock, RadarCopyRise, RadarCopyFall, RadarCaptured, RadarRest
  <2>2. CASE StartCreate \/ StartWorking \/ MeasureLock \/ MeasureMode
    BY <2>2 DEF StartCreate, StartWorking, MeasureLock, MeasureMode, MeasRest, MainRest, NoStatus
  <2>3. CASE WaitLock \/ WaitTest \/ WaitTimer \/ TakeRise \/ TakeFall \/ TakeClear \/ Process
    BY <2>3 DEF WaitLock, WaitTest, WaitTimer, TakeRise, TakeFall, TakeClear, Process,
       WaitRest, MeasRest, MainRest
  <2>4. CASE PublishLock \/ PublishData \/ PublishTargets
    BY <2>4 DEF PublishLock, PublishData, PublishTargets, MeasRest, MainRest
  <2>5. CASE PublishUnread
    BY <2>a, <2>5 DEF PublishUnread, MeasRest, MainRest, Status, Bit
  <2>6. CASE ServeStatus \/ ServeDataTargets
    <3>1. status'.meas_mode = status.meas_mode
      BY <2>a, <2>6 DEF ServeStatus, ServeDataTargets, AfterStatus, Status
    <3> QED
      BY <2>6, <3>1 DEF ServeStatus, ServeDataTargets, Serve, DispRest
  <2>7. CASE ServeMeasCtl
    BY <2>a, <2>7 DEF ServeMeasCtl, Serve, DispRest, Status, Request
  <2>8. CASE DispatchTest \/ DispatchLock \/ GetRequest \/ DispatchUnlock \/ SendResp
             \/ ServeData \/ ServeThrows \/ ServeGetTh \/ ServeSetTh \/ ServeUnknown
    BY <2>8 DEF DispatchTest, DispatchLock, GetRequest, DispatchUnlock, SendResp, ServeData,
       ServeThrows, ServeGetTh, ServeSetTh, ServeUnknown, Serve, DispRest
  <2>9. CASE ClientSend \/ ClientGarble \/ UNCHANGED vars
    BY <2>9 DEF ClientSend, ClientGarble, vars
  <2> QED
    BY <2>1, <2>2, <2>3, <2>4, <2>5, <2>6, <2>7, <2>8, <2>9 DEF Next, Main, Dispatch
<1>3. LateBound => AtMostOneLate
  BY DEF LateBound, AtMostOneLate
<1> QED
  BY <1>1, <1>2, <1>3, TypeCorrect, PTL DEF Spec

-----------------------------------------------------------------------------
(* Refinement *)

\* A response that is under construction is, seen from the service, none.
LEMMA ReplyOfResponse ==
  ASSUME TypeOK, ReplyWhole
  PROVE  /\ dispPc \in {"test", "lock", "recv", "serve", "dataTargets", "none", "exited"}
              => absReply = Service!None
         /\ dispPc # "dataTargets" /\ resp.fn \in {"NONE", "GET_TH"} => absReply = [fn |-> resp.fn]
         /\ dispPc # "dataTargets" /\ resp.fn \in {"STATUS", "MEAS_CTL"} => absReply = Word(resp.fn)
         /\ dispPc # "dataTargets" /\ resp.fn = "DATA_ALT"
              => absReply = Service!DataReply(resp.meas.sweeps.rise)
  BY DEF absReply, ReplyWhole, NoResponse, OfOneSweep, Whole, Service!None, Service!DataReply

\* The threaded server implements the service: each of its steps is one
\* operation of MeasurementService or leaves the service as it is.
THEOREM Refinement == Spec => ImplementsService
<1>1. Init => Service!Init
  BY DEF Init, Service!Init, absNewest, absMail, absBusy, absUnread, absReply, RadarCopies,
     Waiting, Computing, Publishing, Pair, NoSweep, NoMeasurement, NoStatus, NoResponse,
     Service!None
<1>2. /\ TypeOK /\ TypeOK' /\ Locking /\ Locking' /\ SweepOrder /\ SweepWhole
      /\ ReplyWhole /\ ReplyWhole' /\ [Next]_vars
      => [Service!Next]_(Service!serviceVars)
  <2> SUFFICES ASSUME TypeOK, TypeOK', Locking, Locking', SweepOrder, SweepWhole,
                      ReplyWhole, ReplyWhole', [Next]_vars
               PROVE  [Service!Next]_(Service!serviceVars)
    OBVIOUS
  <2> USE DEF Service!serviceVars, RadarAt, MainAt, DispatchAt
  <2> DEFINE Mailbox == <<absNewest, absMail>>
             Round == <<Waiting \/ Computing, absBusy>>
             Words == <<measData.sweeps.rise, status.meas_mode, absUnread, status.unused>>
  <2>a. /\ data \in SweepPair /\ dataForServer \in SweepPair /\ capture \in SweepPair
        /\ measData \in Measurement /\ status \in Status /\ resp \in Response
    BY DEF TypeOK
  <2>d. UNCHANGED <<dispPc, resp>> => UNCHANGED absReply
    BY DEF absReply, Word
  <2>e. UNCHANGED <<radPc, data, dataForServer, dataIsCaptured>> => UNCHANGED Mailbox
    BY DEF absNewest, absMail, RadarCopies
  <2>b. CASE UNCHANGED <<Mailbox, Round, Words, absReply>>
    BY <2>b
  <2>1. CASE RadarFill
    <3>1. UNCHANGED <<Mailbox, Round, Words, absReply>>
      BY <2>1, SweepNumbers DEF RadarFill, RadarRest, measVars, reqVars, Pair, absNewest, absMail,
         absBusy, absUnread, absReply, Word, RadarCopies, Waiting, Computing, Publishing
    <3> QED
      BY <3>1, <2>b
  <2>2. CASE RadarLock
    <3>1. UNCHANGED <<Round, Words, absReply>>
      BY <2>2 DEF RadarLock, RadarRest, measVars, reqVars, absBusy, absUnread, absReply, Word,
         Waiting, Computing, Publishing
    <3>2. absNewest < MaxSweep /\ absNewest' = absNewest + 1 /\ absMail' = absNewest'
      BY <2>2, <2>a, SweepNumbers, ServerAssumption
         DEF RadarLock, radarVars, absNewest, absMail, RadarCopies, SweepPair, SweepId
    <3> QED
      BY <3>1, <3>2 DEF Service!Next, Service!Capture
  <2>3. CASE RadarCopyRise \/ RadarCopyFall \/ RadarCaptured
    <3>1. UNCHANGED <<Round, Words, absReply>>
      BY <2>3 DEF RadarCopyRise, RadarCopyFall, RadarCaptured, RadarRest, measVars, reqVars, absBusy,
         absUnread, absReply, Word, Waiting, Computing, Publishing
    <3>2. UNCHANGED Mailbox
      BY <2>3, <2>a DEF RadarCopyRise, RadarCopyFall, RadarCaptured, absNewest, absMail, RadarCopies,
         SweepWhole
    <3> QED
      BY <3>1, <3>2, <2>b
  <2>4. CASE StartCreate \/ StartWorking \/ MeasureLock
    <3>1. UNCHANGED <<Mailbox, Round, Words>>
      BY <2>4 DEF StartCreate, StartWorking, MeasureLock, MeasRest, MainRest, measVars, Locking,
         absNewest, absMail, absBusy, absUnread, RadarCopies, Waiting, Computing, Publishing
    <3>2. UNCHANGED absReply
      BY <2>4, ReplyOfResponse DEF StartCreate, StartWorking, MeasureLock, MeasRest, MainRest,
         reqVars, Locking, absReply, Word
    <3> QED
      BY <3>1, <3>2, <2>b
  <2>5. CASE MeasureMode
    <3>1. UNCHANGED <<Mailbox, Words, absReply, absBusy>>
      BY <2>5 DEF MeasureMode, MeasRest, MainRest, measVars, reqVars, absNewest, absMail, absBusy,
         absUnread, absReply, Word, RadarCopies, Computing, Publishing
    <3>2. CASE status.meas_mode = 1
      <4>1. ~(Waiting \/ Computing) /\ (Waiting \/ Computing)'
        BY <2>5, <3>2 DEF MeasureMode, Waiting, Computing
      <4> QED
        BY <3>1, <3>2, <4>1 DEF Service!Next, Service!Arm
    <3>3. CASE status.meas_mode # 1
      <4>1. ~(Waiting \/ Computing) /\ ~(Waiting \/ Computing)'
        BY <2>5, <3>3 DEF MeasureMode, Waiting, Computing
      <4> QED
        BY <3>1, <4>1, <2>b
    <3> QED
      BY <3>2, <3>3
  <2>6. CASE WaitLock \/ WaitTest \/ TakeRise \/ TakeFall \/ Process \/ PublishLock
    <3>1. UNCHANGED <<Mailbox, Round, Words, absReply>>
      <4>1. UNCHANGED <<dispPc, resp, radPc, data, dataForServer, dataIsCaptured, measData, status>>
        BY <2>6 DEF WaitLock, WaitTest, TakeRise, TakeFall, Process, PublishLock, WaitRest,
           MeasRest, MainRest, reqVars
      <4>2. UNCHANGED <<Round, absUnread>>
        BY <2>6 DEF WaitLock, WaitTest, TakeRise, TakeFall, Process, PublishLock, WaitRest,
           MeasRest, MainRest, measVars, absBusy, absUnread, Waiting, Computing, Publishing
      <4> QED
        BY <4>1, <4>2, <2>d, <2>e
    <3> QED
      BY <3>1, <2>b
  <2>7. CASE WaitTimer
    <3>1. UNCHANGED <<Mailbox, Words, absReply, absBusy>> /\ absBusy = 0
      BY <2>7 DEF WaitTimer, WaitRest, MeasRest, MainRest, measVars, reqVars, absNewest, absMail,
         absBusy, absUnread, absReply, Word, RadarCopies, Computing, Publishing, NoSweep
    <3>2. CASE mainPc' = "loop"
      <4>1. (Waiting \/ Computing) /\ ~(Waiting \/ Computing)'
        BY <2>7, <3>2 DEF WaitTimer, Waiting, Computing
      <4> QED
        BY <3>1, <4>1 DEF Service!Next, Service!GiveUp
    <3>3. CASE mainPc' = "waitLock"
      <4>1. (Waiting \/ Computing) /\ (Waiting \/ Computing)'
        BY <2>7, <3>3 DEF WaitTimer, Waiting, Computing
      <4> QED
        BY <3>1, <4>1, <2>b
    <3> QED
      BY <2>7, <3>2, <3>3 DEF WaitTimer
  <2>8. CASE TakeClear
    <3>1. UNCHANGED <<Words, absReply, absNewest>>
      BY <2>8 DEF TakeClear, WaitRest, MeasRest, MainRest, measVars, reqVars, absNewest, absUnread,
         absReply, Word, Publishing
    <3>2. /\ Waiting \/ Computing
          /\ (Waiting \/ Computing)'
          /\ absBusy = 0 /\ absBusy' = capture.rise
      BY <2>8 DEF TakeClear, measVars, absBusy, Waiting, Computing, NoSweep
    <3>3. absMail = capture.rise /\ absMail' = 0
      BY <2>8 DEF TakeClear, WaitRest, MeasRest, MainRest, absMail, RadarCopies, Locking, InRadMain,
         SweepOrder, SweepWhole, Fetching, NoSweep
    <3>4. capture.rise # 0
      BY <2>8, <2>a, SweepNumbers DEF TakeClear, SweepOrder, Fetched, Measurement, SweepPair, SweepId
    <3> QED
      BY <3>1, <3>2, <3>3, <3>4 DEF Service!Next, Service!Fetch
  <2>9. CASE PublishData
    <3>1. UNCHANGED <<Mailbox, absReply, status>>
      BY <2>9 DEF PublishData, MeasRest, MainRest, lockVars, reqVars, absNewest, absMail, absReply,
         Word, RadarCopies
    <3>2. absBusy = capture.rise /\ absBusy' = 0 /\ absUnread' = 1 /\ ~(Waiting \/ Computing)'
      BY <2>9 DEF PublishData, absBusy, absUnread, Waiting, Computing, Publishing, NoSweep
    <3>3. measData'.sweeps.rise = capture.rise
      BY <2>9, <2>a DEF PublishData, SweepWhole, Measurement, TypeOK
    <3>4. capture.rise # 0
      BY <2>9, <2>a, SweepNumbers DEF PublishData, SweepOrder, Fetched, Measurement, SweepPair,
         SweepId
    <3> QED
      BY <3>1, <3>2, <3>3, <3>4 DEF Service!Next, Service!Publish
  <2>10. CASE PublishTargets \/ PublishUnread
    <3>1. UNCHANGED <<Mailbox, Round, absReply>>
      BY <2>10, <2>d, <2>e DEF PublishTargets, PublishUnread, MeasRest, MainRest, measVars,
         reqVars, absBusy, Waiting, Computing
    <3>2. UNCHANGED Words
      BY <2>10, <2>a DEF PublishTargets, PublishUnread, MeasRest, MainRest, absUnread, Publishing,
         Measurement, Status
    <3> QED
      BY <3>1, <3>2, <2>b
  <2>c. ASSUME DispRest PROVE UNCHANGED <<Mailbox, Round, measData, mainPc>>
    BY <2>c DEF DispRest, radarVars, measVars, absNewest, absMail, absBusy, RadarCopies, Waiting,
       Computing
  <2>11. CASE DispatchTest \/ DispatchLock \/ GetRequest \/ ServeData
    <3>1. UNCHANGED <<Mailbox, Round, Words>>
      BY <2>11, <2>c DEF DispatchTest, DispatchLock, GetRequest, ServeData, Serve, DispRest,
         absUnread, Publishing
    <3>2. absReply = Service!None
      BY <2>11, ReplyOfResponse DEF DispatchTest, DispatchLock, GetRequest, ServeData, Serve
    <3>3. absReply' = Service!None
      BY <2>11 DEF DispatchTest, DispatchLock, GetRequest, ServeData, Serve, DispRest, reqVars,
         absReply, ReplyWhole, NoResponse, Service!None
    <3> QED
      BY <3>1, <3>2, <3>3, <2>b
  <2>12. CASE ServeStatus
    <3>1. UNCHANGED <<Mailbox, Round, measData, mainPc>> /\ absReply = Service!None
      BY <2>12, <2>c, ReplyOfResponse DEF ServeStatus, Serve
    <3>2. absUnread = status.has_unread /\ absUnread' = status'.has_unread
      BY <2>12, <3>1 DEF ServeStatus, Serve, Locking, InSrvMain, InSrvDispatch, absUnread, Publishing
    <3>3. /\ status'.has_unread = IF status.unused = 1 THEN 0 ELSE status.has_unread
          /\ status'.unused = 0
          /\ status'.meas_mode = status.meas_mode
      BY <2>12, <2>a DEF ServeStatus, AfterStatus, Status, Bit
    <3>4. absReply' = Service!StatusReply(status'.meas_mode, status'.has_unread, status'.unused)
      BY <2>12 DEF ServeStatus, NoResponse, absReply, Word, Service!StatusReply
    <3> QED
      BY <3>1, <3>2, <3>3, <3>4 DEF Service!Next, Service!Status
  <2>13. CASE ServeDataTargets
    <3>1. UNCHANGED <<Mailbox, Round, measData, mainPc>> /\ absReply = Service!None
      BY <2>13, <2>c, ReplyOfResponse DEF ServeDataTargets
    <3>2. OfOneSweep(measData) /\ ~Publishing
      BY <2>13, DispatcherSeesWholeMeasurement
         DEF ServeDataTargets, InSrvDispatch, Locking, InSrvMain, Publishing
    <3>3. /\ status'.unused = 1
          /\ status'.has_unread = status.has_unread
          /\ status'.meas_mode = status.meas_mode
      BY <2>13, <2>a DEF ServeDataTargets, Status
    <3>4. /\ resp'.fn = "DATA_ALT" /\ resp'.meas.sweeps = measData.sweeps
          /\ resp'.meas.targets = measData.targets
      BY <2>13, <2>a DEF ServeDataTargets, ReplyWhole, Response, Measurement
    <3>5. absReply' = Service!DataReply(measData.sweeps.rise)
      BY <2>13, <3>2, <3>4 DEF ServeDataTargets, absReply, OfOneSweep, Whole, Service!DataReply
    <3> QED
      BY <3>1, <3>2, <3>3, <3>5 DEF Service!Next, Service!Data, absUnread, Publishing
  <2>14. CASE ServeMeasCtl
    <3>1. UNCHANGED <<Mailbox, Round, measData, mainPc>> /\ absReply = Service!None
      BY <2>14, <2>c, ReplyOfResponse DEF ServeMeasCtl, Serve
    <3>2. ~Publishing
      BY <2>14 DEF ServeMeasCtl, Serve, InSrvDispatch, Locking, InSrvMain, Publishing
    <3>3. /\ status'.meas_mode \in {0, 1}
          /\ status'.has_unread = status.has_unread
          /\ status'.unused = status.unused
      BY <2>14, <2>a DEF ServeMeasCtl, Status, Bit, TypeOK
    <3>4. absReply' = Service!CtlReply(status'.meas_mode, status'.has_unread, status'.unused)
      BY <2>14 DEF ServeMeasCtl, NoResponse, absReply, Word, Service!CtlReply
    <3> QED
      BY <3>1, <3>2, <3>3, <3>4 DEF Service!Next, Service!Ctl, absUnread, Publishing
  <2>15. CASE ServeGetTh \/ ServeSetTh
    <3>1. UNCHANGED <<Mailbox, Round, Words>> /\ absReply = Service!None
      BY <2>15, <2>c, ReplyOfResponse DEF ServeGetTh, ServeSetTh, Serve, absUnread, Publishing
    <3>2. absReply' \in {Service!ThReply("GET_TH"), Service!ThReply("SET_TH")}
      BY <2>15 DEF ServeGetTh, ServeSetTh, NoResponse, absReply, Service!ThReply
    <3> QED
      BY <3>1, <3>2 DEF Service!Next, Service!Thresholds
  <2>16. CASE ServeThrows \/ ServeUnknown \/ SendResp
    <3>1. UNCHANGED <<Mailbox, Round, Words, absReply>>
      BY <2>16, <2>c DEF ServeThrows, ServeUnknown, SendResp, Serve, reqVars, absUnread, Publishing,
         absReply, Word
    <3> QED
      BY <3>1, <2>b
  <2>17. CASE DispatchUnlock
    <3>1. UNCHANGED <<Mailbox, Round, Words>> /\ absReply' = Service!None
      BY <2>17, <2>c DEF DispatchUnlock, absUnread, Publishing, absReply, NoResponse, Service!None
    <3>2. CASE absReply = Service!None
      BY <3>1, <3>2, <2>b
    <3>3. CASE absReply # Service!None
      BY <3>1, <3>3 DEF Service!Next, Service!Deliver
    <3> QED
      BY <3>2, <3>3
  <2>18. CASE ClientSend \/ ClientGarble \/ UNCHANGED vars
    <3>1. UNCHANGED <<Mailbox, Round, Words, absReply>>
      BY <2>18, <2>d, <2>e DEF ClientSend, ClientGarble, vars, radarVars, measVars, reqVars,
         absBusy, absUnread, Waiting, Computing, Publishing
    <3> QED
      BY <3>1, <2>b
  <2> QED
    BY <2>1, <2>2, <2>3, <2>4, <2>5, <2>6, <2>7, <2>8, <2>9, <2>10, <2>11, <2>12, <2>13, <2>14,
       <2>15, <2>16, <2>17, <2>18 DEF Next, Radar, Main, Dispatch
<1> QED
  BY <1>1, <1>2, TypeCorrect, MutualExclusion, SweepsInvariant, RepliesInvariant, PTL
     DEF Spec, ImplementsService, Service!Spec
=============================================================================
