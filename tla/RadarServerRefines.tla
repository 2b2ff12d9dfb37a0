------------------------- MODULE RadarServerRefines -------------------------
(***************************************************************************)
(* RadarServer implements MeasurementService.  A capture takes effect when *)
(* the radar thread gets its mutex, a fetch when the flag is cleared, a    *)
(* publication with its first assignment under the server's mutex, and an  *)
(* answer when the response is complete.                                   *)
(***************************************************************************)
EXTENDS RadarServer

RadarCopies == radPc \in {"copyRise", "copyFall", "captured"}
Waiting == mainPc \in {"waitLock", "waitTest", "waitTimer", "takeRise", "takeFall", "taken"}
Computing == mainPc \in {"process", "pubLock", "pubData"}
Publishing == mainPc \in {"pubTargets", "pubUnread"}

absNewest == IF radPc = "lock" THEN data.rise - 1 ELSE data.rise
absMail ==
  IF RadarCopies THEN data.rise ELSE IF dataIsCaptured THEN dataForServer.rise ELSE NoSweep
absBusy == IF Computing THEN capture.rise ELSE NoSweep
absUnread == IF Publishing THEN 1 ELSE status.has_unread

Word(fn) == [fn |-> fn, mode |-> resp.word.meas_mode,
             unread |-> resp.word.has_unread, acked |-> resp.word.unused]
absReply ==
  CASE dispPc = "dataTargets" -> [fn |-> "NONE"]
    [] dispPc # "dataTargets" /\ resp.fn \in {"NONE", "GET_TH", "SET_TH"} -> [fn |-> resp.fn]
    [] dispPc # "dataTargets" /\ resp.fn \in {"STATUS", "MEAS_CTL"} -> Word(resp.fn)
    [] dispPc # "dataTargets" /\ resp.fn = "DATA_ALT" ->
         [fn |-> "DATA_ALT", rise |-> resp.meas.sweeps.rise,
          fall |-> resp.meas.sweeps.fall, targets |-> resp.meas.targets]

Service == INSTANCE MeasurementService WITH
  newest  <- absNewest,
  mail    <- absMail,
  armed   <- Waiting \/ Computing,
  busy    <- absBusy,
  current <- measData.sweeps.rise,
  mode    <- status.meas_mode,
  unread  <- absUnread,
  acked   <- status.unused,
  reply   <- absReply

\* The threaded server behaves like the service: whatever the interleaving,
\* each of its steps is one operation of MeasurementService or none.
ImplementsService == Service!Spec
=============================================================================
