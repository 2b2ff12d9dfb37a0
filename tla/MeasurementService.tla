------------------------- MODULE MeasurementService -------------------------
(***************************************************************************)
(* What the measurement server promises, without threads and mutexes: a    *)
(* one-place mailbox between the radar and the measuring, a measurement    *)
(* that is replaced at once, and a client that is answered one request at  *)
(* a time.  RadarServer implements this specification (RadarServerRefines).*)
(***************************************************************************)
EXTENDS Integers

CONSTANT MaxSweep  \* bound: sweeps the radar captures

VARIABLES
  newest,   \* the sweep captured last
  mail,     \* the captured sweep nobody fetched yet, 0 if there is none
  armed,    \* measuring was found switched on and the round is not over
  busy,     \* the sweep being turned into a measurement, 0 if none
  current,  \* the sweep of the published measurement, 0 before the first
  mode,     \* measuring is switched on
  unread,   \* what the status word says of the current measurement
  acked,    \* the data were sent since the last status response
  reply     \* the answer to the request being served

serviceVars == <<newest, mail, armed, busy, current, mode, unread, acked, reply>>

None == [fn |-> "NONE"]
StatusReply(m, u, a) == [fn |-> "STATUS", mode |-> m, unread |-> u, acked |-> a]
CtlReply(m, u, a) == [fn |-> "MEAS_CTL", mode |-> m, unread |-> u, acked |-> a]
DataReply(s) == [fn |-> "DATA_ALT", rise |-> s, fall |-> s, targets |-> s]
ThReply(fn) == [fn |-> fn]

Init ==
  /\ newest = 0 /\ mail = 0 /\ armed = FALSE /\ busy = 0 /\ current = 0
  /\ mode = 0 /\ unread = 0 /\ acked = 0
  /\ reply = None

\* A new sweep takes the place of one that was not fetched.
Capture ==
  /\ newest < MaxSweep
  /\ newest' = newest + 1 /\ mail' = newest'
  /\ UNCHANGED <<armed, busy, current, mode, unread, acked, reply>>

Arm ==
  /\ mode = 1 /\ ~armed
  /\ armed' = TRUE
  /\ UNCHANGED <<newest, mail, busy, current, mode, unread, acked, reply>>

GiveUp ==
  /\ armed /\ busy = 0
  /\ armed' = FALSE
  /\ UNCHANGED <<newest, mail, busy, current, mode, unread, acked, reply>>

Fetch ==
  /\ armed /\ busy = 0 /\ mail # 0
  /\ busy' = mail /\ mail' = 0
  /\ UNCHANGED <<newest, armed, current, mode, unread, acked, reply>>

Publish ==
  /\ busy # 0
  /\ current' = busy /\ busy' = 0 /\ unread' = 1 /\ armed' = FALSE
  /\ UNCHANGED <<newest, mail, mode, acked, reply>>

Status ==
  /\ reply = None
  /\ unread' = (IF acked = 1 THEN 0 ELSE unread) /\ acked' = 0
  /\ reply' = StatusReply(mode, unread', acked')
  /\ UNCHANGED <<newest, mail, armed, busy, current, mode>>

Data ==
  /\ reply = None
  /\ reply' = DataReply(current) /\ acked' = 1
  /\ UNCHANGED <<newest, mail, armed, busy, current, mode, unread>>

Ctl ==
  /\ reply = None
  /\ mode' \in {0, 1}
  /\ reply' = CtlReply(mode', unread, acked)
  /\ UNCHANGED <<newest, mail, armed, busy, current, unread, acked>>

Thresholds ==
  /\ reply = None
  /\ reply' \in {ThReply("GET_TH"), ThReply("SET_TH")}
  /\ UNCHANGED <<newest, mail, armed, busy, current, mode, unread, acked>>

Deliver ==
  /\ reply # None /\ reply' = None
  /\ UNCHANGED <<newest, mail, armed, busy, current, mode, unread, acked>>

Next ==
  \/ Capture \/ Arm \/ GiveUp \/ Fetch \/ Publish
  \/ Status \/ Data \/ Ctl \/ Thresholds \/ Deliver

Spec == Init /\ [][Next]_serviceVars
=============================================================================
