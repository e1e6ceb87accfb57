SPECIFICATION Spec
CONSTANTS
  NULL = NULL
  Timers = {t1, t2, t3}
  TimeoutBind = 2
  TimeoutClose = 1
  TimeoutUnbind = 0
  BindAnswers = {"async", "ok", "error"}
  UnbindAnswers = {"async", "ok", "error"}
  StopStates = {"BIND", "LISTEN"}
  MaxStops = 2
  MaxUnanswered = 2
  FdStates = {"START", "BIND", "LISTEN", "CLOSE", "UNBIND", "END"}
  TimeoutActionStates = {"BIND", "LISTEN", "CLOSE", "UNBIND", "END", "ERROR"}
  PacketErrorStates = {"BIND", "LISTEN", "CLOSE", "UNBIND"}
INVARIANT TypeOK
INVARIANT StateTimerLive
INVARIANT NotLeftBound
PROPERTY FirstErrorKept
\* A router at rest in ERROR, or in END and not restarted, has stopped.
CHECK_DEADLOCK FALSE
