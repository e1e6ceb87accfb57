SPECIFICATION Spec
CONSTANTS
  NULL = NULL
  Timers = {t1, t2, t3, t4, t5}
  TimeoutBind = 2
  TimeoutClose = 0
  TimeoutUnbind = 0
  BindAnswers = {"async", "ok", "error"}
  UnbindAnswers = {"ok"}
  StopStates = {"LISTEN"}
  MaxStops = 1
  MaxUnanswered = 2
  FdStates = {"LISTEN", "CLOSE"}
  TimeoutActionStates = {}
  PacketErrorStates = {"BIND", "LISTEN", "CLOSE"}
PROPERTY EndIsDone
\* A router at rest in ERROR, or in END and not restarted, has stopped.
CHECK_DEADLOCK FALSE
