SPECIFICATION FairSpec
CONSTANTS
  NULL = NULL
  Conns = {c1, c2}
  Timers = {t1, t2, t3}
  Keys = {k1, k2}
  MaxConn = 2
  MaxRetry = 1
  TimeoutClose = 0
  StopBusy = FALSE
INVARIANT TypeOK
INVARIANT OneCallback
INVARIANT TimerIsOwn
INVARIANT AnswerFindsItsOwn
INVARIANT SendersAreFit
INVARIANT MarkedIsQueued
PROPERTY AttemptEnds
\* A router that has been stopped and has no connections left is at rest.
CHECK_DEADLOCK FALSE
