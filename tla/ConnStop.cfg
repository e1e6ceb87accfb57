SPECIFICATION Spec
CONSTANTS
  NULL = NULL
  Conns = {c1, c2}
  Timers = {t1, t2, t3}
  Keys = {k1, k2}
  MaxConn = 2
  MaxRetry = 1
  TimeoutClose = 0
  StopBusy = TRUE
PROPERTY EndIsTold
