SPECIFICATION Spec
CONSTANTS
  NULL = NULL
  Conns = {c1, c2, c3}
  MaxConnSend = 2
  MaxPacketSend = 2
  LastMayClose = TRUE
INVARIANT MarkedIsReachable
