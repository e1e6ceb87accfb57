SPECIFICATION FairSpec
CONSTANTS
  NULL = NULL
  Conns = {c1, c2, c3}
  MaxConnSend = 2
  MaxPacketSend = 2
  LastMayClose = FALSE
INVARIANT TypeOK
INVARIANT QueueIsMarked
INVARIANT PassIsBounded
INVARIANT RetryHasItsSource
INVARIANT WaitingHasWakeup
PROPERTY ImplementsSendFifo
PROPERTY EveryoneHasATurn
