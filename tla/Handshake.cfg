SPECIFICATION FairSpec
CONSTANTS
  Nobody = Nobody
  Routers = {a, b}
  Openers = {a}
  Conns = {c1, c2, c3, c4}
  MaxConn <- MCMaxConn
  MaxOpens = 2
  MaxFaults = 1
INVARIANT TypeOK
INVARIANT MapHoldsLive
INVARIANT FreeListWhole
INVARIANT Agreement
PROPERTY ImplementsSession
PROPERTY OpenEnds
\* Connections that were answered, and the attempts, come to an end.
CHECK_DEADLOCK FALSE
