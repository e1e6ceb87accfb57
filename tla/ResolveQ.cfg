SPECIFICATION Spec
CONSTANTS
  NULL = NULL
  Conns = {c1, c2, c3}
  Keys = {0, 1, 2, 3}
INVARIANT TypeOK
INVARIANT SizeIsAsked
INVARIANT NoLostSlot
PROPERTY ImplementsResolver
