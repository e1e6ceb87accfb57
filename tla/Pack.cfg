SPECIFICATION Spec
CONSTANTS
  Byte = 4
  Block = 2
  Formats <- MCFormats
  Values <- MCValues
  Caps = {1, 10, 40}
INVARIANT InBounds
INVARIANT FieldsSurvive
INVARIANT CutIsRefused
INVARIANT PackLenIsEnough
\* Both calls have returned.
CHECK_DEADLOCK FALSE
