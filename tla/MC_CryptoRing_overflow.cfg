CONSTANTS
  N = 3
  Lens = {1, 2, 3, 4}
  Keys = {0, 1}
  ClientChecksSpace = TRUE
  Reserve = 0
  ReadsWithinEnd = FALSE
SPECIFICATION Spec
CONSTRAINT RingBound
INVARIANT NoOutOfBounds
