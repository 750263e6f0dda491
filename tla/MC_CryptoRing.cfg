CONSTANTS
  N = 3
  Lens = {1, 2, 3, 4}
  Keys = {0, 1}
  ClientChecksSpace = TRUE
  Reserve = 1
  ReadsWithinEnd = TRUE
SPECIFICATION Spec
CONSTRAINT RingBound
INVARIANTS
  RoundTrip
  CountWithinBuffer
  CipherStream
