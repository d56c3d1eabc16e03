SPECIFICATION Spec
CHECK_DEADLOCK FALSE
CONSTANTS
  A = A  B = B  C = C  D = D
  Node = {A, B, C, D}
  Key = {a}
  None = None
  Params <- HintsOfOne
  Within <- TwoWrites
VIEW View
INVARIANTS AckedAlive
