SPECIFICATION Spec
CHECK_DEADLOCK FALSE
CONSTANTS
  A = A  B = B  C = C  D = D
  Node = {A, B, C, D}
  Key = {a}
  None = None
  Params <- Settings
  Within <- Bounds
VIEW View
INVARIANTS TypeOK AckedOnQuorum ReadsSeeAcked AckedAlive OperationsEnd
