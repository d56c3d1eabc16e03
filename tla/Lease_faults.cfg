SPECIFICATION Spec
CHECK_DEADLOCK FALSE
CONSTANTS
  W1 = W1  W2 = W2  L = L  S = S
  Worker = {W1, W2}  LOCK = L  STORE = S  Nil = Nil
  LEASE_TTL = 6  WRITE_EVERY = 3  WORK_TICKS = 1
  Latency = {1, 2}  Rate = {50}  Pause = {7}  Ticks = {9}
  Within <- AnyFault
  MaxAcquires = 3  MaxTime = 12
INVARIANTS TypeOK OneHolder NoneForgotten
PROPERTIES FenceExact
