SPECIFICATION FairSpec
CHECK_DEADLOCK FALSE
CONSTANTS
  W1 = W1  W2 = W2  L = L  S = S
  Worker = {W1, W2}  LOCK = L  STORE = S  Nil = Nil
  LEASE_TTL = 60  WRITE_EVERY = 10  WORK_TICKS = 6
  Latency = {1, 10}  Rate = {}  Pause = {70}  Ticks = {}
  Within <- OnePause
  MaxAcquires = 2  MaxTime = 1000
INVARIANTS NoStaleAccept
PROPERTIES LeasesMoveOn
