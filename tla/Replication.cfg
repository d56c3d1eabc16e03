SPECIFICATION FairSpec
CHECK_DEADLOCK FALSE
CONSTANTS
  L = L  F1 = F1  F2 = F2  K = K
  leader = L  Follower = {F1, F2}  Key = {K}
  MaxWrites = 2
  Within <- Budgets
INVARIANTS TypeOK SyncNeverStale
PROPERTIES KeepsPromise SyncCompletes
