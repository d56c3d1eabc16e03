\* Three servers, every interleaving within one of the budgets of MCRaft, with the history of RaftHistory.
SPECIFICATION HistorySpec
CONSTANTS
  n1 = n1
  n2 = n2
  n3 = n3
  Server = {n1, n2, n3}
  MAJORITY = 2
  Nil = Nil
  Terms = {0, 1, 2}
  Within <- WithinBudget
VIEW View
CHECK_DEADLOCK FALSE
INVARIANTS
  TypeOK
  ElectionsSound
  NextWithinLog
  LogSafety
  WritesKept
  HistoryHolds
PROPERTIES
  CommittedKept
