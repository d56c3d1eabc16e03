SPECIFICATION LabSpec
CHECK_DEADLOCK FALSE
CONSTANTS
  ViewKey = {"p1", "p2"}
  Term = {"raft", "lego"}
  Category = {"book", "toy"}
  ViewSeed <- OneRecord
  ViewsWithin <- ViewsRest
  RunKey = {1, 2, 3}
  Hashes <- TwoBits
  MemtableCap = 1
  L0Trigger = 2
  RunsWithin <- OneTear
INVARIANTS RecoverRestores
