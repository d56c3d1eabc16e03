SPECIFICATION EngineSpec
CHECK_DEADLOCK FALSE
CONSTANTS
  What <- Whats
  Initial <- Start
  Command <- Commands
  Effects <- Effect
  interval = 3
  MaxProcessed = 12
  MaxCommands = 2
  MaxScrubs = 3
INVARIANTS SnapshotsSound
PROPERTIES HeapIsQueue ScrubsReplay
