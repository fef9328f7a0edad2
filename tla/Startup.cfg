SPECIFICATION FairSpec
CONSTANTS
  Inits = {"i1", "i2"}
  Finders = {"f1"}
  Latest = 3
  Timeout = 2
  MaxBackoff = 2
  Layouts <- AllLayouts
  MaxTrouble = 1
INVARIANTS
  InitLeavesUsableProject
  RetryHonoursDeadline
  PartialMarkerHasWriter
PROPERTIES
  ProjectAppearsWhole
  MigrationAllOrNothing
  SoundLayoutNeverRefused
  EveryCallReturns
