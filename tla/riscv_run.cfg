SPECIFICATION Spec
CONSTANTS
  Configs <- MCConfigs
  RandSeeds = {0, 1}
  MaxFaults = 1
INVARIANTS TypeOK BatchesExact SeedsApart SeedReproduces QuietDisk NoOrphans BuiltIsOwn
PROPERTIES Ends
CHECK_DEADLOCK FALSE
