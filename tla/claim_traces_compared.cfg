SPECIFICATION Spec
CONSTANTS
  Configs <- MCConfigs
  RandSeeds = {0, 1}
  MaxFaults = 0
PROPERTIES TracesCompared
CHECK_DEADLOCK FALSE
