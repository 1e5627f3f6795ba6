SPECIFICATION Spec
CONSTANTS
  MaxMixed = 1
  MaxBody = 1
  MaxNested = 2
  MaxOwnBranch = 1
  NJumps = 1
  NHarts = 2
  InstrCnt = 3
  MaxStreams = 2
  MaxDirected = 13
  MaxBranchStep = 2
INVARIANTS LabelsAvailable
CHECK_DEADLOCK FALSE
