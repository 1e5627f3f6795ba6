SPECIFICATION Spec
CONSTANTS
  a = "a"
  b = "b"
  Regs = {"a", "b"}
  Vals = {0, 1}
  MaxRun = 3
  IssPairs <- SpikeAndOthers
  Executions <- SomeExecutions
INVARIANTS ConversionExact SameRunsPass PassMeansPrefix PassMeansEqual
CHECK_DEADLOCK FALSE
