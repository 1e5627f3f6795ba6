SPECIFICATION Spec
CONSTANTS
    Groups <- SmallGroups
    Workers = {0, 1, 2}
    Repeat = 2
    Logs <- SomeLogs
INVARIANTS TypeOK ReportAccountsAll EntriesComplete EndsClean
PROPERTIES RegressionEnds
CHECK_DEADLOCK FALSE
