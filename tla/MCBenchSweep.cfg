SPECIFICATION SweepSpec
CONSTANTS
  ThreadCounts <- OneAndTwo
  Reps = 1
  MaxSecs = 1
  MaxSweeps = 2
  MaxLines = 2
  Latencies <- AllForms
  None = None
INVARIANTS SweepTypeOK FileWellFormed RowsTruthful
PROPERTY SweepEnds
CHECK_DEADLOCK FALSE
