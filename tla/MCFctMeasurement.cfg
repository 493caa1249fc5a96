SPECIFICATION Spec
CONSTANTS
  StampSlots = 1
  HdrSlots = 2
  Expected = 2
  FlowCount = 2
  Wrap = 3
  MaxPkts = 4
  MaxPasses = 2
  MaxTicks = 2
INVARIANTS TypeOK Segmentation RowsJustified FctTrueOrZero
CHECK_DEADLOCK FALSE
