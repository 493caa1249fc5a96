SPECIFICATION Spec
CONSTANTS
  s1 = s1
  s2 = s2
  Senders <- MCSenders
  Placements <- PlacementsAll
  NumFlows = 2
  FlowSize = 3
  AppBytes = 2
  MaxFlows = 4
  FlowCount = 3
  PacketCount = 7
  MaxRepeats = 1
  MaxStrays = 1
INVARIANTS TypeOK PacketsAccounted RowsTruthful ApartFlowHasRow
CHECK_DEADLOCK FALSE
