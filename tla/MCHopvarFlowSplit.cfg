SPECIFICATION Spec
CONSTANTS
  s1 = s1
  s2 = s2
  Senders <- MCSenders
  Placements <- PlacementsColliding
  NumFlows = 2
  FlowSize = 3
  AppBytes = 2
  MaxFlows = 4
  FlowCount = 0
  PacketCount = 0
  MaxRepeats = 0
  MaxStrays = 0
INVARIANTS ArrivedFlowHasRow
CHECK_DEADLOCK FALSE
