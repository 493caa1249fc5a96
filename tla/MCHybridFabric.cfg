SPECIFICATION Spec
CONSTANTS
  NumLeaves = 2
  NumOptical = 4
  NumSlots = 4
  OtherMac = OtherMac
  NoPort = NoPort
  Senders <- SomeSenders
  Targets <- SomeTargets
  MaxRuns = 1
INVARIANTS TypeOK ElectricalDelivery Matching StampsBracketTransit
PROPERTIES OpticalPairsMeet
