SPECIFICATION Spec
CONSTANTS
  p1 = p1
  p2 = p2
  g1 = g1
  g2 = g2
  NoPort = NoPort
  Ports <- PortsAll
  Packets <- PacketsReprogram
  Configs <- ConfigsAll
  MaxSeq = 2
  MaxBoots = 2
  MaxRuns = 2
INVARIANTS TypeOK StampAgreement
PROPERTIES StampReachesGroup ImplementsOrderedMulticast
