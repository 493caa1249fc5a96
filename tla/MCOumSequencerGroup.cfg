SPECIFICATION Spec
CONSTANTS
  p1 = p1
  p2 = p2
  g1 = g1
  g2 = g2
  NoPort = NoPort
  Ports <- PortsAll
  Packets <- PacketsMixed
  Configs <- ConfigsAll
  MaxSeq = 2
  MaxBoots = 1
  MaxRuns = 1
INVARIANT GroupSeqContiguous
