SPECIFICATION Spec
CONSTANTS
  a1 = a1
  a2 = a2
  a3 = a3
  b1 = b1
  b2 = b2
  s1 = s1
  s2 = s2
  t1 = t1
  fpga1 = fpga1
  fpga2 = fpga2
  fpga3 = fpga3
  Ports <- PortsAll
  Ifaces <- IfacesAll
  Nothing = Nothing
  LeafOf <- LeafMap
  SpineOf <- SpineMap
  Sequencer = fpga2
  Replicas = {fpga1}
  Group = Group
  Candidates <- Files
INVARIANTS TypeOK ReachesItsInterface TreeDelivers OnlySequencedReachReplicas
CHECK_DEADLOCK FALSE
