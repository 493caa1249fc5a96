SPECIFICATION Spec
CONSTANTS
  fpga1 = fpga1
  fpga2 = fpga2
  fpga3 = fpga3
  fpga4 = fpga4
  Endpoints <- EndpointsAll
  GroupMac = GroupMac
  NoPort = NoPort
  Port0 = Port0
  NumLeaves = 2
  NumSpines = 2
  Topology <- BothFiles
  Cabled = "v2"
  MaxHops = 3
  MaxRuns = 2
INVARIANTS TypeOK UpAndDownOnce NoMisdelivery Delivery
CHECK_DEADLOCK FALSE
