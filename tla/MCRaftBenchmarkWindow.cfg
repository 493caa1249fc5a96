SPECIFICATION FairSpec
CONSTANTS
  s1 = s1
  s2 = s2
  Servers <- OneServer
  NumReqs = 3
  Rate = 2
  StatsEvery = 2
  Word = 65536
  MaxWaits = 1
  MaxElections = 0
PROPERTY WindowOpens
CHECK_DEADLOCK FALSE
