SPECIFICATION FairSpec
CONSTANTS
  s1 = s1
  s2 = s2
  Servers <- TwoServers
  NumReqs = 3
  Rate = 1
  StatsEvery = 2
  Word = 65536
  MaxWaits = 1
  MaxElections = 1
INVARIANTS TypeOK WindowRespected LatencyOnce AnsweredNotPending
PROPERTY EndsOrStuck
CHECK_DEADLOCK FALSE
