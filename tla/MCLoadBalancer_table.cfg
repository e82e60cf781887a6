CONSTANTS
  c1 = c1
  c2 = c2
  ServerCount = 2
  UdpPort <- OwnPorts
  Client <- OneClient
  MaxSessions = 1
  MaxReports = 2
  MaxTroubles = 1
SPECIFICATION FairSpec
PROPERTIES
  LoadConverges
  AliveFollowsUp
