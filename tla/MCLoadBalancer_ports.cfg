CONSTANTS
  c1 = c1
  c2 = c2
  ServerCount = 2
  UdpPort <- SamePorts
  Client <- OneClient
  MaxSessions = 1
  MaxReports = 1
  MaxTroubles = 0
SPECIFICATION FairSpec
PROPERTY ReportsRaiseTheirOwnServer
