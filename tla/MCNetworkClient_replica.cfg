CONSTANTS
  r1 = r1
  r2 = r2
  m1 = m1
  m2 = m2
  ana = ana
  bob = bob
  desktop = desktop
  Room <- OneRoom
  Message <- TwoMessages
  Client <- OneClient
  User <- TwoUsers
  Coordinator = ana
  HearsBroadcast = TRUE
  MaxEvents = 3
  MaxTroubles = 1
SPECIFICATION Spec
INVARIANTS
  DamagePerInterruption
  ReplicaConverges
SYMMETRY NetworkClientSymmetry
CHECK_DEADLOCK FALSE
