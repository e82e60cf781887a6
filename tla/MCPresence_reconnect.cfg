CONSTANTS
  c1 = c1
  c2 = c2
  s1 = s1
  s2 = s2
  ana = ana
  bob = bob
  eva = eva
  None = None
  Server <- OneServer
  User <- OneUser
  Child <- TwoChildren
  Offered <- OfferedTo
  TableSize = 2
  MaxTroubles = 1
SPECIFICATION Spec
INVARIANT ReconnectedUsersAreRegistered
