CONSTANTS
  c1 = c1
  c2 = c2
  ana = ana
  bob = bob
  eva = eva
  None = None
  Child <- TwoChildren
  Name <- OneName
  MaxUsers = 1
  MaxRooms = 1
  MaxMessages = 1
  MaxCrashes = 0
SPECIFICATION Spec
INVARIANT EveryHandlerAnswers
