CONSTANTS
  c1 = c1
  c2 = c2
  ana = ana
  bob = bob
  eva = eva
  None = None
  Child <- OneChild
  Name <- ThreeNames
  MaxUsers = 3
  MaxRooms = 1
  MaxMessages = 0
  MaxCrashes = 0
SPECIFICATION Spec
INVARIANT AddUserNotifiesMembers
