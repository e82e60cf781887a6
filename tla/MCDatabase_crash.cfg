CONSTANTS
  c1 = c1
  c2 = c2
  ana = ana
  bob = bob
  eva = eva
  None = None
  Child <- TwoChildren
  Name <- TwoNames
  MaxUsers = 2
  MaxRooms = 1
  MaxMessages = 2
  MaxCrashes = 2
SPECIFICATION Spec
CONSTRAINT FewMessages
INVARIANTS
  HandlersReadConsistentFiles
  NoDanglingMessage
  RequestersAreNotMembers
  NamesAreUnique
  IdsWereTaken
  DamagePerCrash
  AnswersAreTrue
PROPERTIES
  ImplementsChatStore
SYMMETRY ChildSymmetry
