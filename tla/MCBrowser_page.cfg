CONSTANTS
  r1 = r1
  r2 = r2
  m1 = m1
  m2 = m2
  ana = ana
  bob = bob
  b1 = b1
  NoRoom = NoRoom
  Nobody = Nobody
  UserOf <- Bob
  HasNickname <- AnaHas
  Room <- TwoRooms
  Message <- TwoMessages
  User <- TwoUsers
  Coordinator = ana
  Client <- OneClient
  HearsBroadcast = FALSE
  MaxEvents = 2
  SeenLimit = 5
  MaxClicks = 1
SPECIFICATION Spec
INVARIANTS
  GatewayFollows
  ChatShowsItsRoom
  TypingGoesToTheChat
  MyRoomsAreListed
CONSTRAINTS
  Prompt
  FewEvents
SYMMETRY BrowserSymmetry
CHECK_DEADLOCK FALSE
