SPECIFICATION PartsSpec
CONSTANTS
  MaxAttempts = 2
  MaxStops = 1
  ana = ana
  viewer = viewer
  h1 = h1
  h2 = h2
  r1 = r1
  r2 = r2
  me = me
  other = other
  Person <- Persons
  Viewer <- Viewers
  Host <- Hosts
  HostOf <- HomeOfViewer
  MaxMoves = 2
  Room <- LobbyRooms
  Mine <- CoordinatedRooms
  Me = me
  Other = other
  MaxEvents = 3
  Command <- Commands
  Reply <- Replies
  Discard = 5
  MaxReplies = 2
  StoreRoom <- StoreRooms
  StoreUser <- StoreUsers
  StoreMessage <- StoreMessages
  RoomOfMessage <- RoomOf
  CoordinatorOf <- Coordinator
  MaxLines = 4
  Node = {n1, n2, n3, n4}
  NULL = NULL
  JsonValue <- Values
  JsonText <- Texts
  CJSON_NESTING_LIMIT = 2
  INT_MAX = 30
  default_buffer_size = 3
  MaxBlocks = 8
  SIZE_MAX = 17
  SDS_MAX_PREALLOC = 2
  HdrSize <- HeaderSizes
  HdrMax <- HeaderLimits
  TypeBound <- HeaderBounds
  NoString = NoString
  MaxAddresses = 2
INVARIANTS
  ListsHoldTheirItems
  TextsKeepTheirValues
  StringsFit
  ConnectionsWorkOrAreGivenBack
  LobbyUsesItsSession
  RequestsHaveOutcomes
  OnlineUsersAreShown
  MyRoomsAreListed
  ViewsFitTheRoom
  HistoryIsShown
  PendingIsTrue
  CommandsArriveAsMeant
  RepliesAnswerCommands
  NoReplyWaits
  ListsAndDictionariesAgree
  StoreFollows
CHECK_DEADLOCK FALSE
