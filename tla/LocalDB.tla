-------------------------------- MODULE LocalDB --------------------------------
(***************************************************************************)
(* The in-memory store of the desktop prototype, frontend_desktop/         *)
(* local_DB.py: three lists for the window, three dictionaries by id, and  *)
(* the same objects in both.  An object is a place in `object'; lists and  *)
(* dictionaries hold places, so that a change of an object is seen through *)
(* either, and a new object in one of them is not.                         *)
(*                                                                         *)
(* The application calls openChat of it only; here it is fed as its own    *)
(* comments say it is meant to be, with the lines of a database that       *)
(* changes meanwhile.  They may be handled twice or after later ones, as   *)
(* datagrams are.  Names and texts are left out.                           *)
(***************************************************************************)
EXTENDS Naturals, FiniteSets, Sequences, SequencesExt, Functions, TLC

CONSTANTS StoreRoom, StoreUser, StoreMessage,
          RoomOfMessage(_),   \* where a message is written
          CoordinatorOf(_),
          MaxLines            \* bound on the changes of the database

ASSUME LocalDBAssumption == MaxLines \in Nat

VARIABLES
  store,             \* object; friends, chatRooms, messages; the dictionaries
  stored,            \* the rooms of the database with what they hold
  roomsMade, written,    \* rooms and messages ever made
  changes, pending,  \* changes of the database so far, lines under way to the client
  disturbed          \* history: a line was handled out of turn, or never

localVars == <<store, stored, roomsMade, written, changes, pending, disturbed>>

Empty == [object |-> << >>,
          friends |-> << >>, chatRooms |-> << >>, messages |-> << >>,
          friendsById |-> << >>, chatRoomsById |-> << >>, messagesById |-> << >>]

\* The dictionary with one entry more, or without one.
Enter(f, id, place) == [x \in DOMAIN f \cup {id} |-> IF x = id THEN place ELSE f[x]]
Forget(f, id) == [x \in DOMAIN f \ {id} |-> f[x]]
NewPlace(s) == Len(s.object) + 1

-----------------------------------------------------------------------------
(***************************************************************************)
(* Lines, as the converters read them                                      *)
(***************************************************************************)
AddOnce(seq, x) == IF x \in ToSet(seq) THEN seq ELSE Append(seq, x)

\* Mutant: the line of a room is taken to have no messages.
chatWithoutMessages(line) ==
  [id |-> line.room, userIds |-> AddOnce(line.userIds, CoordinatorOf(line.room)),
   messageIds |-> << >>, requestIds |-> line.requestIds, unreadCount |-> 0]

\* The coordinator is a member, whatever the line says.
dictToChat(line) ==
  [id |-> line.room, userIds |-> AddOnce(line.userIds, CoordinatorOf(line.room)),
   messageIds |-> line.messageIds, requestIds |-> line.requestIds, unreadCount |-> 0]

dictToMsg(line) == [id |-> line.message, chatRoomId |-> RoomOfMessage(line.message)]
dictToFriend(line) == [id |-> line.user]

-----------------------------------------------------------------------------
(***************************************************************************)
(* Add or update                                                           *)
(***************************************************************************)
addFriend(s, friend) ==
  IF friend.id \in DOMAIN s.friendsById
  THEN [s EXCEPT !.object[s.friendsById[friend.id]] = friend]
  ELSE [s EXCEPT !.object = Append(@, friend),
                 !.friends = Append(@, NewPlace(s)),
                 !.friendsById = Enter(@, friend.id, NewPlace(s))]

\* Mutant: an object that is known is replaced in the dictionary.
replaceChatRoom(s, chatRoom) ==
  [s EXCEPT !.object = Append(@, chatRoom),
            !.chatRooms = IF chatRoom.id \in DOMAIN s.chatRoomsById THEN @ ELSE Append(@, NewPlace(s)),
            !.chatRoomsById = Enter(@, chatRoom.id, NewPlace(s))]

addChatRoomObject(s, chatRoom) ==
  IF chatRoom.id \in DOMAIN s.chatRoomsById
  THEN [s EXCEPT !.object[s.chatRoomsById[chatRoom.id]] = chatRoom]
  ELSE [s EXCEPT !.object = Append(@, chatRoom),
                 !.chatRooms = Append(@, NewPlace(s)),
                 !.chatRoomsById = Enter(@, chatRoom.id, NewPlace(s))]

\* The room gets the id of a message that is new, if the room is there.
InRoom(s, message, increaseUnread) ==
  IF message.chatRoomId \in DOMAIN s.chatRoomsById
  THEN [s EXCEPT !.object[s.chatRoomsById[message.chatRoomId]] =
          [@ EXCEPT !.messageIds = AddOnce(@, message.id),
                    !.unreadCount = IF increaseUnread THEN @ + 1 ELSE @]]
  ELSE s

addMessageObject(s, message, increaseUnread) ==
  IF message.id \in DOMAIN s.messagesById
  THEN [s EXCEPT !.object[s.messagesById[message.id]] = message]
  ELSE InRoom([s EXCEPT !.object = Append(@, message),
                        !.messages = Append(@, NewPlace(s)),
                        !.messagesById = Enter(@, message.id, NewPlace(s))],
              message, increaseUnread)

-----------------------------------------------------------------------------
(***************************************************************************)
(* Notifications                                                           *)
(***************************************************************************)
HasRoom(s, r) == r \in DOMAIN s.chatRoomsById
RoomObject(s, r) == s.object[s.chatRoomsById[r]]
EditRoom(s, r, room) ==
  IF HasRoom(s, r) THEN [s EXCEPT !.object[s.chatRoomsById[r]] = room] ELSE s

\* The friend too, of whom the line has the name.
addUser(s, r, u) ==
  LET joined == [RoomObject(s, r) EXCEPT !.userIds = AddOnce(@, u),
                                         !.requestIds = RemoveFirst(@, u)]
  IN IF HasRoom(s, r) THEN addFriend(EditRoom(s, r, joined), [id |-> u]) ELSE s

removeUser(s, r, u) ==
  EditRoom(s, r, [RoomObject(s, r) EXCEPT !.userIds = RemoveFirst(@, u)])

openChat(s, r) == EditRoom(s, r, [RoomObject(s, r) EXCEPT !.unreadCount = 0])

\* remove() looks for an object that is equal, not for the same.
RemoveEqual(s, list, object) ==
  LET equal == {i \in DOMAIN list : s.object[list[i]] = object}
  IN IF equal = {} THEN list
     ELSE RemoveAt(list, CHOOSE i \in equal : \A j \in equal : i <= j)

deleteMessage(s, m) ==
  IF m \notin DOMAIN s.messagesById THEN s
  ELSE LET message == s.object[s.messagesById[m]]
           without == [s EXCEPT !.messages = RemoveEqual(s, @, message),
                                !.messagesById = Forget(@, m)]
       IN EditRoom(without, message.chatRoomId,
                   [RoomObject(s, message.chatRoomId) EXCEPT
                      !.messageIds = RemoveFirst(@, m)])

\* The messages of the room are kept.
deleteChatRoom(s, r) ==
  IF r \notin DOMAIN s.chatRoomsById THEN s
  ELSE [s EXCEPT !.chatRooms = RemoveEqual(s, @, s.object[s.chatRoomsById[r]]),
                 !.chatRoomsById = Forget(@, r)]

applyServerJson(s, line) ==
  CASE line.type = "CHAT_USER" -> addFriend(s, dictToFriend(line))
    [] line.type \in {"CHATROOM", "NEW_CHATROOM", "REQUEST", "DELETE_REQUEST"} ->
         addChatRoomObject(s, dictToChat(line))
    [] line.type = "MESSAGE" -> addMessageObject(s, dictToMsg(line), FALSE)
    [] line.type = "NEW_MESSAGE" -> addMessageObject(s, dictToMsg(line), TRUE)
    [] line.type = "ADD_USER" -> addUser(addChatRoomObject(s, dictToChat(line)), line.room, line.user)
    [] line.type = "REMOVE_USER" -> removeUser(s, line.room, line.user)
    [] line.type = "DELETE_MESSAGE" -> deleteMessage(s, line.message)
    [] line.type = "DELETE_CHATROOM" -> deleteChatRoom(s, line.room)

-----------------------------------------------------------------------------
(***************************************************************************)
(* The database, and the line that tells of each change                    *)
(***************************************************************************)
Snapshot(type, r, room) ==
  [type |-> type, room |-> r, userIds |-> room.users,
   messageIds |-> room.messages, requestIds |-> room.requests]

Tell(line) == pending' = Append(pending, line)

NewRoomHere(r) ==
  LET room == [users |-> <<CoordinatorOf(r)>>, messages |-> << >>, requests |-> << >>]
  IN /\ r \notin roomsMade
     /\ roomsMade' = roomsMade \cup {r}
     /\ stored' = Enter(stored, r, room)
     /\ Tell(Snapshot("NEW_CHATROOM", r, room))
     /\ UNCHANGED written

Becomes(r, room, line) ==
  /\ stored' = [stored EXCEPT ![r] = room]
  /\ Tell(line)
  /\ UNCHANGED roomsMade

UserJoins(r, u) ==
  LET room == [stored[r] EXCEPT !.users = AddOnce(@, u), !.requests = RemoveFirst(@, u)]
  IN Becomes(r, room, [user |-> u] @@ Snapshot("ADD_USER", r, room)) /\ UNCHANGED written

UserAsks(r, u) ==
  LET room == [stored[r] EXCEPT !.requests = AddOnce(@, u)]
  IN /\ u \notin ToSet(stored[r].users)
     /\ Becomes(r, room, Snapshot("REQUEST", r, room)) /\ UNCHANGED written

UserIsRefused(r, u) ==
  LET room == [stored[r] EXCEPT !.requests = RemoveFirst(@, u)]
  IN /\ u \in ToSet(stored[r].requests)
     /\ Becomes(r, room, Snapshot("DELETE_REQUEST", r, room)) /\ UNCHANGED written

UserLeaves(r, u) ==
  /\ Becomes(r, [stored[r] EXCEPT !.users = RemoveFirst(@, u)],
             [type |-> "REMOVE_USER", room |-> r, user |-> u])
  /\ UNCHANGED written

MessageIsWritten(r, m) ==
  /\ m \notin written /\ RoomOfMessage(m) = r
  /\ written' = written \cup {m}
  /\ Becomes(r, [stored[r] EXCEPT !.messages = Append(@, m)],
             [type |-> "NEW_MESSAGE", message |-> m])

MessageIsDeleted(r, m) ==
  /\ m \in ToSet(stored[r].messages)
  /\ Becomes(r, [stored[r] EXCEPT !.messages = RemoveFirst(@, m)],
             [type |-> "DELETE_MESSAGE", message |-> m])
  /\ UNCHANGED written

RoomIsDeleted(r) ==
  /\ ToSet(stored[r].users) \subseteq {CoordinatorOf(r)}
  /\ stored' = Forget(stored, r)
  /\ Tell([type |-> "DELETE_CHATROOM", room |-> r])
  /\ UNCHANGED <<roomsMade, written>>

DatabaseChanges ==
  /\ changes < MaxLines
  /\ changes' = changes + 1
  /\ \/ \E r \in StoreRoom : NewRoomHere(r)
     \/ \E r \in DOMAIN stored :
          \/ \E u \in StoreUser : UserJoins(r, u) \/ UserAsks(r, u) \/ UserIsRefused(r, u) \/ UserLeaves(r, u)
          \/ \E m \in StoreMessage : MessageIsWritten(r, m) \/ MessageIsDeleted(r, m)
          \/ RoomIsDeleted(r)
  /\ UNCHANGED <<store, disturbed>>

-----------------------------------------------------------------------------
(***************************************************************************)
(* The client                                                              *)
(***************************************************************************)
LocalInit ==
  /\ store = Empty
  /\ stored = << >> /\ roomsMade = {} /\ written = {} /\ changes = 0
  /\ pending = << >>
  /\ disturbed = FALSE

\* The lines of a login: rooms, users, messages.
SyncLines ==
  LET rs == SetToSeq(DOMAIN stored)
  IN [i \in DOMAIN rs |-> Snapshot("CHATROOM", rs[i], stored[rs[i]])]
     \o SetToSeq({[type |-> "CHAT_USER", user |-> u] : u \in StoreUser})
     \o FlattenSeq([i \in DOMAIN rs |->
          [k \in DOMAIN stored[rs[i]].messages |->
             [type |-> "MESSAGE", message |-> stored[rs[i]].messages[k]]]])

clearState == Empty

\* A login again; what is still under way was part of it already.
loadData ==
  /\ store' = FoldLeft(applyServerJson, clearState, SyncLines)
  /\ store' # store
  /\ disturbed' = (pending # << >>)
  /\ UNCHANGED <<stored, roomsMade, written, changes, pending>>

\* The next line, and perhaps its copy; another one out of turn; or none.
ReceiveLocal ==
  /\ \/ \E copy \in BOOLEAN :
          /\ pending # << >>
          /\ store' = applyServerJson(store, Head(pending))
          /\ pending' = IF copy THEN pending ELSE Tail(pending)
          /\ UNCHANGED disturbed
     \/ \E i \in DOMAIN pending :
          /\ store' \in {store, applyServerJson(store, pending[i])}
          /\ pending' = RemoveAt(pending, i)
          /\ disturbed' = TRUE
  /\ UNCHANGED <<stored, roomsMade, written, changes>>

\* A row of the sidebar is clicked.
OpenChat ==
  /\ \E r \in StoreRoom : store' = openChat(store, r)
  /\ UNCHANGED <<stored, roomsMade, written, changes, pending, disturbed>>

LocalNext == DatabaseChanges \/ loadData \/ ReceiveLocal \/ OpenChat

-----------------------------------------------------------------------------
(***************************************************************************)
(* Properties                                                              *)
(***************************************************************************)
\* A list and its dictionary hold the same objects, each under its own id and once.
Same(list, byId) ==
  /\ IsInjective(list)
  /\ ToSet(list) = {byId[id] : id \in DOMAIN byId}
  /\ \A id \in DOMAIN byId : store.object[byId[id]].id = id

(* Lists and dictionaries hold the same objects, as local_DB.py:10 says,   *)
(* whatever lines come how often in which order: a change made through the *)
(* dictionary is seen in the window.                                       *)
ListsAndDictionariesAgree ==
  /\ Same(store.friends, store.friendsById)
  /\ Same(store.chatRooms, store.chatRoomsById)
  /\ Same(store.messages, store.messagesById)

(* Unless lines come out of turn, no message is counted as unread twice,   *)
(* however many copies of it come, and in the end the store has the rooms  *)
(* of the database, with their members, requests and messages.  The        *)
(* coordinator is put back by every line of the room, also when removed    *)
(* (local_DB.py:165); messages of rooms that are gone are kept.            *)
StoreFollows ==
  ~disturbed =>
    /\ \A r \in DOMAIN store.chatRoomsById :
         store.object[store.chatRoomsById[r]].unreadCount
           <= Cardinality({m \in written : RoomOfMessage(m) = r})
    /\ pending = << >> => DOMAIN store.chatRoomsById = DOMAIN stored
    /\ pending = << >> => \A r \in DOMAIN stored :
         LET room == store.object[store.chatRoomsById[r]]
         IN /\ ToSet(room.userIds) \ {CoordinatorOf(r)} = ToSet(stored[r].users) \ {CoordinatorOf(r)}
            /\ room.requestIds = stored[r].requests
            /\ room.messageIds = stored[r].messages
            /\ ToSet(room.messageIds) = {m \in DOMAIN store.messagesById : RoomOfMessage(m) = r}

================================================================================
