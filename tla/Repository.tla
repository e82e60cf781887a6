------------------------------ MODULE Repository ------------------------------
(***************************************************************************)
(* The data of the database server and what each request computes from it. *)
(*                                                                         *)
(* A store is the content of the four files under database/data:           *)
(* users.json, chatRooms.json, msg.json and index.txt.  A JSON array of    *)
(* objects with distinct ids is a function from ids to records, and an     *)
(* integer list that the code guards with containsInt is a set: the order  *)
(* of its elements decides nothing.                                        *)
(*                                                                         *)
(* A handler of request_handler.c yields                                   *)
(*   goal   the store it leaves when it runs to its end,                   *)
(*   order  the files it rewrites, in the order of its writeFile calls,    *)
(*   reply  the outcome it answers with and the users it asks to notify.   *)
(* Every file a handler writes twice gets the same content both times, so  *)
(* the content of a file after a write is its content in goal.             *)
(***************************************************************************)
EXTENDS Naturals, Sequences, Functions

CONSTANT Name   \* user names (a name stands for the credentials it came with)

UserRec == [name : Name, chatRoomIds : SUBSET Nat]

ChatRoomRec == [coordinatorId : Nat, userIds : SUBSET Nat,
                messageIds : SUBSET Nat, requestIds : SUBSET Nat]

MessageRec == [userId : Nat, chatRoomId : Nat]

IndexRec == [user : Nat, chatroom : Nat, message : Nat]

\* A store with these files.
Contents(users, chatRooms, messages, index) ==
  [users |-> users, chatRooms |-> chatRooms, messages |-> messages, index |-> index]

\* The files of an empty installation: three empty arrays, every index at 1.
EmptyStore == Contents(<< >>, << >>, << >>, [user |-> 1, chatroom |-> 1, message |-> 1])

\* save*: append an item to the array of a file.
Put(file, id, item) ==
  [x \in DOMAIN file \cup {id} |-> IF x = id THEN item ELSE file[x]]

\* update*: replace the item with this id.
Update(file, id, item) == [file EXCEPT ![id] = item]

\* delete*: drop the item with this id from the array of a file.
Delete(file, id) == Restrict(file, DOMAIN file \ {id})

Result(goal, order, outcome, notify) ==
  [goal |-> goal, order |-> order,
   reply |-> [outcome |-> outcome, notify |-> notify]]

Refuse(s, notify) == Result(s, << >>, "refused", notify)

\* userIds of a room, none when the room is missing.
Members(s, r) == IF r \in DOMAIN s.chatRooms THEN s.chatRooms[r].userIds ELSE {}

\* The coordinator to notify, nobody when the room is missing.
Coordinator(s, r) ==
  IF r \in DOMAIN s.chatRooms THEN {s.chatRooms[r].coordinatorId} ELSE {}

-----------------------------------------------------------------------------
(***************************************************************************)
(* database_repository.c                                                   *)
(***************************************************************************)
Both(s, u, r) == u \in DOMAIN s.users /\ r \in DOMAIN s.chatRooms

\* Mutant: the pending request of the new member stays.
addUserKeepsRequest(s, u, r) ==
  LET user == [s.users[u] EXCEPT !.chatRoomIds = @ \cup {r}]
      room == [s.chatRooms[r] EXCEPT !.userIds = @ \cup {u}]
  IN IF Both(s, u, r)
     THEN Contents(Update(s.users, u, user), Update(s.chatRooms, r, room),
                   s.messages, s.index)
     ELSE s

\* Mutant: a user who already lists the room is taken for a member of it.
addUserTrustsUser(s, u, r) ==
  LET user == [s.users[u] EXCEPT !.chatRoomIds = @ \cup {r}]
      room == [s.chatRooms[r] EXCEPT !.userIds = @ \cup {u}, !.requestIds = @ \ {u}]
  IN IF Both(s, u, r) /\ r \notin s.users[u].chatRoomIds
     THEN Contents(Update(s.users, u, user), Update(s.chatRooms, r, room),
                   s.messages, s.index)
     ELSE s

addUserToChatRoom(s, u, r) ==
  LET user == [s.users[u] EXCEPT !.chatRoomIds = @ \cup {r}]
      room == [s.chatRooms[r] EXCEPT !.userIds = @ \cup {u}, !.requestIds = @ \ {u}]
  IN IF Both(s, u, r)
     THEN Contents(Update(s.users, u, user), Update(s.chatRooms, r, room),
                   s.messages, s.index)
     ELSE s

removeUserFromChatRoom(s, u, r) ==
  LET user == [s.users[u] EXCEPT !.chatRoomIds = @ \ {r}]
      room == [s.chatRooms[r] EXCEPT !.userIds = @ \ {u}]
  IN IF Both(s, u, r)
     THEN Contents(Update(s.users, u, user), Update(s.chatRooms, r, room),
                   s.messages, s.index)
     ELSE s

\* updateUser, then updateChatRoom; nothing when either record is missing.
RelationWrites(s, u, r) == IF Both(s, u, r) THEN <<"users", "chatRooms">> ELSE << >>

\* getNextId: the id to take is the one in index.txt, which moves on.
Taken(s, entity) == [s.index EXCEPT ![entity] = @ + 1]

createChatRoom(s, coordinator) ==
  LET room == [coordinatorId |-> coordinator, userIds |-> {coordinator},
               messageIds |-> {}, requestIds |-> {}]
  IN Contents(s.users, Put(s.chatRooms, s.index.chatroom, room),
              s.messages, Taken(s, "chatroom"))

saveMessage(s, u, r) ==
  LET message == [userId |-> u, chatRoomId |-> r]
  IN Contents(s.users, s.chatRooms,
              Put(s.messages, s.index.message, message), Taken(s, "message"))

\* Called when the room exists.
addMessageToChatRoom(s, m, r) ==
  LET room == [s.chatRooms[r] EXCEPT !.messageIds = @ \cup {m}]
  IN Contents(s.users, Update(s.chatRooms, r, room), s.messages, s.index)

addJoinRequestToChatRoom(s, u, r) ==
  LET room == [s.chatRooms[r] EXCEPT !.requestIds = @ \cup {u}]
  IN IF Both(s, u, r) /\ u \notin Members(s, r)
     THEN Contents(s.users, Update(s.chatRooms, r, room), s.messages, s.index)
     ELSE s

removeJoinRequestFromChatRoom(s, u, r) ==
  LET room == [s.chatRooms[r] EXCEPT !.requestIds = @ \ {u}]
  IN Contents(s.users, Update(s.chatRooms, r, room), s.messages, s.index)

\* Only the coordinator is left in the room.
Deletable(s, r) ==
  /\ r \in DOMAIN s.chatRooms
  /\ s.chatRooms[r].userIds = {s.chatRooms[r].coordinatorId}

deleteChatRoomById(s, r) ==
  LET c == s.chatRooms[r].coordinatorId
      coordinator == [s.users[c] EXCEPT !.chatRoomIds = @ \ {r}]
  IN Contents(IF c \in DOMAIN s.users THEN Update(s.users, c, coordinator) ELSE s.users,
              Delete(s.chatRooms, r), s.messages, s.index)

\* The messages of a deleted room stay in msg.json: their room may be missing.
deleteMessageById(s, m) ==
  LET r == s.messages[m].chatRoomId
      room == [s.chatRooms[r] EXCEPT !.messageIds = @ \ {m}]
  IN Contents(s.users,
              IF r \in DOMAIN s.chatRooms THEN Update(s.chatRooms, r, room) ELSE s.chatRooms,
              Delete(s.messages, m), s.index)

-----------------------------------------------------------------------------
(***************************************************************************)
(* request_handler.c                                                       *)
(***************************************************************************)
\* Mutant: the search stops before the last user.
NameTakenButLast(s, name) ==
  \E u \in DOMAIN s.users : u + 1 < s.index.user /\ s.users[u].name = name

NameTaken(s, name) == \E u \in DOMAIN s.users : s.users[u].name = name

\* The reply carries the whole store; match: the password is the stored one.
handleAuth(s, name, match) ==
  IF NameTaken(s, name) /\ match THEN Result(s, << >>, "ok", {}) ELSE Refuse(s, {})

\* Mutant: the user is stored before index.txt is rewritten.
createAccountTakesIdLast(s, name) ==
  LET user == [name |-> name, chatRoomIds |-> {}]
  IN IF NameTaken(s, name) THEN Refuse(s, {})
     ELSE Result(Contents(Put(s.users, s.index.user, user), s.chatRooms,
                          s.messages, Taken(s, "user")),
                 <<"users", "index">>, "ok", {})

handleCreateAccount(s, name) ==
  LET user == [name |-> name, chatRoomIds |-> {}]
  IN IF NameTaken(s, name) THEN Refuse(s, {})
     ELSE Result(Contents(Put(s.users, s.index.user, user), s.chatRooms,
                          s.messages, Taken(s, "user")),
                 <<"index", "users">>, "ok", {})

\* The message is stored before the room is looked up: when the room is
\* missing, room->userIds is a null dereference and no answer is sent.
handleNewMessage(s, u, r) ==
  LET stored == saveMessage(s, u, r)
  IN IF r \in DOMAIN s.chatRooms
     THEN Result(addMessageToChatRoom(stored, s.index.message, r),
                 <<"index", "messages", "chatRooms">>, "ok", Members(s, r))
     ELSE Result(stored, <<"index", "messages">>, "segv", {})

\* Mutant: the coordinator's own list is not rewritten.
newChatRoomUnlisted(s, coordinator) ==
  LET id == s.index.chatroom
      created == createChatRoom(s, coordinator)
  IN Result(addUserToChatRoom(created, coordinator, id), <<"index", "chatRooms">>,
            "ok", {coordinator})

\* The room is stored before its coordinator is looked up.
handleNewChatRoom(s, coordinator) ==
  LET id == s.index.chatroom
      created == createChatRoom(s, coordinator)
  IN Result(addUserToChatRoom(created, coordinator, id),
            <<"index", "chatRooms">> \o RelationWrites(created, coordinator, id),
            "ok", {coordinator})

handleAddUser(s, u, r) ==
  Result(addUserToChatRoom(s, u, r), RelationWrites(s, u, r),
         IF Both(s, u, r) THEN "ok" ELSE "refused",
         IF r \in DOMAIN s.chatRooms THEN Coordinator(s, r) \cup {u} ELSE {})

handleRemoveUser(s, u, r) ==
  Result(removeUserFromChatRoom(s, u, r), RelationWrites(s, u, r),
         IF Both(s, u, r) THEN "ok" ELSE "refused", Members(s, r))

handleJoinRequest(s, u, r) ==
  Result(addJoinRequestToChatRoom(s, u, r),
         IF Both(s, u, r) /\ u \notin Members(s, r) THEN <<"chatRooms">> ELSE << >>,
         IF Both(s, u, r) THEN "ok" ELSE "refused", Coordinator(s, r) \cup {u})

handleDeleteRequest(s, u, r) ==
  LET notify == IF r \in DOMAIN s.chatRooms THEN Coordinator(s, r) \cup {u} ELSE {}
  IN IF r \in DOMAIN s.chatRooms /\ u \in s.chatRooms[r].requestIds
     THEN Result(removeJoinRequestFromChatRoom(s, u, r), <<"chatRooms">>, "ok", notify)
     ELSE Refuse(s, notify)

\* Mutant: the message is deleted before it is taken out of its room.
deleteMessageFirst(s, m) ==
  IF m \notin DOMAIN s.messages THEN Refuse(s, {})
  ELSE LET r == s.messages[m].chatRoomId
       IN Result(deleteMessageById(s, m), <<"messages", "chatRooms">>,
                 "ok", Members(s, r))

handleDeleteMessage(s, m) ==
  IF m \notin DOMAIN s.messages THEN Refuse(s, {})
  ELSE LET r == s.messages[m].chatRoomId
       IN Result(deleteMessageById(s, m),
                 IF r \in DOMAIN s.chatRooms THEN <<"chatRooms", "messages">>
                                             ELSE <<"messages">>,
                 "ok", Members(s, r))

\* Mutant: the id of the deleted room is handed out again.
deleteChatRoomReusesId(s, r) ==
  IF ~Deletable(s, r) THEN Refuse(s, {})
  ELSE Result([deleteChatRoomById(s, r) EXCEPT !.index.chatroom = r],
              <<"users", "chatRooms", "index">>, "ok", {s.chatRooms[r].coordinatorId})

handleDeleteChatRoom(s, r) ==
  IF ~Deletable(s, r) THEN Refuse(s, {})
  ELSE LET c == s.chatRooms[r].coordinatorId
       IN Result(deleteChatRoomById(s, r),
                 IF c \in DOMAIN s.users THEN <<"users", "chatRooms">>
                                         ELSE <<"chatRooms">>,
                 "ok", {c})

-----------------------------------------------------------------------------
(***************************************************************************)
(* What users.json and chatRooms.json, chatRooms.json and msg.json say of  *)
(* each other.                                                             *)
(***************************************************************************)
IsFile(file, Rec) == DOMAIN file \subseteq Nat /\ file \in [DOMAIN file -> Rec]

IsStore(s) ==
  /\ s = Contents(s.users, s.chatRooms, s.messages, s.index)
  /\ IsFile(s.users, UserRec)
  /\ IsFile(s.chatRooms, ChatRoomRec)
  /\ IsFile(s.messages, MessageRec)
  /\ s.index \in IndexRec

FileName == {"users", "chatRooms", "messages", "index"}
Outcome == {"ok", "refused", "segv", "silent"}

IsResult(w) ==
  /\ w = [goal |-> w.goal, order |-> w.order, reply |-> w.reply]
  /\ IsStore(w.goal)
  /\ w.order \in Seq(FileName)
  /\ w.reply \in [outcome : Outcome, notify : SUBSET Nat]

\* The user lists the room; the room lists the user.
UserLists(s, u, r) == u \in DOMAIN s.users /\ r \in s.users[u].chatRoomIds
RoomLists(s, u, r) == r \in DOMAIN s.chatRooms /\ u \in s.chatRooms[r].userIds

MembershipAgrees(s) ==
  /\ \A u \in DOMAIN s.users : \A r \in s.users[u].chatRoomIds : RoomLists(s, u, r)
  /\ \A r \in DOMAIN s.chatRooms : \A u \in s.chatRooms[r].userIds : UserLists(s, u, r)

\* Every message a room lists is stored, and is a message of that room.
ListedMessagesExist(s) ==
  \A r \in DOMAIN s.chatRooms : \A m \in s.chatRooms[r].messageIds :
    m \in DOMAIN s.messages /\ s.messages[m].chatRoomId = r

\* Every stored message of a room that exists is listed by it.
StoredMessagesAreListed(s) ==
  \A m \in DOMAIN s.messages :
    LET r == s.messages[m].chatRoomId
    IN r \in DOMAIN s.chatRooms => m \in s.chatRooms[r].messageIds

\* Every id the files name was taken from index.txt.
IdsAreTaken(s) ==
  /\ \A u \in DOMAIN s.users : u < s.index.user
  /\ \A r \in DOMAIN s.chatRooms : r < s.index.chatroom
  /\ \A m \in DOMAIN s.messages :
       m < s.index.message /\ s.messages[m].chatRoomId < s.index.chatroom
  /\ \A u \in DOMAIN s.users : \A r \in s.users[u].chatRoomIds : r < s.index.chatroom

\* A room's waiting list holds none of its members.
RequestersAreOutside(s) ==
  \A r \in DOMAIN s.chatRooms :
    s.chatRooms[r].userIds \cap s.chatRooms[r].requestIds = {}

NamesDiffer(s) ==
  \A u, v \in DOMAIN s.users : s.users[u].name = s.users[v].name => u = v

\* A store no request is half done in.
Sound(s) ==
  /\ IsStore(s)
  /\ IdsAreTaken(s)
  /\ MembershipAgrees(s)
  /\ ListedMessagesExist(s)
  /\ StoredMessagesAreListed(s)
  /\ RequestersAreOutside(s)

Listed(file, order) == \E i \in DOMAIN order : order[i] = file

\* From store s, rewriting the listed files is enough to reach goal; users are
\* only added and the index of rooms only advances.
Covers(s, goal, order) ==
  /\ goal.users # s.users => Listed("users", order)
  /\ goal.chatRooms # s.chatRooms => Listed("chatRooms", order)
  /\ goal.messages # s.messages => Listed("messages", order)
  /\ goal.index # s.index => Listed("index", order)
  /\ DOMAIN s.users \subseteq DOMAIN goal.users
  /\ s.index.chatroom <= goal.index.chatroom

-----------------------------------------------------------------------------
(***************************************************************************)
(* Requests that name users in U, rooms in R and messages in M.  GARBLED   *)
(* is text that does not parse or has no known type, for instance the      *)
(* first fragment of a request: handleClientRequest calls recv once.       *)
(***************************************************************************)
Requests(U, R, M) ==
  [type : {"GARBLED"}]
    \cup [type : {"AUTH"}, name : Name, match : BOOLEAN]
    \cup [type : {"CREATE_ACCOUNT"}, name : Name]
    \cup [type : {"NEW_CHATROOM"}, userId : U]
    \cup [type : {"NEW_MESSAGE", "ADD_USER", "REMOVE_USER", "REQUEST",
                  "DELETE_REQUEST"}, userId : U, chatRoomId : R]
    \cup [type : {"DELETE_MESSAGE"}, messageId : M]
    \cup [type : {"DELETE_CHATROOM"}, chatRoomId : R]

handleRequest(s, req) ==
  CASE req.type = "GARBLED" -> Result(s, << >>, "silent", {})
    [] req.type = "AUTH" -> handleAuth(s, req.name, req.match)
    [] req.type = "CREATE_ACCOUNT" -> handleCreateAccount(s, req.name)
    [] req.type = "NEW_CHATROOM" -> handleNewChatRoom(s, req.userId)
    [] req.type = "NEW_MESSAGE" -> handleNewMessage(s, req.userId, req.chatRoomId)
    [] req.type = "ADD_USER" -> handleAddUser(s, req.userId, req.chatRoomId)
    [] req.type = "REMOVE_USER" -> handleRemoveUser(s, req.userId, req.chatRoomId)
    [] req.type = "REQUEST" -> handleJoinRequest(s, req.userId, req.chatRoomId)
    [] req.type = "DELETE_REQUEST" -> handleDeleteRequest(s, req.userId, req.chatRoomId)
    [] req.type = "DELETE_MESSAGE" -> handleDeleteMessage(s, req.messageId)
    [] req.type = "DELETE_CHATROOM" -> handleDeleteChatRoom(s, req.chatRoomId)

===============================================================================
