-------------------------- MODULE Repository_proofs --------------------------
(***************************************************************************)
(* What the handlers preserve.  A store is sound when its files have the   *)
(* right types, name only ids that were taken from index.txt, and agree    *)
(* with each other.  Every handler leaves a sound store when it runs to    *)
(* its end, and rewrites no file that it does not list in its order.       *)
(***************************************************************************)
EXTENDS Repository, TLAPS

-----------------------------------------------------------------------------
(***************************************************************************)
(* The three ways to rewrite a file.                                       *)
(***************************************************************************)
\* update* keeps the ids of a file and changes one item.
LEMMA UpdateFile ==
  ASSUME NEW Rec, NEW file, IsFile(file, Rec), NEW id \in DOMAIN file, NEW item \in Rec
  PROVE  /\ IsFile(Update(file, id, item), Rec)
         /\ DOMAIN Update(file, id, item) = DOMAIN file
         /\ Update(file, id, item)[id] = item
         /\ \A x \in DOMAIN file : x # id => Update(file, id, item)[x] = file[x]
  BY DEF Update, IsFile

\* save* adds a new id to a file.
LEMMA PutFile ==
  ASSUME NEW Rec, NEW file, IsFile(file, Rec), NEW id, NEW item \in Rec,
         id \in Nat, id \notin DOMAIN file
  PROVE  /\ IsFile(Put(file, id, item), Rec)
         /\ DOMAIN Put(file, id, item) = DOMAIN file \cup {id}
         /\ Put(file, id, item)[id] = item
         /\ \A x \in DOMAIN file : Put(file, id, item)[x] = file[x]
  BY DEF Put, IsFile

\* delete* takes an id out of a file.
LEMMA DeleteFile ==
  ASSUME NEW Rec, NEW file, IsFile(file, Rec), NEW id
  PROVE  /\ IsFile(Delete(file, id), Rec)
         /\ DOMAIN Delete(file, id) = DOMAIN file \ {id}
         /\ \A x \in DOMAIN file : x # id => Delete(file, id)[x] = file[x]
  BY DEF Delete, Restrict, IsFile

\* getNextId moves one of the three indexes on and leaves the others.
LEMMA TakeId ==
  ASSUME NEW s, IsStore(s)
  PROVE  /\ s.index.user \in Nat /\ s.index.chatroom \in Nat /\ s.index.message \in Nat
         /\ \A e \in {"user", "chatroom", "message"} : Taken(s, e) \in IndexRec
         /\ Taken(s, "user") = [user |-> s.index.user + 1, chatroom |-> s.index.chatroom,
                                message |-> s.index.message]
         /\ Taken(s, "chatroom") = [user |-> s.index.user, message |-> s.index.message,
                                    chatroom |-> s.index.chatroom + 1]
         /\ Taken(s, "message") = [user |-> s.index.user, chatroom |-> s.index.chatroom,
                                   message |-> s.index.message + 1]
  BY DEF Taken, IsStore, IndexRec

-----------------------------------------------------------------------------
\* A store is made of its four files.
LEMMA StoreOf ==
  ASSUME NEW U, IsFile(U, UserRec), NEW C, IsFile(C, ChatRoomRec),
         NEW M, IsFile(M, MessageRec), NEW I \in IndexRec
  PROVE  /\ IsStore(Contents(U, C, M, I))
         /\ Contents(U, C, M, I).users = U
         /\ Contents(U, C, M, I).chatRooms = C
         /\ Contents(U, C, M, I).messages = M
         /\ Contents(U, C, M, I).index = I
  BY DEF IsStore, Contents

-----------------------------------------------------------------------------
(***************************************************************************)
(* Handlers that change one user and one room.                             *)
(***************************************************************************)
\* A user and a room that are rewritten together agree with each other and with
\* the rest when the link between them is there on both sides or on neither.
LEMMA RelinkIsSound ==
  ASSUME NEW s, Sound(s), NEW u \in DOMAIN s.users, NEW r \in DOMAIN s.chatRooms,
         NEW user \in UserRec, NEW room \in ChatRoomRec,
         \A x : x # r => (x \in user.chatRoomIds <=> x \in s.users[u].chatRoomIds),
         \A x : x # u => (x \in room.userIds <=> x \in s.chatRooms[r].userIds),
         r \in user.chatRoomIds <=> u \in room.userIds,
         room.messageIds = s.chatRooms[r].messageIds,
         room.userIds \cap room.requestIds = {}
  PROVE  Sound(Contents(Update(s.users, u, user), Update(s.chatRooms, r, room),
                        s.messages, s.index))
<1> DEFINE U == Update(s.users, u, user)
           C == Update(s.chatRooms, r, room)
           g == Contents(U, C, s.messages, s.index)
<1>1. /\ IsFile(s.users, UserRec) /\ IsFile(s.chatRooms, ChatRoomRec)
      /\ IsFile(s.messages, MessageRec) /\ s.index \in IndexRec
  BY DEF Sound, IsStore
<1>2. /\ IsFile(U, UserRec)
      /\ DOMAIN U = DOMAIN s.users
      /\ U[u] = user
      /\ \A x \in DOMAIN s.users : x # u => U[x] = s.users[x]
  BY <1>1, UpdateFile
<1>3. /\ IsFile(C, ChatRoomRec)
      /\ DOMAIN C = DOMAIN s.chatRooms
      /\ C[r] = room
      /\ \A x \in DOMAIN s.chatRooms : x # r => C[x] = s.chatRooms[x]
  BY <1>1, UpdateFile
<1> HIDE DEF U, C
<1>4. /\ IsStore(g)
      /\ g.users = U /\ g.chatRooms = C /\ g.messages = s.messages /\ g.index = s.index
  BY <1>1, <1>2, <1>3, StoreOf
<1> HIDE DEF g
<1>5. IdsAreTaken(g)
  <2>1. IdsAreTaken(s) BY DEF Sound
  <2>2. r < s.index.chatroom BY <2>1 DEF IdsAreTaken
  <2>3. \A x \in user.chatRoomIds : x < s.index.chatroom
    BY <2>1, <2>2 DEF IdsAreTaken
  <2> QED
    BY <1>2, <1>3, <1>4, <2>1, <2>3 DEF IdsAreTaken
<1>6. MembershipAgrees(g)
  BY <1>2, <1>3, <1>4 DEF Sound, MembershipAgrees, UserLists, RoomLists
<1>7. ListedMessagesExist(g) /\ StoredMessagesAreListed(g)
  BY <1>3, <1>4 DEF Sound, ListedMessagesExist, StoredMessagesAreListed
<1>8. RequestersAreOutside(g)
  BY <1>3, <1>4 DEF Sound, RequestersAreOutside
<1>9. Sound(g)
  BY <1>4, <1>5, <1>6, <1>7, <1>8 DEF Sound
<1> QED
  BY <1>9 DEF g, U, C

\* addUserToChatRoom links a user and a room on both sides and closes the user's
\* pending request.
LEMMA AddUserIsSound ==
  ASSUME NEW s, Sound(s), NEW u, NEW r
  PROVE  Sound(addUserToChatRoom(s, u, r))
<1> DEFINE user == [s.users[u] EXCEPT !.chatRoomIds = @ \cup {r}]
           room == [s.chatRooms[r] EXCEPT !.userIds = @ \cup {u}, !.requestIds = @ \ {u}]
<1>1. CASE ~Both(s, u, r)
  BY <1>1 DEF addUserToChatRoom
<1>2. CASE Both(s, u, r)
  <2>1. /\ user \in UserRec
        /\ user.chatRoomIds = s.users[u].chatRoomIds \cup {r}
        /\ room \in ChatRoomRec
        /\ room.userIds = s.chatRooms[r].userIds \cup {u}
        /\ room.messageIds = s.chatRooms[r].messageIds
        /\ room.requestIds = s.chatRooms[r].requestIds \ {u}
    BY <1>2 DEF Both, Sound, IsStore, IsFile, UserRec, ChatRoomRec
  <2>2. s.chatRooms[r].userIds \cap s.chatRooms[r].requestIds = {}
    BY <1>2 DEF Both, Sound, RequestersAreOutside
  <2> HIDE DEF user, room
  <2>3. Sound(Contents(Update(s.users, u, user), Update(s.chatRooms, r, room),
                       s.messages, s.index))
    BY <1>2, <2>1, <2>2, RelinkIsSound DEF Both
  <2> QED
    BY <1>2, <2>3 DEF addUserToChatRoom, user, room
<1> QED
  BY <1>1, <1>2

\* removeUserFromChatRoom unlinks them on both sides.
LEMMA RemoveUserIsSound ==
  ASSUME NEW s, Sound(s), NEW u, NEW r
  PROVE  Sound(removeUserFromChatRoom(s, u, r))
<1> DEFINE user == [s.users[u] EXCEPT !.chatRoomIds = @ \ {r}]
           room == [s.chatRooms[r] EXCEPT !.userIds = @ \ {u}]
<1>1. CASE ~Both(s, u, r)
  BY <1>1 DEF removeUserFromChatRoom
<1>2. CASE Both(s, u, r)
  <2>1. /\ user \in UserRec
        /\ user.chatRoomIds = s.users[u].chatRoomIds \ {r}
        /\ room \in ChatRoomRec
        /\ room.userIds = s.chatRooms[r].userIds \ {u}
        /\ room.messageIds = s.chatRooms[r].messageIds
        /\ room.requestIds = s.chatRooms[r].requestIds
    BY <1>2 DEF Both, Sound, IsStore, IsFile, UserRec, ChatRoomRec
  <2>2. s.chatRooms[r].userIds \cap s.chatRooms[r].requestIds = {}
    BY <1>2 DEF Both, Sound, RequestersAreOutside
  <2> HIDE DEF user, room
  <2>3. Sound(Contents(Update(s.users, u, user), Update(s.chatRooms, r, room),
                       s.messages, s.index))
    BY <1>2, <2>1, <2>2, RelinkIsSound DEF Both
  <2> QED
    BY <1>2, <2>3 DEF removeUserFromChatRoom, user, room
<1> QED
  BY <1>1, <1>2

-----------------------------------------------------------------------------
(***************************************************************************)
(* Handlers that change the waiting list of a room.                        *)
(***************************************************************************)
\* A room keeps agreeing with the other files when only its waiting list changes.
LEMMA WaitingListIsSound ==
  ASSUME NEW s, Sound(s), NEW r \in DOMAIN s.chatRooms, NEW room \in ChatRoomRec,
         room.userIds = s.chatRooms[r].userIds,
         room.messageIds = s.chatRooms[r].messageIds,
         room.userIds \cap room.requestIds = {}
  PROVE  Sound(Contents(s.users, Update(s.chatRooms, r, room), s.messages, s.index))
<1> DEFINE C == Update(s.chatRooms, r, room)
           g == Contents(s.users, C, s.messages, s.index)
<1>1. /\ IsFile(s.users, UserRec) /\ IsFile(s.chatRooms, ChatRoomRec)
      /\ IsFile(s.messages, MessageRec) /\ s.index \in IndexRec
  BY DEF Sound, IsStore
<1>2. /\ IsFile(C, ChatRoomRec)
      /\ DOMAIN C = DOMAIN s.chatRooms
      /\ C[r] = room
      /\ \A x \in DOMAIN s.chatRooms : x # r => C[x] = s.chatRooms[x]
  BY <1>1, UpdateFile
<1> HIDE DEF C
<1>3. /\ IsStore(g)
      /\ g.users = s.users /\ g.chatRooms = C
      /\ g.messages = s.messages /\ g.index = s.index
  BY <1>1, <1>2, StoreOf
<1> HIDE DEF g
<1>4. IdsAreTaken(g)
  BY <1>2, <1>3 DEF Sound, IdsAreTaken
<1>5. MembershipAgrees(g)
  BY <1>2, <1>3 DEF Sound, MembershipAgrees, UserLists, RoomLists
<1>6. ListedMessagesExist(g) /\ StoredMessagesAreListed(g)
  BY <1>2, <1>3 DEF Sound, ListedMessagesExist, StoredMessagesAreListed
<1>7. RequestersAreOutside(g)
  BY <1>2, <1>3 DEF Sound, RequestersAreOutside
<1>8. Sound(g)
  BY <1>3, <1>4, <1>5, <1>6, <1>7 DEF Sound
<1> QED
  BY <1>8 DEF g, C

\* addJoinRequestToChatRoom lets a registered user who is not a member wait.
LEMMA JoinRequestIsSound ==
  ASSUME NEW s, Sound(s), NEW u \in Nat, NEW r
  PROVE  Sound(addJoinRequestToChatRoom(s, u, r))
<1> DEFINE room == [s.chatRooms[r] EXCEPT !.requestIds = @ \cup {u}]
<1>1. CASE Both(s, u, r) /\ u \notin Members(s, r)
  <2>1. /\ r \in DOMAIN s.chatRooms
        /\ room \in ChatRoomRec
        /\ room.userIds = s.chatRooms[r].userIds
        /\ room.messageIds = s.chatRooms[r].messageIds
        /\ room.requestIds = s.chatRooms[r].requestIds \cup {u}
    BY <1>1 DEF Both, Sound, IsStore, IsFile, ChatRoomRec
  <2>2. u \notin room.userIds
    BY <1>1, <2>1 DEF Members
  <2>3. s.chatRooms[r].userIds \cap s.chatRooms[r].requestIds = {}
    BY <2>1 DEF Sound, RequestersAreOutside
  <2> HIDE DEF room
  <2>4. room.userIds \cap room.requestIds = {}
    BY <2>1, <2>2, <2>3
  <2>5. Sound(Contents(s.users, Update(s.chatRooms, r, room), s.messages, s.index))
    BY <2>1, <2>4, WaitingListIsSound
  <2> QED
    BY <1>1, <2>5 DEF addJoinRequestToChatRoom, room
<1>2. CASE ~(Both(s, u, r) /\ u \notin Members(s, r))
  BY <1>2 DEF addJoinRequestToChatRoom
<1> QED
  BY <1>1, <1>2

\* removeJoinRequestFromChatRoom lets nobody in.
LEMMA DeleteRequestIsSound ==
  ASSUME NEW s, Sound(s), NEW u, NEW r \in DOMAIN s.chatRooms
  PROVE  Sound(removeJoinRequestFromChatRoom(s, u, r))
<1> DEFINE room == [s.chatRooms[r] EXCEPT !.requestIds = @ \ {u}]
<1>1. /\ room \in ChatRoomRec
      /\ room.userIds = s.chatRooms[r].userIds
      /\ room.messageIds = s.chatRooms[r].messageIds
      /\ room.requestIds = s.chatRooms[r].requestIds \ {u}
  BY DEF Sound, IsStore, IsFile, ChatRoomRec
<1>2. s.chatRooms[r].userIds \cap s.chatRooms[r].requestIds = {}
  BY DEF Sound, RequestersAreOutside
<1> HIDE DEF room
<1>3. room.userIds \cap room.requestIds = {}
  BY <1>1, <1>2
<1>4. Sound(Contents(s.users, Update(s.chatRooms, r, room), s.messages, s.index))
  BY <1>1, <1>3, WaitingListIsSound
<1> QED
  BY <1>4 DEF removeJoinRequestFromChatRoom, room

-----------------------------------------------------------------------------
(***************************************************************************)
(* Handlers that take an id and store a new item under it.                 *)
(***************************************************************************)
\* The store registerUser leaves: nobody listed the new id before.
LEMMA NewUserIsSound ==
  ASSUME NEW s, Sound(s), NEW user \in UserRec, user.chatRoomIds = {}
  PROVE  Sound(Contents(Put(s.users, s.index.user, user), s.chatRooms,
                        s.messages, Taken(s, "user")))
<1> DEFINE id == s.index.user
           U == Put(s.users, id, user)
           g == Contents(U, s.chatRooms, s.messages, Taken(s, "user"))
<1>1. /\ IsStore(s)
      /\ IsFile(s.users, UserRec) /\ IsFile(s.chatRooms, ChatRoomRec)
      /\ IsFile(s.messages, MessageRec)
  BY DEF Sound, IsStore
<1>2. id \in Nat /\ id \notin DOMAIN s.users
  BY <1>1, TakeId DEF Sound, IdsAreTaken
<1>3. /\ IsFile(U, UserRec)
      /\ DOMAIN U = DOMAIN s.users \cup {id}
      /\ U[id] = user
      /\ \A x \in DOMAIN s.users : U[x] = s.users[x]
  BY <1>1, <1>2, PutFile
<1>4. /\ Taken(s, "user") \in IndexRec
      /\ Taken(s, "user").user = id + 1
      /\ Taken(s, "user").chatroom = s.index.chatroom
      /\ Taken(s, "user").message = s.index.message
  BY <1>1, TakeId
<1> HIDE DEF id, U
<1>5. /\ IsStore(g)
      /\ g.users = U /\ g.chatRooms = s.chatRooms
      /\ g.messages = s.messages /\ g.index = Taken(s, "user")
  BY <1>1, <1>3, <1>4, StoreOf
<1> HIDE DEF g
<1>6. IdsAreTaken(g)
  <2>1. \A x \in DOMAIN s.users : x \in Nat /\ x < id
    BY <1>1 DEF Sound, IdsAreTaken, IsFile, id
  <2>2. \A x \in DOMAIN U : x < id + 1
    BY <1>2, <1>3, <2>1
  <2>3. \A x \in DOMAIN U : \A r \in U[x].chatRoomIds : r < s.index.chatroom
    BY <1>3 DEF Sound, IdsAreTaken
  <2> QED
    BY <1>4, <1>5, <2>2, <2>3 DEF Sound, IdsAreTaken
<1>7. MembershipAgrees(g)
  BY <1>2, <1>3, <1>5 DEF Sound, MembershipAgrees, UserLists, RoomLists
<1>8. ListedMessagesExist(g) /\ StoredMessagesAreListed(g) /\ RequestersAreOutside(g)
  BY <1>5 DEF Sound, ListedMessagesExist, StoredMessagesAreListed, RequestersAreOutside
<1>9. Sound(g)
  BY <1>5, <1>6, <1>7, <1>8 DEF Sound
<1> QED
  BY <1>9 DEF g, U, id

\* The store saveChatRoom leaves: the room and its coordinator list each other.
LEMMA NewChatRoomIsSound ==
  ASSUME NEW s, Sound(s), NEW c \in DOMAIN s.users
  PROVE  Sound(addUserToChatRoom(createChatRoom(s, c), c, s.index.chatroom))
<1> DEFINE id == s.index.chatroom
           user == [s.users[c] EXCEPT !.chatRoomIds = @ \cup {id}]
           new == [coordinatorId |-> c, userIds |-> {c},
                   messageIds |-> {}, requestIds |-> {}]
           room == [new EXCEPT !.userIds = @ \cup {c}, !.requestIds = @ \ {c}]
           I == Taken(s, "chatroom")
           created == createChatRoom(s, c)
           P == Put(s.chatRooms, id, new)
           U == Update(s.users, c, user)
           C == Update(P, id, room)
           g == Contents(U, C, s.messages, I)
<1>1. /\ IsStore(s)
      /\ IsFile(s.users, UserRec) /\ IsFile(s.chatRooms, ChatRoomRec)
      /\ IsFile(s.messages, MessageRec)
  BY DEF Sound, IsStore
<1>2. id \in Nat /\ id \notin DOMAIN s.chatRooms /\ c \in Nat
  BY <1>1, TakeId DEF Sound, IdsAreTaken, IsFile
<1>3. /\ new \in ChatRoomRec /\ room \in ChatRoomRec
      /\ room.userIds = {c} /\ room.messageIds = {} /\ room.requestIds = {}
  BY <1>2 DEF ChatRoomRec
<1>4. user \in UserRec /\ user.chatRoomIds = s.users[c].chatRoomIds \cup {id}
  BY <1>1, <1>2 DEF IsFile, UserRec
<1>5. /\ I \in IndexRec
      /\ I.user = s.index.user /\ I.chatroom = id + 1 /\ I.message = s.index.message
  BY <1>1, TakeId
<1>6. created = Contents(s.users, P, s.messages, I)
  BY DEF createChatRoom
<1> HIDE DEF id, user, new, room, I, created
<1>7. /\ IsFile(P, ChatRoomRec)
      /\ DOMAIN P = DOMAIN s.chatRooms \cup {id}
      /\ P[id] = new
      /\ \A x \in DOMAIN s.chatRooms : P[x] = s.chatRooms[x]
  BY <1>1, <1>2, <1>3, PutFile
<1> HIDE DEF P
<1>8. /\ created.users = s.users /\ created.chatRooms = P
      /\ created.messages = s.messages /\ created.index = I
  BY <1>1, <1>5, <1>6, <1>7, StoreOf
<1>9. addUserToChatRoom(created, c, id) = g
  BY <1>7, <1>8 DEF addUserToChatRoom, Both, user, room
<1>10. /\ IsFile(U, UserRec)
       /\ DOMAIN U = DOMAIN s.users
       /\ U[c] = user
       /\ \A x \in DOMAIN s.users : x # c => U[x] = s.users[x]
  BY <1>1, <1>4, UpdateFile
<1>11. /\ IsFile(C, ChatRoomRec)
       /\ DOMAIN C = DOMAIN s.chatRooms \cup {id}
       /\ C[id] = room
       /\ \A x \in DOMAIN s.chatRooms : C[x] = s.chatRooms[x]
  BY <1>2, <1>3, <1>7, UpdateFile
<1> HIDE DEF U, C
<1>12. /\ IsStore(g)
       /\ g.users = U /\ g.chatRooms = C /\ g.messages = s.messages /\ g.index = I
  BY <1>1, <1>5, <1>10, <1>11, StoreOf
<1> HIDE DEF g
<1>13. IdsAreTaken(g)
  <2>1. \A x \in DOMAIN s.chatRooms : x \in Nat /\ x < id
    BY <1>1 DEF Sound, IdsAreTaken, IsFile, id
  <2>2. \A u \in DOMAIN s.users : \A x \in s.users[u].chatRoomIds : x \in Nat /\ x < id
    BY <1>1 DEF Sound, IdsAreTaken, IsFile, UserRec, id
  <2>3. \A m \in DOMAIN s.messages : /\ s.messages[m].chatRoomId \in Nat
                                     /\ s.messages[m].chatRoomId < id
    BY <1>1 DEF Sound, IdsAreTaken, IsFile, MessageRec, id
  <2>4. \A x \in DOMAIN C : x < id + 1
    BY <1>2, <1>11, <2>1
  <2>5. \A u \in DOMAIN U : \A x \in U[u].chatRoomIds : x < id + 1
    BY <1>2, <1>4, <1>10, <2>2
  <2>6. \A m \in DOMAIN s.messages : s.messages[m].chatRoomId < id + 1
    BY <1>2, <2>3
  <2> QED
    BY <1>5, <1>10, <1>12, <2>4, <2>5, <2>6 DEF Sound, IdsAreTaken
<1>14. MembershipAgrees(g)
  BY <1>2, <1>3, <1>4, <1>10, <1>11, <1>12
  DEF Sound, MembershipAgrees, UserLists, RoomLists
<1>15. ListedMessagesExist(g)
  BY <1>3, <1>11, <1>12 DEF Sound, ListedMessagesExist
<1>16. StoredMessagesAreListed(g)
  <2>1. \A m \in DOMAIN s.messages : s.messages[m].chatRoomId # id
    BY <1>1, <1>2 DEF Sound, IdsAreTaken, IsFile, MessageRec, id
  <2> QED
    BY <1>11, <1>12, <2>1 DEF Sound, StoredMessagesAreListed
<1>17. RequestersAreOutside(g)
  BY <1>3, <1>11, <1>12 DEF Sound, RequestersAreOutside
<1>18. Sound(g)
  BY <1>12, <1>13, <1>14, <1>15, <1>16, <1>17 DEF Sound
<1> QED
  BY <1>9, <1>18 DEF created, id

\* The store handleNewMessage leaves when the room exists: the room lists the
\* new message.
LEMMA NewMessageIsSound ==
  ASSUME NEW s, Sound(s), NEW u \in Nat, NEW r \in DOMAIN s.chatRooms
  PROVE  Sound(addMessageToChatRoom(saveMessage(s, u, r), s.index.message, r))
<1> DEFINE id == s.index.message
           message == [userId |-> u, chatRoomId |-> r]
           room == [s.chatRooms[r] EXCEPT !.messageIds = @ \cup {id}]
           I == Taken(s, "message")
           stored == saveMessage(s, u, r)
           M == Put(s.messages, id, message)
           C == Update(s.chatRooms, r, room)
           g == Contents(s.users, C, M, I)
<1>1. /\ IsStore(s)
      /\ IsFile(s.users, UserRec) /\ IsFile(s.chatRooms, ChatRoomRec)
      /\ IsFile(s.messages, MessageRec)
  BY DEF Sound, IsStore
<1>2. id \in Nat /\ id \notin DOMAIN s.messages /\ r \in Nat
  BY <1>1, TakeId DEF Sound, IdsAreTaken, IsFile
<1>3. message \in MessageRec /\ message.chatRoomId = r
  BY <1>2 DEF MessageRec
<1>4. /\ room \in ChatRoomRec
      /\ room.messageIds = s.chatRooms[r].messageIds \cup {id}
      /\ room.userIds = s.chatRooms[r].userIds
      /\ room.requestIds = s.chatRooms[r].requestIds
  BY <1>1, <1>2 DEF IsFile, ChatRoomRec
<1>5. /\ I \in IndexRec
      /\ I.user = s.index.user /\ I.chatroom = s.index.chatroom /\ I.message = id + 1
  BY <1>1, TakeId
<1>6. stored = Contents(s.users, s.chatRooms, M, I)
  BY DEF saveMessage
<1> HIDE DEF id, message, I, stored
<1>7. /\ IsFile(M, MessageRec)
      /\ DOMAIN M = DOMAIN s.messages \cup {id}
      /\ M[id] = message
      /\ \A x \in DOMAIN s.messages : M[x] = s.messages[x]
  BY <1>1, <1>2, <1>3, PutFile DEF Put
<1> HIDE DEF M
<1>8. /\ stored.users = s.users /\ stored.chatRooms = s.chatRooms
      /\ stored.messages = M /\ stored.index = I
  BY <1>1, <1>5, <1>6, <1>7, StoreOf
<1>9. addMessageToChatRoom(stored, id, r) = g
  BY <1>8 DEF addMessageToChatRoom
<1> HIDE DEF room
<1>10. /\ IsFile(C, ChatRoomRec)
       /\ DOMAIN C = DOMAIN s.chatRooms
       /\ C[r] = room
       /\ \A x \in DOMAIN s.chatRooms : x # r => C[x] = s.chatRooms[x]
  BY <1>1, <1>4, UpdateFile
<1> HIDE DEF C
<1>11. /\ IsStore(g)
       /\ g.users = s.users /\ g.chatRooms = C /\ g.messages = M /\ g.index = I
  BY <1>1, <1>5, <1>7, <1>10, StoreOf
<1> HIDE DEF g
<1>12. IdsAreTaken(g)
  <2>1. \A m \in DOMAIN s.messages : m \in Nat /\ m < id
    BY <1>1 DEF Sound, IdsAreTaken, IsFile, id
  <2>2. \A m \in DOMAIN M : m < id + 1
    BY <1>2, <1>7, <2>1
  <2>3. \A m \in DOMAIN M : M[m].chatRoomId < s.index.chatroom
    BY <1>3, <1>7 DEF Sound, IdsAreTaken
  <2> QED
    BY <1>5, <1>10, <1>11, <2>2, <2>3 DEF Sound, IdsAreTaken
<1>13. MembershipAgrees(g)
  BY <1>4, <1>10, <1>11 DEF Sound, MembershipAgrees, UserLists, RoomLists
<1>14. ListedMessagesExist(g)
  BY <1>2, <1>3, <1>4, <1>7, <1>10, <1>11 DEF Sound, ListedMessagesExist
<1>15. StoredMessagesAreListed(g)
  BY <1>3, <1>4, <1>7, <1>10, <1>11 DEF Sound, StoredMessagesAreListed
<1>16. RequestersAreOutside(g)
  BY <1>4, <1>10, <1>11 DEF Sound, RequestersAreOutside
<1>17. Sound(g)
  BY <1>11, <1>12, <1>13, <1>14, <1>15, <1>16 DEF Sound
<1> QED
  BY <1>9, <1>17 DEF stored, id

\* The store handleNewMessage leaves when the room was deleted: the message is an
\* orphan, of a room whose id is never handed out again.
LEMMA OrphanMessageIsSound ==
  ASSUME NEW s, Sound(s), NEW u \in Nat, NEW r \in Nat,
         r \notin DOMAIN s.chatRooms, r < s.index.chatroom
  PROVE  Sound(saveMessage(s, u, r))
<1> DEFINE id == s.index.message
           message == [userId |-> u, chatRoomId |-> r]
           I == Taken(s, "message")
           M == Put(s.messages, id, message)
           g == Contents(s.users, s.chatRooms, M, I)
<1>1. /\ IsStore(s)
      /\ IsFile(s.users, UserRec) /\ IsFile(s.chatRooms, ChatRoomRec)
      /\ IsFile(s.messages, MessageRec)
  BY DEF Sound, IsStore
<1>2. id \in Nat /\ id \notin DOMAIN s.messages
  BY <1>1, TakeId DEF Sound, IdsAreTaken, IsFile
<1>3. message \in MessageRec /\ message.chatRoomId = r
  BY DEF MessageRec
<1>4. /\ I \in IndexRec
      /\ I.user = s.index.user /\ I.chatroom = s.index.chatroom /\ I.message = id + 1
  BY <1>1, TakeId
<1> HIDE DEF id, message, I
<1>5. /\ IsFile(M, MessageRec)
      /\ DOMAIN M = DOMAIN s.messages \cup {id}
      /\ M[id] = message
      /\ \A x \in DOMAIN s.messages : M[x] = s.messages[x]
  BY <1>1, <1>2, <1>3, PutFile DEF Put
<1> HIDE DEF M
<1>6. /\ IsStore(g)
      /\ g.users = s.users /\ g.chatRooms = s.chatRooms
      /\ g.messages = M /\ g.index = I
  BY <1>1, <1>4, <1>5, StoreOf
<1> HIDE DEF g
<1>7. IdsAreTaken(g)
  <2>1. \A m \in DOMAIN s.messages : m \in Nat /\ m < id
    BY <1>1 DEF Sound, IdsAreTaken, IsFile, id
  <2>2. \A m \in DOMAIN M : m < id + 1
    BY <1>2, <1>5, <2>1
  <2>3. \A m \in DOMAIN M : M[m].chatRoomId < s.index.chatroom
    BY <1>3, <1>5 DEF Sound, IdsAreTaken
  <2> QED
    BY <1>4, <1>6, <2>2, <2>3 DEF Sound, IdsAreTaken
<1>8. MembershipAgrees(g) /\ RequestersAreOutside(g)
  BY <1>6 DEF Sound, MembershipAgrees, UserLists, RoomLists, RequestersAreOutside
<1>9. ListedMessagesExist(g)
  BY <1>2, <1>5, <1>6 DEF Sound, ListedMessagesExist
<1>10. StoredMessagesAreListed(g)
  BY <1>3, <1>5, <1>6 DEF Sound, StoredMessagesAreListed
<1>11. Sound(g)
  BY <1>6, <1>7, <1>8, <1>9, <1>10 DEF Sound
<1> QED
  BY <1>11 DEF saveMessage, g, M, I, id, message

-----------------------------------------------------------------------------
(***************************************************************************)
(* Handlers that delete.                                                   *)
(***************************************************************************)
\* deleteMessageById takes the message out of msg.json and out of its room.
LEMMA DeleteMessageIsSound ==
  ASSUME NEW s, Sound(s), NEW m \in DOMAIN s.messages
  PROVE  Sound(deleteMessageById(s, m))
<1> DEFINE r == s.messages[m].chatRoomId
           room == [s.chatRooms[r] EXCEPT !.messageIds = @ \ {m}]
           C == IF r \in DOMAIN s.chatRooms THEN Update(s.chatRooms, r, room)
                                            ELSE s.chatRooms
           M == Delete(s.messages, m)
           g == Contents(s.users, C, M, s.index)
<1>1. /\ IsFile(s.users, UserRec) /\ IsFile(s.chatRooms, ChatRoomRec)
      /\ IsFile(s.messages, MessageRec) /\ s.index \in IndexRec
  BY DEF Sound, IsStore
<1>2. r \in DOMAIN s.chatRooms =>
        /\ room \in ChatRoomRec
        /\ room.messageIds = s.chatRooms[r].messageIds \ {m}
        /\ room.userIds = s.chatRooms[r].userIds
        /\ room.requestIds = s.chatRooms[r].requestIds
  BY <1>1 DEF IsFile, ChatRoomRec
<1>3. /\ IsFile(M, MessageRec)
      /\ DOMAIN M = DOMAIN s.messages \ {m}
      /\ \A x \in DOMAIN s.messages : x # m => M[x] = s.messages[x]
  BY <1>1, DeleteFile DEF Delete, Restrict
<1> HIDE DEF M, room, r
<1>4. /\ IsFile(C, ChatRoomRec)
      /\ DOMAIN C = DOMAIN s.chatRooms
      /\ r \in DOMAIN C => C[r] = room
      /\ \A x \in DOMAIN s.chatRooms : x # r => C[x] = s.chatRooms[x]
  <2>1. CASE r \in DOMAIN s.chatRooms
    BY <1>1, <1>2, <2>1, UpdateFile
  <2>2. CASE r \notin DOMAIN s.chatRooms
    BY <1>1, <2>2
  <2> QED
    BY <2>1, <2>2
<1> HIDE DEF C
<1>5. /\ IsStore(g)
      /\ g.users = s.users /\ g.chatRooms = C /\ g.messages = M /\ g.index = s.index
  BY <1>1, <1>3, <1>4, StoreOf
<1> HIDE DEF g
<1>6. IdsAreTaken(g)
  BY <1>3, <1>4, <1>5 DEF Sound, IdsAreTaken
<1>7. MembershipAgrees(g)
  BY <1>2, <1>4, <1>5 DEF Sound, MembershipAgrees, UserLists, RoomLists
<1>8. ListedMessagesExist(g)
  <2>1. \A x \in DOMAIN s.chatRooms : x # r => m \notin s.chatRooms[x].messageIds
    BY DEF Sound, ListedMessagesExist, r
  <2> QED
    BY <1>2, <1>3, <1>4, <1>5, <2>1 DEF Sound, ListedMessagesExist
<1>9. StoredMessagesAreListed(g)
  BY <1>2, <1>3, <1>4, <1>5 DEF Sound, StoredMessagesAreListed
<1>10. RequestersAreOutside(g)
  BY <1>2, <1>4, <1>5 DEF Sound, RequestersAreOutside
<1>11. Sound(g)
  BY <1>5, <1>6, <1>7, <1>8, <1>9, <1>10 DEF Sound
<1> QED
  BY <1>11 DEF deleteMessageById, g, C, M, room, r

\* deleteChatRoomById takes the room out of chatRooms.json and out of the list of
\* its only member; its messages become orphans.
LEMMA DeleteChatRoomIsSound ==
  ASSUME NEW s, Sound(s), NEW r, Deletable(s, r)
  PROVE  Sound(deleteChatRoomById(s, r))
<1> DEFINE c == s.chatRooms[r].coordinatorId
           user == [s.users[c] EXCEPT !.chatRoomIds = @ \ {r}]
           U == Update(s.users, c, user)
           C == Delete(s.chatRooms, r)
           g == Contents(U, C, s.messages, s.index)
<1>1. /\ IsFile(s.users, UserRec) /\ IsFile(s.chatRooms, ChatRoomRec)
      /\ IsFile(s.messages, MessageRec) /\ s.index \in IndexRec
  BY DEF Sound, IsStore
<1>2. /\ r \in DOMAIN s.chatRooms
      /\ s.chatRooms[r].userIds = {c}
      /\ c \in DOMAIN s.users
  BY DEF Deletable, Sound, MembershipAgrees, UserLists
<1>3. user \in UserRec /\ user.chatRoomIds = s.users[c].chatRoomIds \ {r}
  BY <1>1, <1>2 DEF IsFile, UserRec
<1>4. /\ IsFile(C, ChatRoomRec)
      /\ DOMAIN C = DOMAIN s.chatRooms \ {r}
      /\ \A x \in DOMAIN s.chatRooms : x # r => C[x] = s.chatRooms[x]
  BY <1>1, DeleteFile DEF Delete, Restrict
<1>5. deleteChatRoomById(s, r) = g
  BY <1>2 DEF deleteChatRoomById
<1> HIDE DEF c, user, C
<1>6. /\ IsFile(U, UserRec)
      /\ DOMAIN U = DOMAIN s.users
      /\ U[c] = user
      /\ \A x \in DOMAIN s.users : x # c => U[x] = s.users[x]
  BY <1>1, <1>2, <1>3, UpdateFile
<1> HIDE DEF U
<1>7. /\ IsStore(g)
      /\ g.users = U /\ g.chatRooms = C /\ g.messages = s.messages /\ g.index = s.index
  BY <1>1, <1>4, <1>6, StoreOf
<1> HIDE DEF g
<1>8. IdsAreTaken(g)
  BY <1>3, <1>4, <1>6, <1>7 DEF Sound, IdsAreTaken
<1>9. MembershipAgrees(g)
  <2>1. \A u \in DOMAIN s.users : u # c => r \notin s.users[u].chatRoomIds
    BY <1>2 DEF Sound, MembershipAgrees, RoomLists
  <2> QED
    BY <1>2, <1>3, <1>4, <1>6, <1>7, <2>1
    DEF Sound, MembershipAgrees, UserLists, RoomLists
<1>10. ListedMessagesExist(g) /\ StoredMessagesAreListed(g) /\ RequestersAreOutside(g)
  BY <1>4, <1>7
  DEF Sound, ListedMessagesExist, StoredMessagesAreListed, RequestersAreOutside
<1>11. Sound(g)
  BY <1>7, <1>8, <1>9, <1>10 DEF Sound
<1> QED
  BY <1>5, <1>11

-----------------------------------------------------------------------------
(***************************************************************************)
(* Types.  They hold of any files, those a killed child left half written  *)
(* included, so they need no more than a store of the right types.         *)
(***************************************************************************)
\* save* keeps the type of a file even when it meets an id that is there.
LEMMA PutType ==
  ASSUME NEW Rec, NEW file, IsFile(file, Rec), NEW id, id \in Nat, NEW item \in Rec
  PROVE  IsFile(Put(file, id, item), Rec)
  BY DEF Put, IsFile

\* The files of a store, and the items in them, have their types.
LEMMA StoreTypes ==
  ASSUME NEW s, IsStore(s)
  PROVE  /\ IsFile(s.users, UserRec) /\ IsFile(s.chatRooms, ChatRoomRec)
         /\ IsFile(s.messages, MessageRec) /\ s.index \in IndexRec
         /\ \A u \in DOMAIN s.users : u \in Nat /\ s.users[u] \in UserRec
         /\ \A r \in DOMAIN s.chatRooms : r \in Nat /\ s.chatRooms[r] \in ChatRoomRec
         /\ \A m \in DOMAIN s.messages : m \in Nat /\ s.messages[m] \in MessageRec
  BY DEF IsStore, IsFile

\* Every operation of database_repository.c on one user and one room leaves files
\* of the right types.
LEMMA RelationTypes ==
  ASSUME NEW s, IsStore(s), NEW u \in Nat, NEW r \in Nat
  PROVE  IsStore(addUserToChatRoom(s, u, r)) /\ IsStore(removeUserFromChatRoom(s, u, r))
<1>1. CASE ~Both(s, u, r)
  BY <1>1 DEF addUserToChatRoom, removeUserFromChatRoom
<1>2. CASE Both(s, u, r)
  <2>1. s.users[u] \in UserRec /\ s.chatRooms[r] \in ChatRoomRec
    BY <1>2, StoreTypes DEF Both
  <2>2. /\ [s.users[u] EXCEPT !.chatRoomIds = @ \cup {r}] \in UserRec
        /\ [s.users[u] EXCEPT !.chatRoomIds = @ \ {r}] \in UserRec
        /\ [s.chatRooms[r] EXCEPT !.userIds = @ \cup {u}, !.requestIds = @ \ {u}]
             \in ChatRoomRec
        /\ [s.chatRooms[r] EXCEPT !.userIds = @ \ {u}] \in ChatRoomRec
    BY <2>1 DEF UserRec, ChatRoomRec
  <2>3. \A user \in UserRec : IsFile(Update(s.users, u, user), UserRec)
    BY <1>2, StoreTypes, UpdateFile DEF Both
  <2>4. \A room \in ChatRoomRec : IsFile(Update(s.chatRooms, r, room), ChatRoomRec)
    BY <1>2, StoreTypes, UpdateFile DEF Both
  <2>5. IsStore(addUserToChatRoom(s, u, r))
    BY <1>2, <2>2, <2>3, <2>4, StoreTypes, StoreOf DEF addUserToChatRoom
  <2>6. IsStore(removeUserFromChatRoom(s, u, r))
    BY <1>2, <2>2, <2>3, <2>4, StoreTypes, StoreOf DEF removeUserFromChatRoom
  <2> QED
    BY <2>5, <2>6
<1> QED
  BY <1>1, <1>2

\* The two operations on the waiting list of a room keep a store well formed.
LEMMA WaitingListTypes ==
  ASSUME NEW s, IsStore(s), NEW u \in Nat, NEW r \in DOMAIN s.chatRooms
  PROVE  /\ IsStore(addJoinRequestToChatRoom(s, u, r))
         /\ IsStore(removeJoinRequestFromChatRoom(s, u, r))
<1>1. s.chatRooms[r] \in ChatRoomRec
  BY StoreTypes
<1>2. /\ [s.chatRooms[r] EXCEPT !.requestIds = @ \cup {u}] \in ChatRoomRec
      /\ [s.chatRooms[r] EXCEPT !.requestIds = @ \ {u}] \in ChatRoomRec
  BY <1>1 DEF ChatRoomRec
<1>3. \A room \in ChatRoomRec : IsFile(Update(s.chatRooms, r, room), ChatRoomRec)
  BY StoreTypes, UpdateFile
<1>4. IsStore(addJoinRequestToChatRoom(s, u, r))
  BY <1>2, <1>3, StoreTypes, StoreOf DEF addJoinRequestToChatRoom
<1>5. IsStore(removeJoinRequestFromChatRoom(s, u, r))
  BY <1>2, <1>3, StoreTypes, StoreOf DEF removeJoinRequestFromChatRoom
<1> QED
  BY <1>4, <1>5

\* Storing a new user keeps a store well formed (registerUser).
LEMMA NewUserTypes ==
  ASSUME NEW s, IsStore(s), NEW name \in Name
  PROVE  IsStore(Contents(Put(s.users, s.index.user, [name |-> name, chatRoomIds |-> {}]),
                          s.chatRooms, s.messages, Taken(s, "user")))
<1> DEFINE user == [name |-> name, chatRoomIds |-> {}]
<1>1. user \in UserRec
  BY DEF UserRec
<1> HIDE DEF user
<1>2. IsFile(Put(s.users, s.index.user, user), UserRec)
  BY <1>1, StoreTypes, TakeId, PutType
<1>3. Taken(s, "user") \in IndexRec
  BY TakeId
<1>4. IsStore(Contents(Put(s.users, s.index.user, user),
                       s.chatRooms, s.messages, Taken(s, "user")))
  BY <1>2, <1>3, StoreTypes, StoreOf
<1> QED
  BY <1>4 DEF user

\* Storing a new room keeps a store well formed (createChatRoom, saveChatRoom).
LEMMA NewChatRoomTypes ==
  ASSUME NEW s, IsStore(s), NEW u \in Nat
  PROVE  IsStore(createChatRoom(s, u))
<1> DEFINE room == [coordinatorId |-> u, userIds |-> {u},
                    messageIds |-> {}, requestIds |-> {}]
<1>1. room \in ChatRoomRec
  BY DEF ChatRoomRec
<1> HIDE DEF room
<1>2. IsFile(Put(s.chatRooms, s.index.chatroom, room), ChatRoomRec)
  BY <1>1, StoreTypes, TakeId, PutType
<1>3. Taken(s, "chatroom") \in IndexRec
  BY TakeId
<1>4. IsStore(Contents(s.users, Put(s.chatRooms, s.index.chatroom, room),
                       s.messages, Taken(s, "chatroom")))
  BY <1>2, <1>3, StoreTypes, StoreOf
<1> QED
  BY <1>4 DEF createChatRoom, room

\* Storing a message keeps a store well formed (saveMessage).
LEMMA NewMessageTypes ==
  ASSUME NEW s, IsStore(s), NEW u \in Nat, NEW r \in Nat
  PROVE  IsStore(saveMessage(s, u, r)) /\ saveMessage(s, u, r).chatRooms = s.chatRooms
<1> DEFINE message == [userId |-> u, chatRoomId |-> r]
           M == Put(s.messages, s.index.message, message)
           I == Taken(s, "message")
<1>1. message \in MessageRec
  BY DEF MessageRec
<1> HIDE DEF message
<1>2. IsFile(M, MessageRec) /\ I \in IndexRec
  BY <1>1, StoreTypes, TakeId, PutType
<1>3. saveMessage(s, u, r) = Contents(s.users, s.chatRooms, M, I)
  BY DEF saveMessage, message
<1> HIDE DEF M, I
<1> QED
  BY <1>2, <1>3, StoreTypes, StoreOf

\* Listing a message in its room keeps a store well formed (addMessageToChatRoom).
LEMMA AddMessageTypes ==
  ASSUME NEW s, IsStore(s), NEW m \in Nat, NEW r \in DOMAIN s.chatRooms
  PROVE  IsStore(addMessageToChatRoom(s, m, r))
<1>1. s.chatRooms[r] \in ChatRoomRec
  BY StoreTypes
<1>2. [s.chatRooms[r] EXCEPT !.messageIds = @ \cup {m}] \in ChatRoomRec
  BY <1>1 DEF ChatRoomRec
<1>3. \A room \in ChatRoomRec : IsFile(Update(s.chatRooms, r, room), ChatRoomRec)
  BY StoreTypes, UpdateFile
<1> QED
  BY <1>2, <1>3, StoreTypes, StoreOf DEF addMessageToChatRoom

\* Deleting a room or a message keeps a store well formed.
LEMMA DeleteTypes ==
  ASSUME NEW s, IsStore(s)
  PROVE  /\ \A r \in DOMAIN s.chatRooms : IsStore(deleteChatRoomById(s, r))
         /\ \A m \in DOMAIN s.messages : IsStore(deleteMessageById(s, m))
<1>1. ASSUME NEW r \in DOMAIN s.chatRooms
      PROVE  IsStore(deleteChatRoomById(s, r))
  <2> DEFINE c == s.chatRooms[r].coordinatorId
             user == [s.users[c] EXCEPT !.chatRoomIds = @ \ {r}]
             U == IF c \in DOMAIN s.users THEN Update(s.users, c, user) ELSE s.users
  <2>1. c \in DOMAIN s.users => user \in UserRec
    <3>1. c \in DOMAIN s.users => s.users[c] \in UserRec
      BY StoreTypes
    <3> QED
      BY <3>1 DEF UserRec
  <2> HIDE DEF user, c
  <2>2. IsFile(U, UserRec)
    BY <2>1, StoreTypes, UpdateFile
  <2>3. IsFile(Delete(s.chatRooms, r), ChatRoomRec)
    BY StoreTypes, DeleteFile
  <2> HIDE DEF U
  <2>4. IsStore(Contents(U, Delete(s.chatRooms, r), s.messages, s.index))
    BY <2>2, <2>3, StoreTypes, StoreOf
  <2> QED
    BY <2>4 DEF deleteChatRoomById, U, user, c
<1>2. ASSUME NEW m \in DOMAIN s.messages
      PROVE  IsStore(deleteMessageById(s, m))
  <2> DEFINE r == s.messages[m].chatRoomId
             room == [s.chatRooms[r] EXCEPT !.messageIds = @ \ {m}]
             C == IF r \in DOMAIN s.chatRooms THEN Update(s.chatRooms, r, room)
                                              ELSE s.chatRooms
  <2>1. r \in DOMAIN s.chatRooms => room \in ChatRoomRec
    <3>1. r \in DOMAIN s.chatRooms => s.chatRooms[r] \in ChatRoomRec
      BY StoreTypes
    <3> QED
      BY <3>1 DEF ChatRoomRec
  <2> HIDE DEF room, r
  <2>2. IsFile(C, ChatRoomRec)
    BY <2>1, StoreTypes, UpdateFile
  <2>3. IsFile(Delete(s.messages, m), MessageRec)
    BY StoreTypes, DeleteFile
  <2> HIDE DEF C
  <2>4. IsStore(Contents(s.users, C, Delete(s.messages, m), s.index))
    BY <2>2, <2>3, StoreTypes, StoreOf
  <2> QED
    BY <2>4 DEF deleteMessageById, C, room, r
<1> QED
  BY <1>1, <1>2

-----------------------------------------------------------------------------
(***************************************************************************)
(* What every handler leaves.                                              *)
(***************************************************************************)
IsAnswer(s, w) == IsResult(w) /\ Covers(s, w.goal, w.order)

\* A result has the parts it is made of.
LEMMA ResultOf ==
  ASSUME NEW s, NEW goal, IsStore(goal), NEW order \in Seq(FileName),
         Covers(s, goal, order), NEW outcome \in Outcome, NEW notify \in SUBSET Nat
  PROVE  /\ IsAnswer(s, Result(goal, order, outcome, notify))
         /\ Result(goal, order, outcome, notify).goal = goal
<1> DEFINE w == Result(goal, order, outcome, notify)
<1>1. /\ w = [goal |-> w.goal, order |-> w.order, reply |-> w.reply]
      /\ w.goal = goal /\ w.order = order
      /\ w.reply \in [outcome : Outcome, notify : SUBSET Nat]
  BY DEF Result
<1> HIDE DEF w
<1>2. IsAnswer(s, w)
  BY <1>1 DEF IsAnswer, IsResult
<1> QED
  BY <1>1, <1>2 DEF w

\* The outcomes the handlers answer with.
LEMMA Outcomes == /\ "ok" \in Outcome /\ "refused" \in Outcome
                  /\ "segv" \in Outcome /\ "silent" \in Outcome
  BY DEF Outcome

\* The lists of files the handlers rewrite.
LEMMA Orders ==
  /\ << >> \in Seq(FileName)
  /\ <<"chatRooms">> \in Seq(FileName)
  /\ <<"messages">> \in Seq(FileName)
  /\ <<"users", "chatRooms">> \in Seq(FileName)
  /\ <<"index", "users">> \in Seq(FileName)
  /\ <<"index", "messages">> \in Seq(FileName)
  /\ <<"index", "chatRooms">> \in Seq(FileName)
  /\ <<"chatRooms", "messages">> \in Seq(FileName)
  /\ <<"index", "messages", "chatRooms">> \in Seq(FileName)
  BY DEF FileName

\* The files listed by two lists that are put together.
LEMMA ListedConcat ==
  ASSUME NEW p \in Seq(FileName), NEW q \in Seq(FileName)
  PROVE  /\ p \o q \in Seq(FileName)
         /\ \A file : Listed(file, p) \/ Listed(file, q) => Listed(file, p \o q)
<1>1. /\ p \o q \in Seq(FileName)
      /\ DOMAIN (p \o q) = 1 .. Len(p) + Len(q)
      /\ \A i \in 1 .. Len(p) : (p \o q)[i] = p[i]
      /\ \A i \in 1 .. Len(q) : (p \o q)[i + Len(p)] = q[i]
  OBVIOUS
<1>2. \A i \in 1 .. Len(q) : i + Len(p) \in 1 .. Len(p) + Len(q)
  OBVIOUS
<1>3. DOMAIN p = 1 .. Len(p) /\ DOMAIN q = 1 .. Len(q)
  OBVIOUS
<1>4. ASSUME NEW file, Listed(file, p) PROVE Listed(file, p \o q)
  BY <1>1, <1>3, <1>4 DEF Listed
<1>5. ASSUME NEW file, Listed(file, q) PROVE Listed(file, p \o q)
  BY <1>1, <1>2, <1>3, <1>5 DEF Listed
<1> QED
  BY <1>1, <1>4, <1>5

\* When the first of the listed files is written, the others are still listed.
LEMMA ListedTail ==
  ASSUME NEW order \in Seq(FileName), order # << >>, NEW file,
         Listed(file, order), file # Head(order)
  PROVE  Listed(file, Tail(order))
<1>1. PICK i \in 1 .. Len(order) : order[i] = file
  BY DEF Listed
<1>2. i # 1 /\ i - 1 \in 1 .. Len(Tail(order)) /\ Tail(order)[i - 1] = file
  BY <1>1
<1>3. DOMAIN Tail(order) = 1 .. Len(Tail(order))
  OBVIOUS
<1> QED
  BY <1>2, <1>3 DEF Listed

\* What is left of a result when its first file is written.
LEMMA RestOf ==
  ASSUME NEW w, IsResult(w), w.order # << >>
  PROVE  LET left == [w EXCEPT !.order = Tail(@)]
         IN /\ IsResult(left)
            /\ left.goal = w.goal /\ left.order = Tail(w.order)
            /\ left.reply = w.reply
<1> DEFINE left == [w EXCEPT !.order = Tail(@)]
<1>1. w = [goal |-> w.goal, order |-> w.order, reply |-> w.reply]
  BY DEF IsResult
<1>2. /\ left = [goal |-> left.goal, order |-> left.order, reply |-> left.reply]
      /\ left.goal = w.goal /\ left.order = Tail(w.order)
      /\ left.reply = w.reply
  BY <1>1
<1>3. Tail(w.order) \in Seq(FileName)
  BY DEF IsResult
<1> HIDE DEF left
<1>4. IsResult(left)
  BY <1>2, <1>3 DEF IsResult
<1> QED
  BY <1>2, <1>4 DEF left

\* A refused request changes nothing.
LEMMA RefuseResult ==
  ASSUME NEW s, IsStore(s), NEW notify \in SUBSET Nat, NEW outcome \in Outcome
  PROVE  /\ IsAnswer(s, Result(s, << >>, outcome, notify))
         /\ Result(s, << >>, outcome, notify).goal = s
<1>1. s.index.chatroom \in Nat
  BY StoreTypes DEF IndexRec
<1> DEFINE order == << >>
<1>2. Covers(s, s, order) /\ order \in Seq(FileName)
  BY <1>1, Orders DEF Covers
<1> HIDE DEF order
<1>3. /\ IsAnswer(s, Result(s, order, outcome, notify))
      /\ Result(s, order, outcome, notify).goal = s
  BY <1>2, ResultOf
<1> QED
  BY <1>3 DEF order

\* What handleAddUser and handleRemoveUser leave.
LEMMA RelationResults ==
  ASSUME NEW s, IsStore(s), NEW u \in Nat, NEW r \in Nat
  PROVE  /\ IsAnswer(s, handleAddUser(s, u, r))
         /\ handleAddUser(s, u, r).goal = addUserToChatRoom(s, u, r)
         /\ IsAnswer(s, handleRemoveUser(s, u, r))
         /\ handleRemoveUser(s, u, r).goal = removeUserFromChatRoom(s, u, r)
<1> DEFINE order == RelationWrites(s, u, r)
           added == addUserToChatRoom(s, u, r)
           removed == removeUserFromChatRoom(s, u, r)
<1>1. /\ order \in Seq(FileName)
      /\ Both(s, u, r) => Listed("users", order) /\ Listed("chatRooms", order)
  <2>1. Listed("users", <<"users", "chatRooms">>) /\ Listed("chatRooms", <<"users", "chatRooms">>)
    BY DEF Listed
  <2> QED
    BY <2>1, Orders DEF RelationWrites
<1>2. /\ Members(s, r) \in SUBSET Nat
      /\ r \in DOMAIN s.chatRooms => Coordinator(s, r) \cup {u} \in SUBSET Nat
  BY StoreTypes DEF Members, Coordinator, ChatRoomRec
<1>3. IsStore(added) /\ IsStore(removed)
  BY RelationTypes
<1>4. s.index.chatroom \in Nat
  BY StoreTypes DEF IndexRec
<1>5. /\ ~Both(s, u, r) => added = s /\ removed = s
      /\ Both(s, u, r) =>
           /\ added.messages = s.messages /\ added.index = s.index
           /\ removed.messages = s.messages /\ removed.index = s.index
           /\ DOMAIN added.users = DOMAIN s.users
           /\ DOMAIN removed.users = DOMAIN s.users
  BY DEF addUserToChatRoom, removeUserFromChatRoom, Contents, Update
<1> HIDE DEF order, added, removed
<1>6. Covers(s, added, order) /\ Covers(s, removed, order)
  BY <1>1, <1>4, <1>5 DEF Covers
<1>7. IsAnswer(s, handleAddUser(s, u, r)) /\ handleAddUser(s, u, r).goal = added
  BY <1>1, <1>2, <1>3, <1>6, Outcomes, ResultOf DEF handleAddUser, added, order
<1>8. IsAnswer(s, handleRemoveUser(s, u, r)) /\ handleRemoveUser(s, u, r).goal = removed
  BY <1>1, <1>2, <1>3, <1>6, Outcomes, ResultOf DEF handleRemoveUser, removed, order
<1> QED
  BY <1>7, <1>8 DEF added, removed

\* Rewriting chatRooms.json alone is covered by its name.
LEMMA RoomRewriteResult ==
  ASSUME NEW s, IsStore(s), NEW goal, IsStore(goal), goal.users = s.users,
         goal.messages = s.messages, goal.index = s.index,
         NEW outcome \in Outcome, NEW notify \in SUBSET Nat
  PROVE  /\ IsAnswer(s, Result(goal, <<"chatRooms">>, outcome, notify))
         /\ Result(goal, <<"chatRooms">>, outcome, notify).goal = goal
<1>1. s.index.chatroom \in Nat
  BY StoreTypes DEF IndexRec
<1> DEFINE order == <<"chatRooms">>
<1>2. Listed("chatRooms", order) /\ order \in Seq(FileName)
  BY Orders DEF Listed
<1> HIDE DEF order
<1>3. Covers(s, goal, order)
  BY <1>1, <1>2 DEF Covers
<1>4. /\ IsAnswer(s, Result(goal, order, outcome, notify))
      /\ Result(goal, order, outcome, notify).goal = goal
  BY <1>2, <1>3, ResultOf
<1> QED
  BY <1>4 DEF order

\* What handleJoinRequest and handleDeleteRequest leave.
LEMMA WaitingListResults ==
  ASSUME NEW s, IsStore(s), NEW u \in Nat, NEW r \in Nat
  PROVE  /\ IsAnswer(s, handleJoinRequest(s, u, r))
         /\ handleJoinRequest(s, u, r).goal = addJoinRequestToChatRoom(s, u, r)
         /\ IsAnswer(s, handleDeleteRequest(s, u, r))
         /\ handleDeleteRequest(s, u, r).goal =
              IF r \in DOMAIN s.chatRooms /\ u \in s.chatRooms[r].requestIds
              THEN removeJoinRequestFromChatRoom(s, u, r) ELSE s
<1>1. Coordinator(s, r) \cup {u} \in SUBSET Nat
  BY StoreTypes DEF Coordinator, ChatRoomRec
<1>2. /\ IsAnswer(s, handleJoinRequest(s, u, r))
      /\ handleJoinRequest(s, u, r).goal = addJoinRequestToChatRoom(s, u, r)
  <2> DEFINE goal == addJoinRequestToChatRoom(s, u, r)
             outcome == IF Both(s, u, r) THEN "ok" ELSE "refused"
             notify == Coordinator(s, r) \cup {u}
  <2>1. outcome \in Outcome /\ notify \in SUBSET Nat
    BY <1>1, Outcomes
  <2>2. CASE Both(s, u, r) /\ u \notin Members(s, r)
    <3>1. IsStore(goal)
      BY <2>2, WaitingListTypes DEF Both
    <3>2. goal.users = s.users /\ goal.messages = s.messages /\ goal.index = s.index
      BY <2>2 DEF addJoinRequestToChatRoom, Contents
    <3>3. handleJoinRequest(s, u, r) = Result(goal, <<"chatRooms">>, outcome, notify)
      BY <2>2 DEF handleJoinRequest
    <3> HIDE DEF goal, outcome, notify
    <3>4. IsAnswer(s, handleJoinRequest(s, u, r)) /\ handleJoinRequest(s, u, r).goal = goal
      BY <2>1, <3>1, <3>2, <3>3, RoomRewriteResult
    <3> QED
      BY <3>4 DEF goal
  <2>3. CASE ~(Both(s, u, r) /\ u \notin Members(s, r))
    <3>1. goal = s
      BY <2>3 DEF addJoinRequestToChatRoom
    <3>2. handleJoinRequest(s, u, r) = Result(s, << >>, outcome, notify)
      BY <2>3, <3>1 DEF handleJoinRequest
    <3> HIDE DEF goal, outcome, notify
    <3>3. IsAnswer(s, handleJoinRequest(s, u, r)) /\ handleJoinRequest(s, u, r).goal = goal
      BY <2>1, <3>1, <3>2, RefuseResult
    <3> QED
      BY <3>3 DEF goal
  <2> QED
    BY <2>2, <2>3
<1>3. /\ IsAnswer(s, handleDeleteRequest(s, u, r))
      /\ handleDeleteRequest(s, u, r).goal =
           IF r \in DOMAIN s.chatRooms /\ u \in s.chatRooms[r].requestIds
           THEN removeJoinRequestFromChatRoom(s, u, r) ELSE s
  <2> DEFINE goal == removeJoinRequestFromChatRoom(s, u, r)
             notify == IF r \in DOMAIN s.chatRooms THEN Coordinator(s, r) \cup {u} ELSE {}
  <2>1. notify \in SUBSET Nat
    BY <1>1
  <2>2. CASE r \in DOMAIN s.chatRooms /\ u \in s.chatRooms[r].requestIds
    <3>1. IsStore(goal)
      BY <2>2, WaitingListTypes
    <3>2. goal.users = s.users /\ goal.messages = s.messages /\ goal.index = s.index
      BY DEF removeJoinRequestFromChatRoom, Contents
    <3>3. handleDeleteRequest(s, u, r) = Result(goal, <<"chatRooms">>, "ok", notify)
      BY <2>2 DEF handleDeleteRequest
    <3> HIDE DEF goal, notify
    <3>4. IsAnswer(s, handleDeleteRequest(s, u, r)) /\ handleDeleteRequest(s, u, r).goal = goal
      BY <2>1, <3>1, <3>2, <3>3, Outcomes, RoomRewriteResult
    <3> QED
      BY <2>2, <3>4 DEF goal
  <2>3. CASE ~(r \in DOMAIN s.chatRooms /\ u \in s.chatRooms[r].requestIds)
    <3>1. handleDeleteRequest(s, u, r) = Result(s, << >>, "refused", notify)
      BY <2>3 DEF handleDeleteRequest, Refuse
    <3> HIDE DEF notify
    <3>2. IsAnswer(s, handleDeleteRequest(s, u, r)) /\ handleDeleteRequest(s, u, r).goal = s
      BY <2>1, <3>1, Outcomes, RefuseResult
    <3> QED
      BY <2>3, <3>2
  <2> QED
    BY <2>2, <2>3
<1> QED
  BY <1>2, <1>3

\* What handleCreateAccount leaves.
LEMMA CreateAccountResult ==
  ASSUME NEW s, IsStore(s), NEW name \in Name
  PROVE  /\ IsAnswer(s, handleCreateAccount(s, name))
         /\ Sound(s) => Sound(handleCreateAccount(s, name).goal)
<1> DEFINE user == [name |-> name, chatRoomIds |-> {}]
           U == Put(s.users, s.index.user, user)
           goal == Contents(U, s.chatRooms, s.messages, Taken(s, "user"))
           order == <<"index", "users">>
<1>1. CASE NameTaken(s, name)
  BY <1>1, Outcomes, RefuseResult DEF handleCreateAccount, Refuse
<1>2. CASE ~NameTaken(s, name)
  <2>1. handleCreateAccount(s, name) = Result(goal, order, "ok", {})
    BY <1>2 DEF handleCreateAccount
  <2>2. IsStore(goal)
    BY NewUserTypes
  <2>3. Sound(s) => Sound(goal)
    <3>1. user \in UserRec /\ user.chatRoomIds = {}
      BY DEF UserRec
    <3> HIDE DEF user
    <3> QED
      BY <3>1, NewUserIsSound
  <2>4. /\ goal.chatRooms = s.chatRooms /\ goal.messages = s.messages
        /\ goal.users = U /\ goal.index = Taken(s, "user")
    BY DEF Contents
  <2>5. DOMAIN s.users \subseteq DOMAIN U
    BY DEF Put
  <2>6. s.index.chatroom \in Nat /\ goal.index.chatroom = s.index.chatroom
    BY <2>4, TakeId
  <2>7. /\ Listed("index", order) /\ Listed("users", order)
        /\ order \in Seq(FileName)
    BY Orders DEF Listed
  <2> HIDE DEF goal, order, U, user
  <2>8. Covers(s, goal, order)
    BY <2>4, <2>5, <2>6, <2>7 DEF Covers
  <2>9. /\ IsAnswer(s, handleCreateAccount(s, name))
        /\ handleCreateAccount(s, name).goal = goal
    BY <2>1, <2>2, <2>7, <2>8, Outcomes, ResultOf
  <2> QED
    BY <2>3, <2>9
<1> QED
  BY <1>1, <1>2

\* What handleNewMessage leaves.
LEMMA NewMessageResult ==
  ASSUME NEW s, IsStore(s), NEW u \in Nat, NEW r \in Nat
  PROVE  /\ IsAnswer(s, handleNewMessage(s, u, r))
         /\ Sound(s) /\ r < s.index.chatroom => Sound(handleNewMessage(s, u, r).goal)
<1> DEFINE id == s.index.message
           stored == saveMessage(s, u, r)
           listed == addMessageToChatRoom(stored, id, r)
<1>1. /\ IsStore(stored) /\ stored.chatRooms = s.chatRooms /\ stored.users = s.users
      /\ stored.index = Taken(s, "message")
  <2>1. stored.users = s.users /\ stored.index = Taken(s, "message")
    BY DEF saveMessage, Contents
  <2> QED
    BY <2>1, NewMessageTypes
<1>2. s.index.chatroom \in Nat /\ stored.index.chatroom = s.index.chatroom /\ id \in Nat
  BY <1>1, TakeId
<1>3. CASE r \in DOMAIN s.chatRooms
  <2> DEFINE order == <<"index", "messages", "chatRooms">>
  <2>1. handleNewMessage(s, u, r) = Result(listed, order, "ok", Members(s, r))
    BY <1>3 DEF handleNewMessage
  <2>2. Members(s, r) \in SUBSET Nat
    BY StoreTypes DEF Members, ChatRoomRec
  <2>3. /\ Listed("index", order) /\ Listed("messages", order)
        /\ Listed("chatRooms", order) /\ order \in Seq(FileName)
    BY Orders DEF Listed
  <2>4. listed.users = stored.users /\ listed.index = stored.index
    BY DEF addMessageToChatRoom, Contents
  <2>5. Sound(s) => Sound(listed)
    BY <1>3, NewMessageIsSound
  <2> HIDE DEF order, stored, id
  <2>6. IsStore(listed)
    BY <1>1, <1>2, <1>3, AddMessageTypes
  <2> HIDE DEF listed
  <2>7. Covers(s, listed, order)
    BY <1>1, <1>2, <2>3, <2>4 DEF Covers
  <2>8. IsAnswer(s, handleNewMessage(s, u, r)) /\ handleNewMessage(s, u, r).goal = listed
    BY <2>1, <2>2, <2>3, <2>6, <2>7, Outcomes, ResultOf
  <2> QED
    BY <2>5, <2>8
<1>4. CASE r \notin DOMAIN s.chatRooms
  <2> DEFINE order == <<"index", "messages">>
  <2>1. handleNewMessage(s, u, r) = Result(stored, order, "segv", {})
    BY <1>4 DEF handleNewMessage
  <2>2. Listed("index", order) /\ Listed("messages", order) /\ order \in Seq(FileName)
    BY Orders DEF Listed
  <2>3. Sound(s) /\ r < s.index.chatroom => Sound(stored)
    BY <1>4, OrphanMessageIsSound
  <2> HIDE DEF order, stored, id
  <2>4. Covers(s, stored, order)
    BY <1>1, <1>2, <2>2 DEF Covers
  <2>5. IsAnswer(s, handleNewMessage(s, u, r)) /\ handleNewMessage(s, u, r).goal = stored
    BY <1>1, <2>1, <2>2, <2>4, Outcomes, ResultOf
  <2> QED
    BY <2>3, <2>5
<1> QED
  BY <1>3, <1>4

\* What handleDeleteMessage leaves.
LEMMA DeleteMessageResult ==
  ASSUME NEW s, IsStore(s), NEW m \in Nat
  PROVE  /\ IsAnswer(s, handleDeleteMessage(s, m))
         /\ Sound(s) => Sound(handleDeleteMessage(s, m).goal)
<1>1. CASE m \notin DOMAIN s.messages
  BY <1>1, Outcomes, RefuseResult DEF handleDeleteMessage, Refuse
<1>2. CASE m \in DOMAIN s.messages
  <2> DEFINE r == s.messages[m].chatRoomId
             goal == deleteMessageById(s, m)
             order == IF r \in DOMAIN s.chatRooms THEN <<"chatRooms", "messages">>
                                                  ELSE <<"messages">>
  <2>1. handleDeleteMessage(s, m) = Result(goal, order, "ok", Members(s, r))
    BY <1>2 DEF handleDeleteMessage
  <2>2. Members(s, r) \in SUBSET Nat
    BY StoreTypes DEF Members, ChatRoomRec
  <2>3. IsStore(goal) /\ (Sound(s) => Sound(goal))
    BY <1>2, DeleteTypes, DeleteMessageIsSound
  <2>4. /\ goal.users = s.users /\ goal.index = s.index
        /\ r \notin DOMAIN s.chatRooms => goal.chatRooms = s.chatRooms
    BY DEF deleteMessageById, Contents
  <2>5. s.index.chatroom \in Nat
    BY TakeId
  <2>6. /\ Listed("messages", order) /\ order \in Seq(FileName)
        /\ r \in DOMAIN s.chatRooms => Listed("chatRooms", order)
    BY Orders DEF Listed
  <2> HIDE DEF goal, order, r
  <2>7. Covers(s, goal, order)
    BY <2>4, <2>5, <2>6 DEF Covers
  <2>8. IsAnswer(s, handleDeleteMessage(s, m)) /\ handleDeleteMessage(s, m).goal = goal
    BY <2>1, <2>2, <2>3, <2>6, <2>7, Outcomes, ResultOf
  <2> QED
    BY <2>3, <2>8
<1> QED
  BY <1>1, <1>2

\* What handleDeleteChatRoom leaves.
LEMMA DeleteChatRoomResult ==
  ASSUME NEW s, IsStore(s), NEW r \in Nat
  PROVE  /\ IsAnswer(s, handleDeleteChatRoom(s, r))
         /\ Sound(s) => Sound(handleDeleteChatRoom(s, r).goal)
<1>1. CASE ~Deletable(s, r)
  BY <1>1, Outcomes, RefuseResult DEF handleDeleteChatRoom, Refuse
<1>2. CASE Deletable(s, r)
  <2> DEFINE c == s.chatRooms[r].coordinatorId
             goal == deleteChatRoomById(s, r)
             order == IF c \in DOMAIN s.users THEN <<"users", "chatRooms">>
                                              ELSE <<"chatRooms">>
  <2>1. handleDeleteChatRoom(s, r) = Result(goal, order, "ok", {c})
    BY <1>2 DEF handleDeleteChatRoom
  <2>2. r \in DOMAIN s.chatRooms /\ {c} \in SUBSET Nat
    BY <1>2, StoreTypes DEF Deletable, ChatRoomRec
  <2>3. IsStore(goal) /\ (Sound(s) => Sound(goal))
    BY <1>2, <2>2, DeleteTypes, DeleteChatRoomIsSound
  <2>4. /\ goal.messages = s.messages /\ goal.index = s.index
        /\ c \notin DOMAIN s.users => goal.users = s.users
        /\ DOMAIN goal.users = DOMAIN s.users
    BY DEF deleteChatRoomById, Contents, Update
  <2>5. s.index.chatroom \in Nat
    BY TakeId
  <2>6. /\ Listed("chatRooms", order) /\ order \in Seq(FileName)
        /\ c \in DOMAIN s.users => Listed("users", order)
    BY Orders DEF Listed
  <2> HIDE DEF goal, order, c
  <2>7. Covers(s, goal, order)
    BY <2>4, <2>5, <2>6 DEF Covers
  <2>8. IsAnswer(s, handleDeleteChatRoom(s, r)) /\ handleDeleteChatRoom(s, r).goal = goal
    BY <2>1, <2>2, <2>3, <2>6, <2>7, Outcomes, ResultOf
  <2> QED
    BY <2>3, <2>8
<1> QED
  BY <1>1, <1>2

\* What handleNewChatRoom leaves.  Only a registered coordinator gets a room that
\* agrees with users.json.
LEMMA NewChatRoomResult ==
  ASSUME NEW s, IsStore(s), NEW c \in Nat
  PROVE  /\ IsAnswer(s, handleNewChatRoom(s, c))
         /\ Sound(s) /\ c \in DOMAIN s.users => Sound(handleNewChatRoom(s, c).goal)
<1> DEFINE id == s.index.chatroom
           created == createChatRoom(s, c)
           goal == addUserToChatRoom(created, c, id)
           order == <<"index", "chatRooms">> \o RelationWrites(created, c, id)
<1>1. handleNewChatRoom(s, c) = Result(goal, order, "ok", {c})
  BY DEF handleNewChatRoom
<1>2. Sound(s) /\ c \in DOMAIN s.users => Sound(goal)
  BY NewChatRoomIsSound
<1>3. id \in Nat /\ Taken(s, "chatroom").chatroom = id + 1
  BY TakeId
<1>4. /\ created.users = s.users /\ created.messages = s.messages
      /\ created.index = Taken(s, "chatroom")
  BY DEF createChatRoom, Contents
<1>5. IsStore(created)
  BY NewChatRoomTypes
<1> HIDE DEF created, id
<1>6. IsStore(goal)
  BY <1>3, <1>5, RelationTypes
<1>7. /\ goal.messages = s.messages /\ goal.index = Taken(s, "chatroom")
      /\ DOMAIN goal.users = DOMAIN s.users
      /\ ~Both(created, c, id) => goal.users = s.users
  BY <1>4 DEF addUserToChatRoom, Contents, Update
<1>8. /\ order \in Seq(FileName)
      /\ Listed("index", order) /\ Listed("chatRooms", order)
      /\ Both(created, c, id) => Listed("users", order)
  <2> DEFINE p == <<"index", "chatRooms">>
             q == RelationWrites(created, c, id)
  <2>1. /\ p \in Seq(FileName) /\ Listed("index", p) /\ Listed("chatRooms", p)
        /\ q \in Seq(FileName)
    BY Orders DEF Listed, RelationWrites
  <2>2. Both(created, c, id) => Listed("users", q)
    <3>1. Listed("users", <<"users", "chatRooms">>)
      BY DEF Listed
    <3> QED
      BY <3>1 DEF RelationWrites
  <2>3. order = p \o q
    OBVIOUS
  <2> HIDE DEF order, p, q
  <2> QED
    BY <2>1, <2>2, <2>3, ListedConcat
<1> HIDE DEF goal, order
<1>9. Covers(s, goal, order)
  BY <1>3, <1>7, <1>8 DEF Covers, id
<1>10. IsAnswer(s, handleNewChatRoom(s, c)) /\ handleNewChatRoom(s, c).goal = goal
  BY <1>1, <1>6, <1>8, <1>9, Outcomes, ResultOf
<1> QED
  BY <1>2, <1>10

-----------------------------------------------------------------------------
(***************************************************************************)
(* All requests together.                                                  *)
(***************************************************************************)
\* The fields of a request have the types its type calls for.
LEMMA RequestTypes ==
  ASSUME NEW req \in Requests(Nat, Nat, Nat)
  PROVE  /\ req.type \in {"GARBLED", "AUTH", "CREATE_ACCOUNT", "NEW_CHATROOM",
                          "NEW_MESSAGE", "ADD_USER", "REMOVE_USER", "REQUEST",
                          "DELETE_REQUEST", "DELETE_MESSAGE", "DELETE_CHATROOM"}
         /\ req.type \in {"AUTH", "CREATE_ACCOUNT"} => req.name \in Name
         /\ req.type \in {"NEW_CHATROOM", "NEW_MESSAGE", "ADD_USER", "REMOVE_USER",
                          "REQUEST", "DELETE_REQUEST"} => req.userId \in Nat
         /\ req.type \in {"NEW_MESSAGE", "ADD_USER", "REMOVE_USER", "REQUEST",
                          "DELETE_REQUEST", "DELETE_CHATROOM"} => req.chatRoomId \in Nat
         /\ req.type = "DELETE_MESSAGE" => req.messageId \in Nat
  BY DEF Requests

\* handleRequest calls the handler of the request's type.
LEMMA Dispatch ==
  ASSUME NEW s, NEW req
  PROVE  /\ req.type = "GARBLED" => handleRequest(s, req) = Result(s, << >>, "silent", {})
         /\ req.type = "AUTH" => handleRequest(s, req) = handleAuth(s, req.name, req.match)
         /\ req.type = "CREATE_ACCOUNT" =>
              handleRequest(s, req) = handleCreateAccount(s, req.name)
         /\ req.type = "NEW_CHATROOM" =>
              handleRequest(s, req) = handleNewChatRoom(s, req.userId)
         /\ req.type = "NEW_MESSAGE" =>
              handleRequest(s, req) = handleNewMessage(s, req.userId, req.chatRoomId)
         /\ req.type = "ADD_USER" =>
              handleRequest(s, req) = handleAddUser(s, req.userId, req.chatRoomId)
         /\ req.type = "REMOVE_USER" =>
              handleRequest(s, req) = handleRemoveUser(s, req.userId, req.chatRoomId)
         /\ req.type = "REQUEST" =>
              handleRequest(s, req) = handleJoinRequest(s, req.userId, req.chatRoomId)
         /\ req.type = "DELETE_REQUEST" =>
              handleRequest(s, req) = handleDeleteRequest(s, req.userId, req.chatRoomId)
         /\ req.type = "DELETE_MESSAGE" =>
              handleRequest(s, req) = handleDeleteMessage(s, req.messageId)
         /\ req.type = "DELETE_CHATROOM" =>
              handleRequest(s, req) = handleDeleteChatRoom(s, req.chatRoomId)
  BY DEF handleRequest

\* Whatever the files contain, a handler's result is typed and lists every file it
\* changes.
LEMMA HandleRequestAnswers ==
  ASSUME NEW s, IsStore(s), NEW req \in Requests(Nat, Nat, Nat)
  PROVE  IsAnswer(s, handleRequest(s, req))
<1>1. req.type = "GARBLED" => IsAnswer(s, handleRequest(s, req))
  BY Dispatch, Outcomes, RefuseResult
<1>2. req.type = "AUTH" => IsAnswer(s, handleRequest(s, req))
  BY Dispatch, Outcomes, RefuseResult DEF handleAuth, Refuse
<1>3. req.type = "CREATE_ACCOUNT" => IsAnswer(s, handleRequest(s, req))
  BY Dispatch, RequestTypes, CreateAccountResult
<1>4. req.type = "NEW_CHATROOM" => IsAnswer(s, handleRequest(s, req))
  BY Dispatch, RequestTypes, NewChatRoomResult
<1>5. req.type = "NEW_MESSAGE" => IsAnswer(s, handleRequest(s, req))
  BY Dispatch, RequestTypes, NewMessageResult
<1>6. req.type \in {"ADD_USER", "REMOVE_USER"} => IsAnswer(s, handleRequest(s, req))
  BY Dispatch, RequestTypes, RelationResults
<1>7. req.type \in {"REQUEST", "DELETE_REQUEST"} => IsAnswer(s, handleRequest(s, req))
  BY Dispatch, RequestTypes, WaitingListResults
<1>8. req.type = "DELETE_MESSAGE" => IsAnswer(s, handleRequest(s, req))
  BY Dispatch, RequestTypes, DeleteMessageResult
<1>9. req.type = "DELETE_CHATROOM" => IsAnswer(s, handleRequest(s, req))
  BY Dispatch, RequestTypes, DeleteChatRoomResult
<1> QED
  BY <1>1, <1>2, <1>3, <1>4, <1>5, <1>6, <1>7, <1>8, <1>9, RequestTypes

\* A handler that starts from a sound store and runs to its end leaves one.
LEMMA HandleRequestIsSound ==
  ASSUME NEW s, Sound(s), NEW req \in Requests(Nat, Nat, Nat),
         req.type = "NEW_CHATROOM" => req.userId \in DOMAIN s.users,
         req.type = "NEW_MESSAGE" => req.chatRoomId < s.index.chatroom
  PROVE  Sound(handleRequest(s, req).goal)
<1> DEFINE goal == handleRequest(s, req).goal
<1>0. IsStore(s)
  BY DEF Sound
<1>1. req.type = "GARBLED" => Sound(goal)
  BY <1>0, Dispatch, Outcomes, RefuseResult
<1>2. req.type = "AUTH" => Sound(goal)
  BY <1>0, Dispatch, Outcomes, RefuseResult DEF handleAuth, Refuse
<1>3. req.type = "CREATE_ACCOUNT" => Sound(goal)
  BY <1>0, Dispatch, RequestTypes, CreateAccountResult
<1>4. req.type = "NEW_CHATROOM" => Sound(goal)
  BY <1>0, Dispatch, RequestTypes, NewChatRoomResult
<1>5. req.type = "NEW_MESSAGE" => Sound(goal)
  BY <1>0, Dispatch, RequestTypes, NewMessageResult
<1>6. req.type = "ADD_USER" => Sound(goal)
  BY <1>0, Dispatch, RequestTypes, RelationResults, AddUserIsSound
<1>7. req.type = "REMOVE_USER" => Sound(goal)
  BY <1>0, Dispatch, RequestTypes, RelationResults, RemoveUserIsSound
<1>8. req.type = "REQUEST" => Sound(goal)
  BY <1>0, Dispatch, RequestTypes, WaitingListResults, JoinRequestIsSound
<1>9. req.type = "DELETE_REQUEST" => Sound(goal)
  BY <1>0, Dispatch, RequestTypes, WaitingListResults, DeleteRequestIsSound
<1>10. req.type = "DELETE_MESSAGE" => Sound(goal)
  BY <1>0, Dispatch, RequestTypes, DeleteMessageResult
<1>11. req.type = "DELETE_CHATROOM" => Sound(goal)
  BY <1>0, Dispatch, RequestTypes, DeleteChatRoomResult
<1> QED
  BY <1>1, <1>2, <1>3, <1>4, <1>5, <1>6, <1>7, <1>8, <1>9, <1>10, <1>11, RequestTypes

===============================================================================
