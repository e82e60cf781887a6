---------------------------- MODULE Database_proofs ----------------------------
(***************************************************************************)
(* Proofs about the database, for any number of children, users, rooms,    *)
(* messages and crashes.  The files have their types after any crash, and  *)
(* until the first crash every handler reads files that agree; then what   *)
(* killed children can leave; then the refinement of ChatStore.            *)
(***************************************************************************)
EXTENDS Database, Repository_proofs, BoundedSets

\* The files as they are installed satisfy the invariant.
LEMMA InitIInv == Init => IInv
<1> SUFFICES ASSUME Init PROVE IInv
  OBVIOUS
<1>1. Files = EmptyStore
  BY DEF Init, Files, EmptyStore, Contents
<1>2. /\ EmptyStore.users = << >> /\ EmptyStore.chatRooms = << >>
      /\ EmptyStore.messages = << >>
      /\ EmptyStore.index = [user |-> 1, chatroom |-> 1, message |-> 1]
      /\ EmptyStore = Contents(EmptyStore.users, EmptyStore.chatRooms,
                               EmptyStore.messages, EmptyStore.index)
  BY DEF EmptyStore, Contents
<1>3. DOMAIN << >> = {}
  OBVIOUS
<1> HIDE DEF EmptyStore
<1>4. IsStore(EmptyStore)
  BY <1>2, <1>3 DEF IsStore, IsFile, IndexRec
<1>5. Sound(EmptyStore)
  BY <1>2, <1>3, <1>4
  DEF Sound, IdsAreTaken, MembershipAgrees, ListedMessagesExist,
      StoredMessagesAreListed, RequestersAreOutside
<1>6. TypeOK
  BY <1>1, <1>4, DatabaseAssumption DEF TypeOK, Init
<1>7. RequestsStayValid /\ WorkIsCovered /\ SoundBetweenHandlers
  BY <1>1, <1>5 DEF Init, RequestsStayValid, WorkIsCovered, SoundBetweenHandlers
<1> QED
  BY <1>6, <1>7 DEF IInv

-----------------------------------------------------------------------------
(***************************************************************************)
(* The steps.                                                              *)
(***************************************************************************)
\* Receiving a request: what it names stays named.
LEMMA ReceiveIInv == ASSUME IInv, NEW c \in Child, Receive(c) PROVE IInv'
<1> USE DEF IInv
<1>1. PICK req \in Requests(DOMAIN users, 1 .. index.chatroom - 1,
                            1 .. index.message - 1) :
        request' = [request EXCEPT ![c] = req]
  BY DEF Receive
<1>2. /\ users \in [DOMAIN users -> UserRec] /\ DOMAIN users \subseteq Nat
      /\ index.chatroom \in Nat /\ index.message \in Nat
  BY DEF TypeOK, IsStore, IsFile, Files, Contents, IndexRec
<1>3. req \in Requests(Nat, Nat, Nat)
  BY <1>1, <1>2 DEF Requests
<1>4. /\ req.type = "NEW_CHATROOM" => req.userId \in DOMAIN users
      /\ req.type = "NEW_MESSAGE" => req.chatRoomId < index.chatroom
  BY <1>1, <1>2 DEF Requests
<1>5. /\ UNCHANGED <<users, chatRooms, messages, index, lock, work, crashes>>
      /\ Files' = Files
      /\ pc[c] = "idle" /\ pc' = [pc EXCEPT ![c] = "waiting"]
  BY DEF Receive, files, Files
<1>6. TypeOK'
  BY <1>1, <1>3, <1>5 DEF TypeOK
<1>7. RequestsStayValid'
  BY <1>1, <1>4, <1>5 DEF RequestsStayValid, TypeOK
<1>8. WorkIsCovered'
  BY <1>5 DEF WorkIsCovered, TypeOK
<1>9. SoundBetweenHandlers'
  BY <1>5 DEF SoundBetweenHandlers, TypeOK
<1> QED
  BY <1>6, <1>7, <1>8, <1>9

\* Waiting, and giving up waiting, leave the files and the handlers alone.
LEMMA WaitIInv ==
  ASSUME IInv, NEW c \in Child, AcquireDatabaseLock(c) \/ LockFails(c)
  PROVE  IInv'
<1> USE DEF IInv
<1>1. /\ UNCHANGED <<users, chatRooms, messages, index, work, crashes>>
      /\ Files' = Files
      /\ pc[c] = "waiting"
      /\ \/ lock = None /\ lock' = c /\ pc' = [pc EXCEPT ![c] = "locked"] /\ request' = request
         \/ lock' = lock /\ pc' = [pc EXCEPT ![c] = "idle"]
              /\ request' = [request EXCEPT ![c] = None]
  BY DEF AcquireDatabaseLock, LockFails, files, Files
<1>2. TypeOK'
  BY <1>1, DatabaseAssumption DEF TypeOK
<1>3. RequestsStayValid'
  BY <1>1 DEF RequestsStayValid, TypeOK
<1>4. WorkIsCovered'
  BY <1>1 DEF WorkIsCovered, TypeOK
<1>5. SoundBetweenHandlers'
  BY <1>1 DEF SoundBetweenHandlers, TypeOK
<1> QED
  BY <1>2, <1>3, <1>4, <1>5

\* The child that reads the files is the only one past the lock, so they are sound
\* unless a child was killed, and its goal is sound too.
LEMMA HandleRequestIInv == ASSUME IInv, NEW c \in Child, HandleRequest(c) PROVE IInv'
<1> USE DEF IInv
<1> DEFINE w == handleRequest(Files, request[c])
<1>1. /\ UNCHANGED <<users, chatRooms, messages, index, lock, request, crashes>>
      /\ Files' = Files
      /\ pc[c] = "locked" /\ pc' = [pc EXCEPT ![c] = "working"]
      /\ work' = [work EXCEPT ![c] = w]
  BY DEF HandleRequest, files, Files
<1>2. /\ IsStore(Files) /\ request[c] \in Requests(Nat, Nat, Nat)
      /\ lock = c
      /\ \A d \in Child : d # c => pc[d] \notin {"locked", "working"}
  BY <1>1 DEF TypeOK
<1>3. IsAnswer(Files, w)
  BY <1>2, HandleRequestAnswers
<1>4. crashes = 0 => Sound(w.goal)
  <2>1. crashes = 0 => Sound(Files)
    BY <1>1, <1>2 DEF SoundBetweenHandlers, TypeOK
  <2>2. /\ request[c].type = "NEW_CHATROOM" => request[c].userId \in DOMAIN Files.users
        /\ request[c].type = "NEW_MESSAGE" => request[c].chatRoomId < Files.index.chatroom
    BY <1>1 DEF RequestsStayValid, Files, Contents
  <2> QED
    BY <1>2, <2>1, <2>2, HandleRequestIsSound
<1> HIDE DEF w
<1>5. work'[c] = w /\ \A d \in Child : d # c => work'[d] = work[d]
  BY <1>1 DEF TypeOK
<1>6. TypeOK'
  BY <1>1, <1>3, <1>5 DEF TypeOK, IsAnswer
<1>7. RequestsStayValid'
  BY <1>1 DEF RequestsStayValid, TypeOK
<1>8. WorkIsCovered'
  BY <1>1, <1>3, <1>5 DEF WorkIsCovered, TypeOK, IsAnswer
<1>9. SoundBetweenHandlers'
  BY <1>1, <1>2, <1>4, <1>5 DEF SoundBetweenHandlers, TypeOK
<1> QED
  BY <1>6, <1>7, <1>8, <1>9

\* A write brings one file to its goal and leaves the others listed.
LEMMA WriteFileIInv == ASSUME IInv, NEW c \in Child, WriteFile(c) PROVE IInv'
<1> USE DEF IInv
<1> DEFINE goal == work[c].goal
           order == work[c].order
           file == Head(order)
           left == [work[c] EXCEPT !.order = Tail(@)]
<1>1. /\ pc[c] = "working" /\ order # << >>
      /\ UNCHANGED <<lock, pc, request, crashes>>
      /\ work' = [work EXCEPT ![c] = left]
      /\ users' = IF file = "users" THEN goal.users ELSE users
      /\ chatRooms' = IF file = "chatRooms" THEN goal.chatRooms ELSE chatRooms
      /\ messages' = IF file = "messages" THEN goal.messages ELSE messages
      /\ index' = IF file = "index" THEN goal.index ELSE index
  BY DEF WriteFile
<1>2. /\ IsStore(Files) /\ IsResult(work[c]) /\ IsStore(goal)
      /\ order \in Seq(FileName)
      /\ \A d \in Child : d # c => pc[d] \notin {"locked", "working"}
  BY <1>1 DEF TypeOK, IsResult
<1>3. /\ work'[c] = left
      /\ \A d \in Child : d # c => work'[d] = work[d]
      /\ work' = [d \in Child |-> work'[d]]
  BY <1>1 DEF TypeOK
<1>4. /\ IsResult(left)
      /\ left.goal = goal /\ left.order = Tail(order)
  BY <1>1, <1>2, RestOf
<1>5. /\ Files.users = users /\ Files.chatRooms = chatRooms
      /\ Files.messages = messages /\ Files.index = index
      /\ Files'.users = users' /\ Files'.chatRooms = chatRooms'
      /\ Files'.messages = messages' /\ Files'.index = index'
  BY DEF Files, Contents
<1>6. Covers(Files, goal, order)
  BY <1>1 DEF WorkIsCovered
<1> HIDE DEF goal, order, left
<1>7. Covers(Files', goal, Tail(order))
  <2>1. /\ goal.users # users' => Listed("users", Tail(order))
        /\ goal.chatRooms # chatRooms' => Listed("chatRooms", Tail(order))
        /\ goal.messages # messages' => Listed("messages", Tail(order))
        /\ goal.index # index' => Listed("index", Tail(order))
    BY <1>1, <1>2, <1>5, <1>6, ListedTail DEF Covers
  <2>2. goal.index.chatroom \in Nat
    BY <1>2, StoreTypes DEF IndexRec
  <2> QED
    BY <1>1, <1>5, <1>6, <2>1, <2>2 DEF Covers
<1>8. IsStore(Files')
  <2>1. /\ IsFile(users', UserRec) /\ IsFile(chatRooms', ChatRoomRec)
        /\ IsFile(messages', MessageRec) /\ index' \in IndexRec
    BY <1>1, <1>2, <1>5, StoreTypes
  <2> QED
    BY <2>1, StoreOf DEF Files
<1>9. TypeOK'
  <2>1. IsResult(work'[c])
    BY <1>3, <1>4
  <2> QED
    BY <1>1, <1>3, <1>8, <2>1 DEF TypeOK
<1>10. RequestsStayValid'
  <2>1. DOMAIN users \subseteq DOMAIN users'
    BY <1>1, <1>5, <1>6 DEF Covers
  <2>2. index.chatroom <= index'.chatroom /\ index.chatroom \in Nat /\ index'.chatroom \in Nat
    BY <1>1, <1>2, <1>5, <1>6, <1>8, StoreTypes DEF Covers, IndexRec
  <2>3. \A d \in Child : pc[d] # "idle" => request[d] \in Requests(Nat, Nat, Nat)
    BY DEF TypeOK
  <2> QED
    BY <1>1, <2>1, <2>2, <2>3, RequestTypes DEF RequestsStayValid
<1>11. WorkIsCovered'
  BY <1>1, <1>2, <1>3, <1>4, <1>7 DEF WorkIsCovered
<1>12. SoundBetweenHandlers'
  BY <1>1, <1>2, <1>3, <1>4 DEF SoundBetweenHandlers, goal
<1> QED
  BY <1>9, <1>10, <1>11, <1>12

\* A handler that has nothing left to write has reached its goal.
LEMMA NothingLeft ==
  ASSUME TypeOK, WorkIsCovered, NEW c \in Child, pc[c] = "working", work[c].order = << >>
  PROVE  Files = work[c].goal
<1> DEFINE goal == work[c].goal
<1>1. Covers(Files, goal, << >>)
  BY DEF WorkIsCovered
<1>2. \A file : ~Listed(file, << >>)
  BY DEF Listed
<1>3. IsStore(goal) /\ IsStore(Files)
  BY DEF TypeOK, IsResult
<1>4. /\ goal.users = Files.users /\ goal.chatRooms = Files.chatRooms
      /\ goal.messages = Files.messages /\ goal.index = Files.index
  BY <1>1, <1>2 DEF Covers
<1> HIDE DEF goal
<1>5. Files = goal
  BY <1>3, <1>4 DEF IsStore
<1> QED
  BY <1>5 DEF goal

\* A child that has written everything leaves the files its handler was to leave.
LEMMA ExitIInv == ASSUME IInv, NEW c \in Child, Exit(c) PROVE IInv'
<1> USE DEF IInv
<1>1. /\ UNCHANGED <<users, chatRooms, messages, index, crashes>>
      /\ Files' = Files
      /\ pc[c] = "working" /\ work[c].order = << >>
      /\ pc' = [pc EXCEPT ![c] = "idle"]
      /\ request' = [request EXCEPT ![c] = None]
      /\ work' = [work EXCEPT ![c] = None]
      /\ lock' = IF lock = c THEN None ELSE lock
  BY DEF Exit, Gone, files, Files
<1>2. lock = c /\ \A d \in Child : d # c => pc[d] \notin {"locked", "working"}
  BY <1>1 DEF TypeOK
<1>3. Files = work[c].goal
  BY <1>1, NothingLeft
<1>4. TypeOK'
  BY <1>1, <1>2, DatabaseAssumption DEF TypeOK
<1>5. RequestsStayValid'
  BY <1>1 DEF RequestsStayValid, TypeOK
<1>6. WorkIsCovered'
  BY <1>1 DEF WorkIsCovered, TypeOK
<1>7. SoundBetweenHandlers'
  <2>1. crashes = 0 => Sound(Files)
    BY <1>1, <1>3 DEF SoundBetweenHandlers
  <2> QED
    BY <1>1, <1>2, <2>1 DEF SoundBetweenHandlers, TypeOK
<1> QED
  BY <1>4, <1>5, <1>6, <1>7

\* A child that is killed leaves files of the right types behind.
LEMMA CrashIInv == ASSUME IInv, NEW c \in Child, Crash(c) PROVE IInv'
<1> USE DEF IInv
<1>1. /\ UNCHANGED <<users, chatRooms, messages, index>>
      /\ Files' = Files
      /\ pc[c] \in {"locked", "working"}
      /\ pc' = [pc EXCEPT ![c] = "idle"]
      /\ request' = [request EXCEPT ![c] = None]
      /\ work' = [work EXCEPT ![c] = None]
      /\ lock' = IF lock = c THEN None ELSE lock
      /\ crashes' = crashes + 1
  BY DEF Crash, Gone, files, Files
<1>2. crashes \in Nat /\ crashes' \in Nat /\ crashes' # 0
  BY <1>1 DEF TypeOK
<1>3. TypeOK'
  <2>1. \A d \in Child : pc'[d] \in {"locked", "working"} <=> lock' = d
    BY <1>1, DatabaseAssumption DEF TypeOK
  <2>2. \A d \in Child : /\ pc'[d] # "idle" => pc'[d] = pc[d] /\ request'[d] = request[d]
                         /\ pc'[d] = "working" => work'[d] = work[d]
    BY <1>1 DEF TypeOK
  <2>3. /\ request' = [d \in Child |-> request'[d]] /\ work' = [d \in Child |-> work'[d]]
        /\ pc' \in [Child -> {"idle", "waiting", "locked", "working"}]
        /\ lock' \in Child \cup {None}
    BY <1>1 DEF TypeOK
  <2> QED
    BY <1>1, <1>2, <2>1, <2>2, <2>3 DEF TypeOK
<1>4. RequestsStayValid'
  BY <1>1 DEF RequestsStayValid, TypeOK
<1>5. WorkIsCovered'
  BY <1>1 DEF WorkIsCovered, TypeOK
<1>6. SoundBetweenHandlers'
  BY <1>2 DEF SoundBetweenHandlers
<1> QED
  BY <1>3, <1>4, <1>5, <1>6

\* Nothing the invariant speaks of changes in a stuttering step.
LEMMA StutterIInv == ASSUME IInv, UNCHANGED vars PROVE IInv'
<1>1. Files' = Files
  BY DEF vars, Files
<1> QED
  BY <1>1 DEF IInv, vars, TypeOK, RequestsStayValid, WorkIsCovered, SoundBetweenHandlers

\* No step of the server leaves the invariant.
LEMMA NextIInv == IInv /\ [Next]_vars => IInv'
<1> SUFFICES ASSUME IInv, [Next]_vars PROVE IInv'
  OBVIOUS
<1>1. CASE UNCHANGED vars
  BY <1>1, StutterIInv
<1>2. ASSUME NEW c \in Child, Receive(c) \/ Serve(c) \/ LockFails(c) \/ Crash(c)
      PROVE  IInv'
  BY <1>2, ReceiveIInv, WaitIInv, HandleRequestIInv, WriteFileIInv, ExitIInv, CrashIInv
  DEF Serve
<1> QED
  BY <1>1, <1>2 DEF Next

-----------------------------------------------------------------------------
(***************************************************************************)
(* The theorems.                                                           *)
(***************************************************************************)
\* The inductive invariant holds in every reachable state.
THEOREM Invariance == Spec => []IInv
  BY InitIInv, NextIInv, PTL DEF Spec

\* Whatever is killed and when, the files keep their types and only the child that
\* holds the lock is past it.
THEOREM TypeCorrectness == Spec => []TypeOK
<1>1. IInv => TypeOK
  BY DEF IInv
<1> QED
  BY <1>1, Invariance, PTL

\* Until a child is killed, every handler starts from files that agree: the lock
\* and the order of the writes hide every half-done request.
THEOREM Consistency == Spec => []HandlersReadConsistentFiles
<1>1. IInv => HandlersReadConsistentFiles
  <2> SUFFICES ASSUME IInv, NEW c \in Child, pc[c] = "locked", crashes = 0
               PROVE  /\ MembershipAgrees(Files)
                      /\ ListedMessagesExist(Files)
                      /\ StoredMessagesAreListed(Files)
    BY DEF HandlersReadConsistentFiles
  <2>1. \A d \in Child : pc[d] # "working"
    BY DEF IInv, TypeOK
  <2>2. Sound(Files)
    BY <2>1 DEF IInv, SoundBetweenHandlers
  <2> QED
    BY <2>2 DEF Sound
<1> QED
  BY <1>1, Invariance, PTL

-----------------------------------------------------------------------------
(***************************************************************************)
(* What a killed child leaves.  A handler that is stopped between two of   *)
(* its writes leaves one of the stages of its request.  Every stage of     *)
(* every request is steady: it satisfies the invariants that hold after    *)
(* any number of crashes, and it differs from the store the handler read   *)
(* in the membership of one user in one room at most.                      *)
(***************************************************************************)
\* The files a handler has rewritten after k writes.
Written(order, k) == {order[i] : i \in 1 .. k}

\* The store when these files have their new content and the others their old one.
Stage(s, goal, W) ==
  Contents(IF "users" \in W THEN goal.users ELSE s.users,
           IF "chatRooms" \in W THEN goal.chatRooms ELSE s.chatRooms,
           IF "messages" \in W THEN goal.messages ELSE s.messages,
           IF "index" \in W THEN goal.index ELSE s.index)

MembersAreUsers(s) ==
  \A r \in DOMAIN s.chatRooms : s.chatRooms[r].userIds \subseteq DOMAIN s.users

IdsStartAtOne(s) == 0 \notin DOMAIN s.users /\ s.index.user # 0

\* What no crash can break.
Steady(s) ==
  /\ IsStore(s)
  /\ IdsAreTaken(s)
  /\ IdsStartAtOne(s)
  /\ ListedMessagesExist(s)
  /\ RequestersAreOutside(s)
  /\ NamesDiffer(s)
  /\ MembersAreUsers(s)

\* A room that is yet to be stored is not named by anything.
NewRoomsAreUnnamed(s, goal) ==
  \A r \in DOMAIN goal.chatRooms \ DOMAIN s.chatRooms :
    /\ \A m \in DOMAIN s.messages : s.messages[m].chatRoomId # r
    /\ \A u \in DOMAIN s.users : r \notin s.users[u].chatRoomIds

Disagree(s, u, r) ==
  u \in DOMAIN s.users /\ ~(UserLists(s, u, r) <=> RoomLists(s, u, r))

\* All pairs but this one that disagree in t already disagreed in s.
SpoilsOnly(s, t, u, r) ==
  \A v, x : Disagree(t, v, x) => Disagree(s, v, x) \/ (v = u /\ x = r)

SpoilsNothing(s, t) == \A v, x : Disagree(t, v, x) => Disagree(s, v, x)

IsStage(s, goal, t) ==
  /\ Steady(t)
  /\ NewRoomsAreUnnamed(t, goal)
  /\ \E u, r : SpoilsOnly(s, t, u, r)

\* No index moves back.
Advances(s, goal) ==
  /\ s.index.user <= goal.index.user
  /\ s.index.chatroom <= goal.index.chatroom
  /\ s.index.message <= goal.index.message

\* What a handler that started from s has to be worth.
Withstands(s, w) ==
  /\ \A k \in 0 .. Len(w.order) : IsStage(s, w.goal, Stage(s, w.goal, Written(w.order, k)))
  /\ SpoilsNothing(s, w.goal)
  /\ Advances(s, w.goal)

\* Users are only added, and rooms list users that are stored already.
Grows(s, goal) ==
  /\ Advances(s, goal)
  /\ DOMAIN s.users \subseteq DOMAIN goal.users
  /\ \A r \in DOMAIN goal.chatRooms : goal.chatRooms[r].userIds \subseteq DOMAIN s.users

-----------------------------------------------------------------------------
(***************************************************************************)
(* Stages                                                                  *)
(***************************************************************************)
LEMMA StageFiles ==
  ASSUME NEW s, NEW goal, NEW W
  PROVE  /\ Stage(s, goal, W).users = IF "users" \in W THEN goal.users ELSE s.users
         /\ Stage(s, goal, W).chatRooms = IF "chatRooms" \in W THEN goal.chatRooms ELSE s.chatRooms
         /\ Stage(s, goal, W).messages = IF "messages" \in W THEN goal.messages ELSE s.messages
         /\ Stage(s, goal, W).index = IF "index" \in W THEN goal.index ELSE s.index
  BY DEF Stage, Contents

LEMMA SameStore ==
  ASSUME NEW s, IsStore(s), NEW t, IsStore(t),
         s.users = t.users, s.chatRooms = t.chatRooms,
         s.messages = t.messages, s.index = t.index
  PROVE  s = t
  BY DEF IsStore

LEMMA StageIsStore ==
  ASSUME NEW s, IsStore(s), NEW goal, IsStore(goal), NEW W
  PROVE  IsStore(Stage(s, goal, W))
<1> DEFINE t == Stage(s, goal, W)
<1>1. /\ t.users \in {s.users, goal.users} /\ t.chatRooms \in {s.chatRooms, goal.chatRooms}
      /\ t.messages \in {s.messages, goal.messages} /\ t.index \in {s.index, goal.index}
      /\ t = Contents(t.users, t.chatRooms, t.messages, t.index)
  BY StageFiles DEF Stage, Contents
<1> HIDE DEF t
<1>2. /\ IsFile(t.users, UserRec) /\ IsFile(t.chatRooms, ChatRoomRec)
      /\ IsFile(t.messages, MessageRec) /\ t.index \in IndexRec
  BY <1>1, StoreTypes
<1>3. IsStore(t)
  BY <1>1, <1>2 DEF IsStore
<1> QED
  BY <1>3 DEF t

LEMMA FirstStage ==
  ASSUME NEW s, IsStore(s), NEW goal
  PROVE  Stage(s, goal, {}) = s
  BY DEF Stage, IsStore

\* The sets of files the handlers have rewritten at some time.
LEMMA WrittenByNone ==
  \A k \in 0 .. Len(<< >>) : Written(<< >>, k) = {}
  BY DEF Written

LEMMA WrittenByOne ==
  ASSUME NEW a
  PROVE  \A k \in 0 .. Len(<<a>>) : Written(<<a>>, k) \in {{}, {a}}
  BY DEF Written

LEMMA WrittenByTwo ==
  ASSUME NEW a, NEW b
  PROVE  \A k \in 0 .. Len(<<a, b>>) : Written(<<a, b>>, k) \in {{}, {a}, {a, b}}
<1> DEFINE o == <<a, b>>
<1>1. Len(o) = 2 /\ o[1] = a /\ o[2] = b
  OBVIOUS
<1> HIDE DEF o
<1>2. Written(o, 0) = {} /\ Written(o, 1) = {a} /\ Written(o, 2) = {a, b}
  BY <1>1 DEF Written
<1>3. \A k \in 0 .. Len(o) : Written(o, k) \in {{}, {a}, {a, b}}
  BY <1>1, <1>2
<1> QED
  BY <1>3 DEF o

LEMMA WrittenByThree ==
  ASSUME NEW a, NEW b, NEW c
  PROVE  \A k \in 0 .. Len(<<a, b, c>>) :
           Written(<<a, b, c>>, k) \in {{}, {a}, {a, b}, {a, b, c}}
<1> DEFINE o == <<a, b, c>>
<1>1. Len(o) = 3 /\ o[1] = a /\ o[2] = b /\ o[3] = c
  OBVIOUS
<1> HIDE DEF o
<1>2. /\ Written(o, 0) = {} /\ Written(o, 1) = {a} /\ Written(o, 2) = {a, b}
      /\ Written(o, 3) = {a, b, c}
  BY <1>1 DEF Written
<1>3. \A k \in 0 .. Len(o) : Written(o, k) \in {{}, {a}, {a, b}, {a, b, c}}
  BY <1>1, <1>2
<1> QED
  BY <1>3 DEF o

\* createChatRoom rewrites chatRooms.json a second time when the coordinator is known.
LEMMA WrittenByNewChatRoom ==
  ASSUME NEW o, o = <<"index", "chatRooms">> \o <<"users", "chatRooms">>
  PROVE  \A k \in 0 .. Len(o) :
           Written(o, k) \in {{}, {"index"}, {"index", "chatRooms"},
                              {"index", "chatRooms", "users"}}
<1> DEFINE p == <<"index", "chatRooms">> \o <<"users", "chatRooms">>
<1>1. /\ Len(p) = 4
      /\ p[1] = "index" /\ p[2] = "chatRooms" /\ p[3] = "users" /\ p[4] = "chatRooms"
  OBVIOUS
<1> HIDE DEF p
<1>2. /\ Written(p, 0) = {} /\ Written(p, 1) = {"index"}
      /\ Written(p, 2) = {"index", "chatRooms"}
      /\ Written(p, 3) = {"index", "chatRooms", "users"}
      /\ Written(p, 4) = {"index", "chatRooms", "users"}
  BY ONLY <1>1 DEF Written
<1>3. \A k \in 0 .. Len(p) :
        Written(p, k) \in {{}, {"index"}, {"index", "chatRooms"},
                           {"index", "chatRooms", "users"}}
  <2>1. 0 .. Len(p) = {0, 1, 2, 3, 4}
    BY ONLY <1>1
  <2> QED
    BY ONLY <1>2, <2>1
<1> QED
  BY <1>3 DEF p

\* When the index is written first, a stage is steady as soon as the messages that its
\* rooms list exist.
LEMMA StageIsSteady ==
  ASSUME NEW s, Steady(s), NEW goal, Steady(goal), Grows(s, goal), NEW W,
         goal.index = s.index \/ "index" \in W,
         ListedMessagesExist(Stage(s, goal, W))
  PROVE  Steady(Stage(s, goal, W))
<1> DEFINE t == Stage(s, goal, W)
<1>1. /\ t.users \in {s.users, goal.users} /\ t.chatRooms \in {s.chatRooms, goal.chatRooms}
      /\ t.messages \in {s.messages, goal.messages} /\ t.index = goal.index
  BY StageFiles
<1>2. IsStore(t) /\ IsStore(s) /\ IsStore(goal)
  BY StageIsStore DEF Steady
<1>3. ListedMessagesExist(t)
  OBVIOUS
<1> HIDE DEF t
<1>4. IdsAreTaken(t)
  <2>1. /\ s.index \in IndexRec /\ goal.index \in IndexRec
        /\ \A u \in DOMAIN s.users : u \in Nat /\ s.users[u].chatRoomIds \subseteq Nat
        /\ \A r \in DOMAIN s.chatRooms : r \in Nat
        /\ \A m \in DOMAIN s.messages : m \in Nat /\ s.messages[m].chatRoomId \in Nat
    BY <1>2, StoreTypes DEF UserRec, MessageRec
  <2>2. IdsAreTaken(s) /\ IdsAreTaken(goal)
    BY DEF Steady
  <2>3. /\ \A u \in DOMAIN s.users : u < goal.index.user
        /\ \A r \in DOMAIN s.chatRooms : r < goal.index.chatroom
        /\ \A m \in DOMAIN s.messages :
             m < goal.index.message /\ s.messages[m].chatRoomId < goal.index.chatroom
        /\ \A u \in DOMAIN s.users : \A r \in s.users[u].chatRoomIds : r < goal.index.chatroom
    BY <2>1, <2>2 DEF IdsAreTaken, IndexRec, Grows, Advances
  <2> QED
    BY <1>1, <2>2, <2>3 DEF IdsAreTaken
<1>5. IdsStartAtOne(t) /\ RequestersAreOutside(t) /\ NamesDiffer(t) /\ MembersAreUsers(t)
  BY <1>1 DEF Steady, IdsStartAtOne, RequestersAreOutside, NamesDiffer, MembersAreUsers, Grows
<1>6. Steady(t)
  BY <1>2, <1>3, <1>4, <1>5 DEF Steady
<1> QED
  BY <1>6 DEF t

\* A handler that stores no room.
LEMMA OldRoomsWithstand ==
  ASSUME NEW s, Steady(s), NEW w, Steady(w.goal), Grows(s, w.goal),
         DOMAIN w.goal.chatRooms \subseteq DOMAIN s.chatRooms,
         SpoilsNothing(s, w.goal),
         \A k \in 0 .. Len(w.order) :
           LET W == Written(w.order, k)
               t == Stage(s, w.goal, W)
           IN /\ W = {} \/ w.goal.index = s.index \/ "index" \in W
              /\ ListedMessagesExist(t)
              /\ \E u, r : SpoilsOnly(s, t, u, r)
  PROVE  Withstands(s, w)
<1> SUFFICES ASSUME NEW k \in 0 .. Len(w.order)
             PROVE  IsStage(s, w.goal, Stage(s, w.goal, Written(w.order, k)))
  BY DEF Withstands, Grows
<1> DEFINE W == Written(w.order, k)
           t == Stage(s, w.goal, W)
<1>1. /\ W = {} \/ w.goal.index = s.index \/ "index" \in W
      /\ ListedMessagesExist(t)
      /\ \E u, r : SpoilsOnly(s, t, u, r)
  OBVIOUS
<1> HIDE DEF W
<1>2. Steady(t)
  BY <1>1, FirstStage, StageIsSteady DEF Steady
<1>3. DOMAIN w.goal.chatRooms \subseteq DOMAIN t.chatRooms
  BY StageFiles
<1> HIDE DEF t
<1>4. IsStage(s, w.goal, t)
  BY <1>1, <1>2, <1>3 DEF IsStage, NewRoomsAreUnnamed
<1> QED
  BY <1>4 DEF t, W

\* A handler that writes nothing.
LEMMA RefusalWithstands ==
  ASSUME NEW s, Steady(s), NEW w, w.goal = s, w.order = << >>
  PROVE  Withstands(s, w)
<1>1. \A k \in 0 .. Len(w.order) : Stage(s, w.goal, Written(w.order, k)) = s
  BY WrittenByNone, FirstStage DEF Steady
<1>2. IsStage(s, s, s) /\ SpoilsNothing(s, s)
  BY DEF IsStage, NewRoomsAreUnnamed, SpoilsOnly, SpoilsNothing
<1>3. Advances(s, s)
  BY StoreTypes DEF Steady, Advances, IndexRec
<1> QED
  BY <1>1, <1>2, <1>3 DEF Withstands

\* As long as nobody enters or leaves a room, no pair is damaged.
LEMMA SameMembership ==
  ASSUME NEW s, NEW t, t.users = s.users, DOMAIN t.chatRooms = DOMAIN s.chatRooms,
         \A r \in DOMAIN s.chatRooms : t.chatRooms[r].userIds = s.chatRooms[r].userIds
  PROVE  SpoilsNothing(s, t) /\ \E u, r : SpoilsOnly(s, t, u, r)
<1>1. SpoilsNothing(s, t)
  BY DEF SpoilsNothing, Disagree, UserLists, RoomLists
<1> QED
  BY <1>1 DEF SpoilsNothing, SpoilsOnly

-----------------------------------------------------------------------------
(***************************************************************************)
(* Waiting lists                                                           *)
(***************************************************************************)
LEMMA WaitingListWithstands ==
  ASSUME NEW s, Steady(s), NEW r \in DOMAIN s.chatRooms, NEW room \in ChatRoomRec,
         room.userIds = s.chatRooms[r].userIds,
         room.messageIds = s.chatRooms[r].messageIds,
         room.userIds \cap room.requestIds = {},
         NEW w, w.order = <<"chatRooms">>,
         w.goal = Contents(s.users, Update(s.chatRooms, r, room), s.messages, s.index)
  PROVE  Withstands(s, w)
<1> DEFINE C == Update(s.chatRooms, r, room)
           g == Contents(s.users, C, s.messages, s.index)
<1>1. /\ IsFile(C, ChatRoomRec) /\ DOMAIN C = DOMAIN s.chatRooms
      /\ \A x \in DOMAIN C : /\ C[x].userIds = s.chatRooms[x].userIds
                             /\ C[x].messageIds = s.chatRooms[x].messageIds
                             /\ C[x].userIds \cap C[x].requestIds = {}
  <2>1. IsFile(s.chatRooms, ChatRoomRec) /\ RequestersAreOutside(s)
    BY StoreTypes DEF Steady
  <2>2. /\ IsFile(C, ChatRoomRec) /\ DOMAIN C = DOMAIN s.chatRooms
        /\ C[r] = room
        /\ \A x \in DOMAIN s.chatRooms : x # r => C[x] = s.chatRooms[x]
    BY <2>1, UpdateFile
  <2> HIDE DEF C
  <2> QED
    BY <2>1, <2>2 DEF RequestersAreOutside
<1>2. /\ IsFile(s.users, UserRec) /\ IsFile(s.messages, MessageRec)
      /\ s.index \in IndexRec /\ IsStore(s)
  BY StoreTypes DEF Steady
<1> HIDE DEF C
<1>3. IsStore(g) /\ g.users = s.users /\ g.chatRooms = C /\ g.messages = s.messages /\ g.index = s.index
  BY <1>1, <1>2, StoreOf
<1> HIDE DEF g
<1>4. Steady(g)
  BY <1>1, <1>3 DEF Steady, IdsAreTaken, IdsStartAtOne, ListedMessagesExist,
                    RequestersAreOutside, NamesDiffer, MembersAreUsers
<1>5. Grows(s, g)
  BY <1>1, <1>2, <1>3 DEF Steady, MembersAreUsers, Grows, Advances, IndexRec
<1>6. SpoilsNothing(s, g)
  BY <1>1, <1>3, SameMembership
<1>7. ASSUME NEW W, W = {} \/ W = {"chatRooms"}
      PROVE  /\ ListedMessagesExist(Stage(s, g, W))
             /\ \E u, x : SpoilsOnly(s, Stage(s, g, W), u, x)
  <2> DEFINE t == Stage(s, g, W)
  <2>1. t.users = s.users /\ t.messages = s.messages /\ t.chatRooms \in {s.chatRooms, C}
    BY <1>3, StageFiles
  <2> HIDE DEF t
  <2>2. ListedMessagesExist(t) /\ \E u, x : SpoilsOnly(s, t, u, x)
    BY <1>1, <2>1, SameMembership DEF Steady, ListedMessagesExist
  <2> QED
    BY <2>2 DEF t
<1>8. w.goal = g /\ \A k \in 0 .. Len(w.order) : Written(w.order, k) \in {{}, {"chatRooms"}}
  BY WrittenByOne DEF g, C
<1> QED
  BY <1>1, <1>3, <1>4, <1>5, <1>6, <1>7, <1>8, OldRoomsWithstand

\* handleJoinRequest and handleDeleteRequest.
LEMMA WaitingListsWithstand ==
  ASSUME NEW s, Steady(s), NEW u \in Nat, NEW r \in Nat
  PROVE  /\ Withstands(s, handleJoinRequest(s, u, r))
         /\ Withstands(s, handleDeleteRequest(s, u, r))
<1>1. IsStore(s) /\ RequestersAreOutside(s)
  BY DEF Steady
<1>2. Withstands(s, handleJoinRequest(s, u, r))
  <2> DEFINE w == handleJoinRequest(s, u, r)
             room == [s.chatRooms[r] EXCEPT !.requestIds = @ \cup {u}]
             goal == addJoinRequestToChatRoom(s, u, r)
  <2>1. CASE Both(s, u, r) /\ u \notin Members(s, r)
    <3>1. /\ w.order = <<"chatRooms">> /\ w.goal = goal
      BY <2>1 DEF handleJoinRequest, Result
    <3>2. goal = Contents(s.users, Update(s.chatRooms, r, room), s.messages, s.index)
      BY <2>1 DEF addJoinRequestToChatRoom
    <3>3. r \in DOMAIN s.chatRooms /\ s.chatRooms[r] \in ChatRoomRec /\ u \notin s.chatRooms[r].userIds
      BY <1>1, <2>1, StoreTypes DEF Both, Members
    <3>4. /\ room \in ChatRoomRec
          /\ room.userIds = s.chatRooms[r].userIds
          /\ room.messageIds = s.chatRooms[r].messageIds
          /\ room.requestIds = s.chatRooms[r].requestIds \cup {u}
      BY <3>3 DEF ChatRoomRec
    <3> HIDE DEF w, room, goal
    <3>5. room.userIds \cap room.requestIds = {}
      BY <1>1, <3>3, <3>4 DEF RequestersAreOutside
    <3>6. Withstands(s, w)
      BY <3>1, <3>2, <3>3, <3>4, <3>5, WaitingListWithstands
    <3> QED
      BY <3>6 DEF w
  <2>2. CASE ~(Both(s, u, r) /\ u \notin Members(s, r))
    <3>1. w.order = << >> /\ w.goal = s
      BY <2>2 DEF handleJoinRequest, Result, addJoinRequestToChatRoom
    <3> QED
      BY <3>1, RefusalWithstands
  <2> QED
    BY <2>1, <2>2
<1>3. Withstands(s, handleDeleteRequest(s, u, r))
  <2> DEFINE w == handleDeleteRequest(s, u, r)
             room == [s.chatRooms[r] EXCEPT !.requestIds = @ \ {u}]
  <2>1. CASE r \in DOMAIN s.chatRooms /\ u \in s.chatRooms[r].requestIds
    <3>1. /\ w.order = <<"chatRooms">>
          /\ w.goal = Contents(s.users, Update(s.chatRooms, r, room), s.messages, s.index)
      BY <2>1 DEF handleDeleteRequest, Result, removeJoinRequestFromChatRoom
    <3>2. s.chatRooms[r] \in ChatRoomRec
      BY <1>1, <2>1, StoreTypes
    <3>3. /\ room \in ChatRoomRec
          /\ room.userIds = s.chatRooms[r].userIds
          /\ room.messageIds = s.chatRooms[r].messageIds
          /\ room.requestIds = s.chatRooms[r].requestIds \ {u}
      BY <3>2 DEF ChatRoomRec
    <3> HIDE DEF w, room
    <3>4. room.userIds \cap room.requestIds = {}
      BY <1>1, <2>1, <3>3 DEF RequestersAreOutside
    <3>5. Withstands(s, w)
      BY <2>1, <3>1, <3>3, <3>4, WaitingListWithstands
    <3> QED
      BY <3>5 DEF w
  <2>2. CASE ~(r \in DOMAIN s.chatRooms /\ u \in s.chatRooms[r].requestIds)
    <3>1. w.order = << >> /\ w.goal = s
      BY <2>2 DEF handleDeleteRequest, Refuse, Result
    <3> QED
      BY <3>1, RefusalWithstands
  <2> QED
    BY <2>1, <2>2
<1> QED
  BY <1>2, <1>3

-----------------------------------------------------------------------------
(***************************************************************************)
(* Membership: updateUser, then updateChatRoom                             *)
(***************************************************************************)
LEMMA RelinkWithstands ==
  ASSUME NEW s, Steady(s), NEW u \in DOMAIN s.users, NEW r \in DOMAIN s.chatRooms,
         NEW user \in UserRec, NEW room \in ChatRoomRec,
         user.name = s.users[u].name,
         \A x : x # r => (x \in user.chatRoomIds <=> x \in s.users[u].chatRoomIds),
         \A x : x # u => (x \in room.userIds <=> x \in s.chatRooms[r].userIds),
         r \in user.chatRoomIds <=> u \in room.userIds,
         room.messageIds = s.chatRooms[r].messageIds,
         room.userIds \cap room.requestIds = {},
         NEW w, w.order = <<"users", "chatRooms">>,
         w.goal = Contents(Update(s.users, u, user), Update(s.chatRooms, r, room),
                           s.messages, s.index)
  PROVE  Withstands(s, w)
<1> DEFINE U == Update(s.users, u, user)
           C == Update(s.chatRooms, r, room)
           g == Contents(U, C, s.messages, s.index)
<1>1. /\ IsStore(s) /\ IsFile(s.users, UserRec) /\ IsFile(s.chatRooms, ChatRoomRec)
      /\ IsFile(s.messages, MessageRec) /\ s.index \in IndexRec
  BY StoreTypes DEF Steady
<1>2. /\ IsFile(U, UserRec) /\ DOMAIN U = DOMAIN s.users /\ U[u] = user
      /\ \A x \in DOMAIN s.users : x # u => U[x] = s.users[x]
  BY <1>1, UpdateFile
<1>3. /\ IsFile(C, ChatRoomRec) /\ DOMAIN C = DOMAIN s.chatRooms /\ C[r] = room
      /\ \A x \in DOMAIN s.chatRooms : x # r => C[x] = s.chatRooms[x]
  BY <1>1, UpdateFile
<1> HIDE DEF U, C
<1>4. IsStore(g) /\ g.users = U /\ g.chatRooms = C /\ g.messages = s.messages /\ g.index = s.index
  BY <1>1, <1>2, <1>3, StoreOf
<1> HIDE DEF g
<1>5. Steady(g)
  <2>1. IdsAreTaken(g)
    <3>1. \A x \in user.chatRoomIds : x < s.index.chatroom
      BY DEF Steady, IdsAreTaken
    <3> QED
      BY <1>2, <1>3, <1>4, <3>1 DEF Steady, IdsAreTaken
  <2>2. ListedMessagesExist(g) /\ RequestersAreOutside(g)
    <3>1. /\ \A x \in DOMAIN C : C[x].messageIds = s.chatRooms[x].messageIds
          /\ RequestersAreOutside(s) /\ ListedMessagesExist(s)
      BY <1>3 DEF Steady
    <3> QED
      BY <1>3, <1>4, <3>1 DEF ListedMessagesExist, RequestersAreOutside
  <2>3. NamesDiffer(g) /\ IdsStartAtOne(g)
    BY <1>2, <1>4 DEF Steady, NamesDiffer, IdsStartAtOne
  <2>4. MembersAreUsers(g)
    BY <1>2, <1>3, <1>4 DEF Steady, MembersAreUsers
  <2> QED
    BY <1>4, <2>1, <2>2, <2>3, <2>4 DEF Steady
<1>6. Grows(s, g)
  BY <1>1, <1>2, <1>3, <1>4, <1>5 DEF Steady, MembersAreUsers, Grows, Advances, IndexRec
<1>7. ASSUME NEW t, t.users \in {s.users, U}, t.chatRooms \in {s.chatRooms, C}
      PROVE  SpoilsOnly(s, t, u, r)
  <2> SUFFICES ASSUME NEW v, NEW x, Disagree(t, v, x), v # u \/ x # r
               PROVE  Disagree(s, v, x)
    BY DEF SpoilsOnly
  <2>1. v \in DOMAIN s.users
    BY <1>2, <1>7 DEF Disagree
  <2>2. UserLists(t, v, x) <=> UserLists(s, v, x)
    BY <1>2, <1>7, <2>1 DEF UserLists
  <2>3. RoomLists(t, v, x) <=> RoomLists(s, v, x)
    BY <1>3, <1>7 DEF RoomLists
  <2> QED
    BY <2>1, <2>2, <2>3 DEF Disagree
<1>8. SpoilsNothing(s, g)
  <2>1. ~Disagree(g, u, r)
    BY <1>2, <1>3, <1>4 DEF Disagree, UserLists, RoomLists
  <2> QED
    BY <1>4, <1>7, <2>1 DEF SpoilsOnly, SpoilsNothing
<1>9. ASSUME NEW W, W \in {{}, {"users"}, {"users", "chatRooms"}}
      PROVE  /\ ListedMessagesExist(Stage(s, g, W))
             /\ \E v, x : SpoilsOnly(s, Stage(s, g, W), v, x)
  <2> DEFINE t == Stage(s, g, W)
  <2>1. t.users \in {s.users, U} /\ t.messages = s.messages /\ t.chatRooms \in {s.chatRooms, C}
    BY <1>4, StageFiles
  <2> HIDE DEF t
  <2>2. ListedMessagesExist(t)
    BY <1>4, <1>5, <2>1 DEF Steady, ListedMessagesExist
  <2>3. \E v, x : SpoilsOnly(s, t, v, x)
    BY <1>7, <2>1
  <2> QED
    BY <2>2, <2>3 DEF t
<1>10. /\ w.goal = g
       /\ \A k \in 0 .. Len(w.order) : Written(w.order, k) \in {{}, {"users"}, {"users", "chatRooms"}}
  BY WrittenByTwo DEF g, U, C
<1> QED
  BY <1>3, <1>4, <1>5, <1>6, <1>8, <1>9, <1>10, OldRoomsWithstand

\* handleAddUser and handleRemoveUser.
LEMMA RelationsWithstand ==
  ASSUME NEW s, Steady(s), NEW u \in Nat, NEW r \in Nat
  PROVE  /\ Withstands(s, handleAddUser(s, u, r))
         /\ Withstands(s, handleRemoveUser(s, u, r))
<1>1. IsStore(s) /\ RequestersAreOutside(s)
  BY DEF Steady
<1>2. CASE ~Both(s, u, r)
  <2>1. /\ handleAddUser(s, u, r).order = << >> /\ handleAddUser(s, u, r).goal = s
        /\ handleRemoveUser(s, u, r).order = << >> /\ handleRemoveUser(s, u, r).goal = s
    BY <1>2 DEF handleAddUser, handleRemoveUser, Result, RelationWrites, addUserToChatRoom,
                removeUserFromChatRoom
  <2> QED
    BY <2>1, RefusalWithstands
<1>3. CASE Both(s, u, r)
  <2>1. /\ u \in DOMAIN s.users /\ r \in DOMAIN s.chatRooms
        /\ s.users[u] \in UserRec /\ s.chatRooms[r] \in ChatRoomRec
        /\ s.chatRooms[r].userIds \cap s.chatRooms[r].requestIds = {}
    BY <1>1, <1>3, StoreTypes DEF Both, RequestersAreOutside
  <2>2. Withstands(s, handleAddUser(s, u, r))
    <3> DEFINE w == handleAddUser(s, u, r)
               user == [s.users[u] EXCEPT !.chatRoomIds = @ \cup {r}]
               room == [s.chatRooms[r] EXCEPT !.userIds = @ \cup {u}, !.requestIds = @ \ {u}]
    <3>1. /\ w.order = <<"users", "chatRooms">>
          /\ w.goal = Contents(Update(s.users, u, user), Update(s.chatRooms, r, room),
                               s.messages, s.index)
      BY <1>3 DEF handleAddUser, Result, RelationWrites, addUserToChatRoom
    <3>2. /\ user \in UserRec /\ user.name = s.users[u].name
          /\ user.chatRoomIds = s.users[u].chatRoomIds \cup {r}
      BY <2>1 DEF UserRec
    <3>3. /\ room \in ChatRoomRec
          /\ room.userIds = s.chatRooms[r].userIds \cup {u}
          /\ room.requestIds = s.chatRooms[r].requestIds \ {u}
          /\ room.messageIds = s.chatRooms[r].messageIds
      BY <2>1 DEF ChatRoomRec
    <3> HIDE DEF w, user, room
    <3>4. room.userIds \cap room.requestIds = {}
      BY <2>1, <3>3
    <3>5. Withstands(s, w)
      BY <2>1, <3>1, <3>2, <3>3, <3>4, RelinkWithstands
    <3> QED
      BY <3>5 DEF w
  <2>3. Withstands(s, handleRemoveUser(s, u, r))
    <3> DEFINE w == handleRemoveUser(s, u, r)
               user == [s.users[u] EXCEPT !.chatRoomIds = @ \ {r}]
               room == [s.chatRooms[r] EXCEPT !.userIds = @ \ {u}]
    <3>1. /\ w.order = <<"users", "chatRooms">>
          /\ w.goal = Contents(Update(s.users, u, user), Update(s.chatRooms, r, room),
                               s.messages, s.index)
      BY <1>3 DEF handleRemoveUser, Result, RelationWrites, removeUserFromChatRoom
    <3>2. /\ user \in UserRec /\ user.name = s.users[u].name
          /\ user.chatRoomIds = s.users[u].chatRoomIds \ {r}
      BY <2>1 DEF UserRec
    <3>3. /\ room \in ChatRoomRec
          /\ room.userIds = s.chatRooms[r].userIds \ {u}
          /\ room.requestIds = s.chatRooms[r].requestIds
          /\ room.messageIds = s.chatRooms[r].messageIds
      BY <2>1 DEF ChatRoomRec
    <3> HIDE DEF w, user, room
    <3>4. room.userIds \cap room.requestIds = {}
      BY <2>1, <3>3
    <3>5. Withstands(s, w)
      BY <2>1, <3>1, <3>2, <3>3, <3>4, RelinkWithstands
    <3> QED
      BY <3>5 DEF w
  <2> QED
    BY <2>2, <2>3
<1> QED
  BY <1>2, <1>3

-----------------------------------------------------------------------------
(***************************************************************************)
(* Accounts: index.txt, then users.json                                    *)
(***************************************************************************)
LEMMA CreateAccountWithstands ==
  ASSUME NEW s, Steady(s), NEW name \in Name
  PROVE  Withstands(s, handleCreateAccount(s, name))
<1> DEFINE w == handleCreateAccount(s, name)
           id == s.index.user
           user == [name |-> name, chatRoomIds |-> {}]
           U == Put(s.users, id, user)
           I == Taken(s, "user")
           g == Contents(U, s.chatRooms, s.messages, I)
<1>1. CASE NameTaken(s, name)
  <2>1. w.order = << >> /\ w.goal = s
    BY <1>1 DEF handleCreateAccount, Refuse, Result
  <2> QED
    BY <2>1, RefusalWithstands
<1>2. CASE ~NameTaken(s, name)
  <2>1. w.order = <<"index", "users">> /\ w.goal = g
    BY <1>2 DEF handleCreateAccount, Result
  <2>2. /\ IsStore(s) /\ IsFile(s.users, UserRec) /\ IsFile(s.chatRooms, ChatRoomRec)
        /\ IsFile(s.messages, MessageRec) /\ s.index \in IndexRec
        /\ \A u \in DOMAIN s.users : u \in Nat
    BY StoreTypes DEF Steady
  <2>3. /\ I \in IndexRec /\ I.user = id + 1 /\ id \in Nat
        /\ I.chatroom = s.index.chatroom /\ I.message = s.index.message
    BY <2>2, TakeId DEF IndexRec
  <2>4. id \notin DOMAIN s.users /\ user \in UserRec /\ user.chatRoomIds = {} /\ user.name = name
    BY <2>2, <2>3 DEF Steady, IdsAreTaken, UserRec
  <2> HIDE DEF user, I, id, w
  <2>5. /\ IsFile(U, UserRec) /\ DOMAIN U = DOMAIN s.users \cup {id} /\ U[id] = user
        /\ \A u \in DOMAIN s.users : U[u] = s.users[u]
    BY <2>2, <2>3, <2>4 DEF Put, IsFile
  <2> HIDE DEF U
  <2>6. IsStore(g) /\ g.users = U /\ g.chatRooms = s.chatRooms /\ g.messages = s.messages /\ g.index = I
    BY <2>2, <2>3, <2>5, StoreOf
  <2> HIDE DEF g
  <2>7. Steady(g)
    <3>1. IdsAreTaken(g)
      BY <2>2, <2>3, <2>4, <2>5, <2>6 DEF Steady, IdsAreTaken, id
    <3>2. NamesDiffer(g)
      <4>1. \A u \in DOMAIN s.users : s.users[u].name # name
        BY <1>2 DEF NameTaken
      <4> QED
        BY <2>4, <2>5, <2>6, <4>1 DEF Steady, NamesDiffer
    <3>3. IdsStartAtOne(g)
      BY <2>3, <2>5, <2>6 DEF Steady, IdsStartAtOne, id
    <3>4. ListedMessagesExist(g) /\ RequestersAreOutside(g) /\ MembersAreUsers(g)
      BY <2>5, <2>6 DEF Steady, ListedMessagesExist, RequestersAreOutside, MembersAreUsers
    <3> QED
      BY <2>6, <3>1, <3>2, <3>3, <3>4 DEF Steady
  <2>8. Grows(s, g)
    BY <2>2, <2>3, <2>5, <2>6 DEF Steady, MembersAreUsers, Grows, Advances, IndexRec, id
  <2>9. ASSUME NEW t, t.users \in {s.users, U}, t.chatRooms = s.chatRooms
        PROVE  SpoilsNothing(s, t)
    <3> SUFFICES ASSUME NEW v, NEW x, Disagree(t, v, x) PROVE Disagree(s, v, x)
      BY DEF SpoilsNothing
    <3>1. v # id
      BY <2>4, <2>5, <2>9 DEF Disagree, UserLists, RoomLists, Steady, MembersAreUsers
    <3> QED
      BY <2>5, <2>9, <3>1 DEF Disagree, UserLists, RoomLists
  <2>10. ASSUME NEW W, W \in {{}, {"index"}, {"index", "users"}}
         PROVE  /\ W = {} \/ "index" \in W
                /\ ListedMessagesExist(Stage(s, g, W))
                /\ \E v, x : SpoilsOnly(s, Stage(s, g, W), v, x)
    <3> DEFINE t == Stage(s, g, W)
    <3>1. t.users \in {s.users, U} /\ t.messages = s.messages /\ t.chatRooms = s.chatRooms
      BY <2>6, StageFiles
    <3> HIDE DEF t
    <3>2. ListedMessagesExist(t) /\ \E v, x : SpoilsOnly(s, t, v, x)
      BY <2>9, <3>1 DEF Steady, ListedMessagesExist, SpoilsNothing, SpoilsOnly
    <3> QED
      BY <2>10, <3>2 DEF t
  <2>11. \A k \in 0 .. Len(w.order) : Written(w.order, k) \in {{}, {"index"}, {"index", "users"}}
    BY <2>1, WrittenByTwo
  <2>12. /\ w.goal = g /\ Steady(w.goal) /\ Grows(s, w.goal)
         /\ DOMAIN w.goal.chatRooms \subseteq DOMAIN s.chatRooms
         /\ SpoilsNothing(s, w.goal)
    BY <2>1, <2>6, <2>7, <2>8, <2>9
  <2>13. ASSUME NEW k \in 0 .. Len(w.order)
         PROVE  LET W == Written(w.order, k)
                    t == Stage(s, w.goal, W)
                IN /\ W = {} \/ w.goal.index = s.index \/ "index" \in W
                   /\ ListedMessagesExist(t)
                   /\ \E v, x : SpoilsOnly(s, t, v, x)
    BY <2>10, <2>11, <2>12
  <2>14. Withstands(s, w)
    BY <2>12, <2>13, OldRoomsWithstand
  <2> QED
    BY <2>14 DEF w
<1> QED
  BY <1>1, <1>2

-----------------------------------------------------------------------------
(***************************************************************************)
(* Messages                                                                *)
(***************************************************************************)
\* What is written for a message leaves the membership of every room alone, and its
\* stages list only stored messages when the goal, the start and the stage between do.
LEMMA MessagesWithstand ==
  ASSUME NEW s, Steady(s), NEW w, Steady(w.goal),
         w.goal.users = s.users, DOMAIN w.goal.chatRooms = DOMAIN s.chatRooms,
         \A r \in DOMAIN s.chatRooms : w.goal.chatRooms[r].userIds = s.chatRooms[r].userIds,
         /\ s.index.user <= w.goal.index.user
         /\ s.index.chatroom <= w.goal.index.chatroom
         /\ s.index.message <= w.goal.index.message,
         \A k \in 0 .. Len(w.order) :
           LET W == Written(w.order, k)
           IN /\ W = {} \/ w.goal.index = s.index \/ "index" \in W
              /\ ListedMessagesExist(Stage(s, w.goal, W))
  PROVE  Withstands(s, w)
<1>1. Grows(s, w.goal)
  BY DEF Grows, Advances, Steady, MembersAreUsers
<1>2. SpoilsNothing(s, w.goal)
  BY SameMembership
<1>3. ASSUME NEW k \in 0 .. Len(w.order)
      PROVE  \E u, r : SpoilsOnly(s, Stage(s, w.goal, Written(w.order, k)), u, r)
  <2> DEFINE t == Stage(s, w.goal, Written(w.order, k))
  <2>1. t.users = s.users /\ t.chatRooms \in {s.chatRooms, w.goal.chatRooms}
    BY StageFiles
  <2> HIDE DEF t
  <2>2. \E u, r : SpoilsOnly(s, t, u, r)
    BY <2>1, SameMembership
  <2> QED
    BY <2>2 DEF t
<1> QED
  BY <1>1, <1>2, <1>3, OldRoomsWithstand

\* handleNewMessage: index.txt, msg.json, then chatRooms.json.
LEMMA NewMessageWithstands ==
  ASSUME NEW s, Steady(s), NEW u \in Nat, NEW r \in Nat, r < s.index.chatroom
  PROVE  Withstands(s, handleNewMessage(s, u, r))
<1> DEFINE w == handleNewMessage(s, u, r)
           id == s.index.message
           message == [userId |-> u, chatRoomId |-> r]
           M == Put(s.messages, id, message)
           I == Taken(s, "message")
           stored == saveMessage(s, u, r)
           room == [s.chatRooms[r] EXCEPT !.messageIds = @ \cup {id}]
           C == Update(s.chatRooms, r, room)
           g == addMessageToChatRoom(stored, id, r)
<1>1. /\ IsStore(s) /\ IsFile(s.users, UserRec) /\ IsFile(s.chatRooms, ChatRoomRec)
      /\ IsFile(s.messages, MessageRec) /\ s.index \in IndexRec
      /\ \A m \in DOMAIN s.messages : m \in Nat
  BY StoreTypes DEF Steady
<1>2. /\ I \in IndexRec /\ I.message = id + 1 /\ id \in Nat
      /\ I.chatroom = s.index.chatroom /\ I.user = s.index.user
      /\ I.user \in Nat /\ I.chatroom \in Nat
      /\ s.index.message <= I.message
  BY <1>1, TakeId DEF IndexRec
<1>3. /\ id \notin DOMAIN s.messages
      /\ message \in MessageRec /\ message.chatRoomId = r
  BY <1>1, <1>2 DEF Steady, IdsAreTaken, MessageRec
<1>4. stored = Contents(s.users, s.chatRooms, M, I)
  BY DEF saveMessage
<1> HIDE DEF message, I, id, stored
<1>5. /\ IsFile(M, MessageRec) /\ DOMAIN M = DOMAIN s.messages \cup {id} /\ M[id] = message
      /\ \A m \in DOMAIN s.messages : M[m] = s.messages[m]
  <2>1. /\ IsFile(s.messages, MessageRec) /\ message \in MessageRec
        /\ id \in Nat /\ id \notin DOMAIN s.messages
    BY <1>1, <1>2, <1>3
  <2> QED
    BY <2>1 DEF Put, IsFile
<1> HIDE DEF M
<1>6. /\ IsStore(stored) /\ stored.users = s.users /\ stored.chatRooms = s.chatRooms
      /\ stored.messages = M /\ stored.index = I
  BY <1>1, <1>2, <1>4, <1>5, StoreOf
<1>7. IdsAreTaken(stored)
  BY <1>1, <1>2, <1>3, <1>5, <1>6 DEF Steady, IdsAreTaken, id
<1>8. ListedMessagesExist(stored)
  BY <1>5, <1>6 DEF Steady, ListedMessagesExist
<1>9. Steady(stored)
  BY <1>2, <1>6, <1>7, <1>8 DEF Steady, IdsStartAtOne, RequestersAreOutside, NamesDiffer, MembersAreUsers
<1>10. /\ s.index.user <= I.user /\ s.index.chatroom <= I.chatroom
       /\ s.index.message <= I.message
  BY <1>2
<1>11. CASE r \notin DOMAIN s.chatRooms
  <2>1. w.order = <<"index", "messages">> /\ w.goal = stored
    BY <1>11 DEF handleNewMessage, Result, stored
  <2>2. ASSUME NEW W, W \in {{}, {"index"}, {"index", "messages"}}
        PROVE  ListedMessagesExist(Stage(s, stored, W))
    <3> DEFINE t == Stage(s, stored, W)
    <3>1. t.chatRooms = s.chatRooms /\ t.messages \in {s.messages, M}
      BY <1>6, StageFiles
    <3> HIDE DEF t
    <3>2. ListedMessagesExist(t)
      BY <1>6, <1>8, <3>1 DEF Steady, ListedMessagesExist
    <3> QED
      BY <3>2 DEF t
  <2> HIDE DEF w
  <2>3. \A k \in 0 .. Len(w.order) : Written(w.order, k) \in {{}, {"index"}, {"index", "messages"}}
    BY <2>1, WrittenByTwo
  <2>4. \A k \in 0 .. Len(w.order) :
          LET W == Written(w.order, k)
          IN /\ W = {} \/ w.goal.index = s.index \/ "index" \in W
             /\ ListedMessagesExist(Stage(s, w.goal, W))
    BY <2>1, <2>2, <2>3
  <2>5. Withstands(s, w)
    BY <1>6, <1>9, <1>10, <2>1, <2>4, MessagesWithstand
  <2> QED
    BY <2>5 DEF w
<1>12. CASE r \in DOMAIN s.chatRooms
  <2>1. w.order = <<"index", "messages", "chatRooms">> /\ w.goal = g
    BY <1>12 DEF handleNewMessage, Result, stored, id
  <2>2. g = Contents(s.users, C, M, I)
    BY <1>6 DEF addMessageToChatRoom
  <2>3. s.chatRooms[r] \in ChatRoomRec
    BY <1>1, <1>12, StoreTypes
  <2>4. /\ room \in ChatRoomRec
        /\ room.userIds = s.chatRooms[r].userIds
        /\ room.requestIds = s.chatRooms[r].requestIds
        /\ room.messageIds = s.chatRooms[r].messageIds \cup {id}
    BY <1>2, <2>3 DEF ChatRoomRec
  <2> HIDE DEF room, w, g
  <2>5. /\ IsFile(C, ChatRoomRec) /\ DOMAIN C = DOMAIN s.chatRooms /\ C[r] = room
        /\ \A x \in DOMAIN s.chatRooms : x # r => C[x] = s.chatRooms[x]
    BY <1>1, <1>12, <2>4, UpdateFile
  <2> HIDE DEF C
  <2>6. IsStore(g) /\ g.users = s.users /\ g.chatRooms = C /\ g.messages = M /\ g.index = I
    BY <1>1, <1>2, <1>5, <2>2, <2>5, StoreOf
  <2>7. \A x \in DOMAIN C : /\ C[x].userIds = s.chatRooms[x].userIds
                            /\ C[x].requestIds = s.chatRooms[x].requestIds
                            /\ x # r => C[x].messageIds = s.chatRooms[x].messageIds
    BY <2>4, <2>5
  <2>8. Steady(g)
    <3>1. IdsAreTaken(g)
      BY <1>6, <1>7, <2>5, <2>6 DEF IdsAreTaken
    <3>2. ListedMessagesExist(g)
      <4> SUFFICES ASSUME NEW x \in DOMAIN C, NEW m \in C[x].messageIds
                   PROVE  m \in DOMAIN M /\ M[m].chatRoomId = x
        BY <2>6 DEF ListedMessagesExist
      <4>1. CASE x = r /\ m = id
        BY <1>3, <1>5, <4>1
      <4>2. CASE ~(x = r /\ m = id)
        <5>1. m \in s.chatRooms[x].messageIds
          BY <2>4, <2>5, <2>7, <4>2
        <5> QED
          BY <1>6, <1>8, <2>5, <5>1 DEF ListedMessagesExist
      <4> QED
        BY <4>1, <4>2
    <3>3. RequestersAreOutside(g) /\ MembersAreUsers(g)
      BY <2>5, <2>6, <2>7 DEF Steady, RequestersAreOutside, MembersAreUsers
    <3>4. NamesDiffer(g) /\ IdsStartAtOne(g)
      BY <1>2, <2>6 DEF Steady, NamesDiffer, IdsStartAtOne
    <3> QED
      BY <2>6, <3>1, <3>2, <3>3, <3>4 DEF Steady
  <2>9. ASSUME NEW W, W \in {{}, {"index"}, {"index", "messages"},
                             {"index", "messages", "chatRooms"}}
        PROVE  ListedMessagesExist(Stage(s, g, W))
    <3> DEFINE t == Stage(s, g, W)
    <3>1. \/ t.chatRooms = s.chatRooms /\ t.messages \in {s.messages, M}
          \/ t.chatRooms = C /\ t.messages = M
      BY <2>6, <2>9, StageFiles
    <3> HIDE DEF t
    <3>2. ListedMessagesExist(t)
      BY <1>6, <1>8, <2>6, <2>8, <3>1 DEF Steady, ListedMessagesExist
    <3> QED
      BY <3>2 DEF t
  <2>10. \A k \in 0 .. Len(w.order) :
           Written(w.order, k) \in {{}, {"index"}, {"index", "messages"},
                                    {"index", "messages", "chatRooms"}}
    BY <2>1, WrittenByThree
  <2>11. \A k \in 0 .. Len(w.order) :
           LET W == Written(w.order, k)
           IN /\ W = {} \/ w.goal.index = s.index \/ "index" \in W
              /\ ListedMessagesExist(Stage(s, w.goal, W))
    BY <2>1, <2>9, <2>10
  <2>12. /\ w.goal.users = s.users /\ DOMAIN w.goal.chatRooms = DOMAIN s.chatRooms
         /\ \A x \in DOMAIN s.chatRooms : w.goal.chatRooms[x].userIds = s.chatRooms[x].userIds
         /\ s.index.user <= w.goal.index.user
         /\ s.index.chatroom <= w.goal.index.chatroom
         /\ s.index.message <= w.goal.index.message
         /\ Steady(w.goal)
    BY <1>10, <2>1, <2>5, <2>6, <2>7, <2>8
  <2>13. Withstands(s, w)
    BY <2>11, <2>12, MessagesWithstand
  <2> QED
    BY <2>13 DEF w
<1> QED
  BY <1>11, <1>12


\* A message is taken out of its room, when the room exists.
Unlisted(file, r, m) ==
  LET room == [file[r] EXCEPT !.messageIds = @ \ {m}]
  IN IF r \in DOMAIN file THEN Update(file, r, room) ELSE file

LEMMA UnlistMessage ==
  ASSUME NEW file, IsFile(file, ChatRoomRec), NEW r, NEW m, NEW new,
         new = Unlisted(file, r, m)
  PROVE  /\ IsFile(new, ChatRoomRec) /\ DOMAIN new = DOMAIN file
         /\ \A x \in DOMAIN file :
              /\ new[x].userIds = file[x].userIds
              /\ new[x].requestIds = file[x].requestIds
              /\ new[x].messageIds \subseteq file[x].messageIds
              /\ x = r => m \notin new[x].messageIds
<1>1. CASE r \notin DOMAIN file
  BY <1>1 DEF Unlisted
<1>2. CASE r \in DOMAIN file
  <2> DEFINE room == [file[r] EXCEPT !.messageIds = @ \ {m}]
  <2>1. file[r] \in ChatRoomRec
    BY <1>2 DEF IsFile
  <2>2. /\ room \in ChatRoomRec
        /\ room.userIds = file[r].userIds
        /\ room.requestIds = file[r].requestIds
        /\ room.messageIds = file[r].messageIds \ {m}
    BY <2>1 DEF ChatRoomRec
  <2>3. new = Update(file, r, room)
    BY <1>2 DEF Unlisted
  <2> HIDE DEF room
  <2>4. /\ IsFile(new, ChatRoomRec) /\ DOMAIN new = DOMAIN file /\ new[r] = room
        /\ \A x \in DOMAIN file : x # r => new[x] = file[x]
    BY <1>2, <2>2, <2>3, UpdateFile
  <2> QED
    BY <2>2, <2>4
<1> QED
  BY <1>1, <1>2

\* handleDeleteMessage: chatRooms.json when the room exists, then msg.json.
LEMMA DeleteMessageWithstands ==
  ASSUME NEW s, Steady(s), NEW m \in Nat
  PROVE  Withstands(s, handleDeleteMessage(s, m))
<1> DEFINE w == handleDeleteMessage(s, m)
           r == s.messages[m].chatRoomId
           C == Unlisted(s.chatRooms, r, m)
           M == Delete(s.messages, m)
           g == Contents(s.users, C, M, s.index)
<1>1. CASE m \notin DOMAIN s.messages
  <2>1. w.order = << >> /\ w.goal = s
    BY <1>1 DEF handleDeleteMessage, Refuse, Result
  <2> QED
    BY <2>1, RefusalWithstands
<1>2. CASE m \in DOMAIN s.messages
  <2>1. /\ w.goal = g
        /\ w.order = IF r \in DOMAIN s.chatRooms THEN <<"chatRooms", "messages">>
                                                 ELSE <<"messages">>
    BY <1>2 DEF handleDeleteMessage, Result, deleteMessageById, Unlisted
  <2>2. /\ IsStore(s) /\ IsFile(s.users, UserRec) /\ IsFile(s.chatRooms, ChatRoomRec)
        /\ IsFile(s.messages, MessageRec) /\ s.index \in IndexRec
        /\ ListedMessagesExist(s)
    BY StoreTypes DEF Steady
  <2>3. /\ IsFile(C, ChatRoomRec) /\ DOMAIN C = DOMAIN s.chatRooms
        /\ \A x \in DOMAIN s.chatRooms :
             /\ C[x].userIds = s.chatRooms[x].userIds
             /\ C[x].requestIds = s.chatRooms[x].requestIds
             /\ C[x].messageIds \subseteq s.chatRooms[x].messageIds
             /\ x = r => m \notin C[x].messageIds
    BY <2>2, UnlistMessage
  <2>4. /\ IsFile(M, MessageRec) /\ DOMAIN M = DOMAIN s.messages \ {m}
        /\ \A x \in DOMAIN M : M[x] = s.messages[x]
    BY <2>2 DEF Delete, Restrict, IsFile
  <2> HIDE DEF C, M, w
  <2>5. IsStore(g) /\ g.users = s.users /\ g.chatRooms = C /\ g.messages = M /\ g.index = s.index
    BY <2>2, <2>3, <2>4, StoreOf
  <2> HIDE DEF g
  <2>6. ListedMessagesExist(g)
    <3> SUFFICES ASSUME NEW x \in DOMAIN s.chatRooms, NEW l \in C[x].messageIds
                 PROVE  l \in DOMAIN M /\ M[l].chatRoomId = x
      BY <2>3, <2>5 DEF ListedMessagesExist
    <3>1. l \in DOMAIN s.messages /\ s.messages[l].chatRoomId = x
      BY <2>2, <2>3 DEF ListedMessagesExist
    <3> QED
      BY <2>3, <2>4, <3>1
  <2>7. Steady(g)
    <3>1. IdsAreTaken(g)
      BY <2>3, <2>4, <2>5 DEF Steady, IdsAreTaken
    <3>2. RequestersAreOutside(g) /\ MembersAreUsers(g) /\ NamesDiffer(g) /\ IdsStartAtOne(g)
      BY <2>3, <2>5 DEF Steady, RequestersAreOutside, MembersAreUsers, NamesDiffer, IdsStartAtOne
    <3> QED
      BY <2>5, <2>6, <3>1, <3>2 DEF Steady
  <2>8. ASSUME NEW W, W = {} \/ "chatRooms" \in W \/ r \notin DOMAIN s.chatRooms
        PROVE  ListedMessagesExist(Stage(s, g, W))
    <3> DEFINE t == Stage(s, g, W)
    <3>1. /\ t.chatRooms \in {s.chatRooms, C} /\ t.messages \in {s.messages, M}
          /\ \/ t.messages = s.messages
             \/ t.chatRooms = C
             \/ r \notin DOMAIN s.chatRooms
      BY <2>5, <2>8, StageFiles
    <3> HIDE DEF t
    <3>2. ASSUME NEW x \in DOMAIN t.chatRooms, NEW l \in t.chatRooms[x].messageIds
          PROVE  l \in DOMAIN t.messages /\ t.messages[l].chatRoomId = x
      <4>1. x \in DOMAIN s.chatRooms /\ l \in s.chatRooms[x].messageIds
        BY <2>3, <3>1, <3>2
      <4>2. l \in DOMAIN s.messages /\ s.messages[l].chatRoomId = x
        BY <2>2, <4>1 DEF ListedMessagesExist
      <4>3. CASE t.messages = s.messages
        BY <4>2, <4>3
      <4>4. CASE t.messages = M
        <5>1. l # m \/ t.messages = s.messages
          BY <2>3, <3>1, <3>2, <4>1, <4>2
        <5> QED
          BY <2>4, <4>2, <4>4, <5>1
      <4> QED
        BY <3>1, <4>3, <4>4
    <3>3. ListedMessagesExist(t)
      BY <3>2 DEF ListedMessagesExist
    <3> QED
      BY <3>3 DEF t
  <2>9. \A k \in 0 .. Len(w.order) :
          LET W == Written(w.order, k)
          IN W = {} \/ "chatRooms" \in W \/ r \notin DOMAIN s.chatRooms
    <3>1. CASE r \in DOMAIN s.chatRooms
      <4>1. \A k \in 0 .. Len(w.order) :
              Written(w.order, k) \in {{}, {"chatRooms"}, {"chatRooms", "messages"}}
        BY <2>1, <3>1, WrittenByTwo
      <4> QED
        BY <4>1
    <3> QED
      BY <3>1
  <2>10. /\ Steady(w.goal) /\ w.goal.users = s.users
         /\ DOMAIN w.goal.chatRooms = DOMAIN s.chatRooms
         /\ \A x \in DOMAIN s.chatRooms : w.goal.chatRooms[x].userIds = s.chatRooms[x].userIds
         /\ w.goal.index = s.index
    BY <2>1, <2>3, <2>5, <2>7
  <2>11. /\ s.index.user <= w.goal.index.user
         /\ s.index.chatroom <= w.goal.index.chatroom
         /\ s.index.message <= w.goal.index.message
    BY <2>2, <2>10 DEF IndexRec
  <2>12. \A k \in 0 .. Len(w.order) :
           LET W == Written(w.order, k)
           IN /\ W = {} \/ w.goal.index = s.index \/ "index" \in W
              /\ ListedMessagesExist(Stage(s, w.goal, W))
    BY <2>1, <2>8, <2>9, <2>10
  <2>13. Withstands(s, w)
    BY <2>10, <2>11, <2>12, MessagesWithstand
  <2> QED
    BY <2>13 DEF w
<1> QED
  BY <1>1, <1>2


-----------------------------------------------------------------------------
(***************************************************************************)
(* Rooms                                                                   *)
(***************************************************************************)
\* handleDeleteChatRoom: the last member is the coordinator, who is stored, so
\* users.json is written first.
LEMMA DeleteChatRoomWithstands ==
  ASSUME NEW s, Steady(s), NEW r \in Nat
  PROVE  Withstands(s, handleDeleteChatRoom(s, r))
<1> DEFINE w == handleDeleteChatRoom(s, r)
           c == s.chatRooms[r].coordinatorId
           user == [s.users[c] EXCEPT !.chatRoomIds = @ \ {r}]
           U == Update(s.users, c, user)
           C == Delete(s.chatRooms, r)
           g == Contents(U, C, s.messages, s.index)
<1>1. CASE ~Deletable(s, r)
  <2>1. w.order = << >> /\ w.goal = s
    BY <1>1 DEF handleDeleteChatRoom, Refuse, Result
  <2> QED
    BY <2>1, RefusalWithstands
<1>2. CASE Deletable(s, r)
  <2>1. /\ r \in DOMAIN s.chatRooms /\ s.chatRooms[r].userIds = {c}
        /\ c \in DOMAIN s.users
    BY <1>2 DEF Deletable, Steady, MembersAreUsers
  <2>2. w.goal = g /\ w.order = <<"users", "chatRooms">>
    BY <1>2, <2>1 DEF handleDeleteChatRoom, Result, deleteChatRoomById
  <2>3. /\ IsStore(s) /\ IsFile(s.users, UserRec) /\ IsFile(s.chatRooms, ChatRoomRec)
        /\ IsFile(s.messages, MessageRec) /\ s.index \in IndexRec
        /\ ListedMessagesExist(s)
    BY StoreTypes DEF Steady
  <2>4. s.users[c] \in UserRec
    BY <2>1, <2>3, StoreTypes
  <2>5. /\ user \in UserRec /\ user.name = s.users[c].name
        /\ user.chatRoomIds = s.users[c].chatRoomIds \ {r}
    BY <2>4 DEF UserRec
  <2>6. /\ IsFile(C, ChatRoomRec) /\ DOMAIN C = DOMAIN s.chatRooms \ {r}
        /\ \A x \in DOMAIN C : C[x] = s.chatRooms[x]
    BY <2>3 DEF Delete, Restrict, IsFile
  <2> HIDE DEF user, C, w, c
  <2>7. /\ IsFile(U, UserRec) /\ DOMAIN U = DOMAIN s.users /\ U[c] = user
        /\ \A x \in DOMAIN s.users : x # c => U[x] = s.users[x]
    BY <2>1, <2>3, <2>5, UpdateFile
  <2> HIDE DEF U
  <2>8. IsStore(g) /\ g.users = U /\ g.chatRooms = C /\ g.messages = s.messages /\ g.index = s.index
    BY <2>3, <2>6, <2>7, StoreOf
  <2> HIDE DEF g
  <2>9. Steady(g)
    <3>1. /\ \A x \in DOMAIN s.users : /\ U[x].name = s.users[x].name
                                       /\ U[x].chatRoomIds \subseteq s.users[x].chatRoomIds
      BY <2>5, <2>7
    <3>2. IdsAreTaken(g)
      BY <2>6, <2>7, <2>8, <3>1 DEF Steady, IdsAreTaken
    <3>3. NamesDiffer(g) /\ IdsStartAtOne(g) /\ MembersAreUsers(g)
      BY <2>6, <2>7, <2>8, <3>1 DEF Steady, NamesDiffer, IdsStartAtOne, MembersAreUsers
    <3>4. ListedMessagesExist(g) /\ RequestersAreOutside(g)
      BY <2>6, <2>8 DEF Steady, ListedMessagesExist, RequestersAreOutside
    <3> QED
      BY <2>8, <3>2, <3>3, <3>4 DEF Steady
  <2>10. Grows(s, g)
    BY <2>3, <2>6, <2>7, <2>8 DEF Steady, MembersAreUsers, Grows, Advances, IndexRec
  <2>11. ASSUME NEW t, t.users \in {s.users, U}, t.chatRooms \in {s.chatRooms, C}
         PROVE  SpoilsOnly(s, t, c, r)
    <3> SUFFICES ASSUME NEW v, NEW x, Disagree(t, v, x), v # c \/ x # r
                 PROVE  Disagree(s, v, x)
      BY DEF SpoilsOnly
    <3>1. v \in DOMAIN s.users
      BY <2>7, <2>11 DEF Disagree
    <3>2. UserLists(t, v, x) <=> UserLists(s, v, x)
      BY <2>5, <2>7, <2>11, <3>1 DEF UserLists
    <3>3. RoomLists(t, v, x) <=> RoomLists(s, v, x)
      BY <2>1, <2>6, <2>11 DEF RoomLists
    <3> QED
      BY <3>1, <3>2, <3>3 DEF Disagree
  <2>12. SpoilsNothing(s, g)
    <3>1. ~Disagree(g, c, r)
      BY <2>5, <2>6, <2>7, <2>8 DEF Disagree, UserLists, RoomLists
    <3> QED
      BY <2>8, <2>11, <3>1 DEF SpoilsOnly, SpoilsNothing
  <2>13. ASSUME NEW W
         PROVE  /\ ListedMessagesExist(Stage(s, g, W))
                /\ \E v, x : SpoilsOnly(s, Stage(s, g, W), v, x)
    <3> DEFINE t == Stage(s, g, W)
    <3>1. t.users \in {s.users, U} /\ t.messages = s.messages /\ t.chatRooms \in {s.chatRooms, C}
      BY <2>8, StageFiles
    <3> HIDE DEF t
    <3>2. ListedMessagesExist(t) /\ \E v, x : SpoilsOnly(s, t, v, x)
      BY <2>3, <2>6, <2>11, <3>1 DEF ListedMessagesExist
    <3> QED
      BY <3>2 DEF t
  <2>14. /\ w.goal = g /\ Steady(w.goal) /\ Grows(s, w.goal)
         /\ DOMAIN w.goal.chatRooms \subseteq DOMAIN s.chatRooms
         /\ SpoilsNothing(s, w.goal)
         /\ w.goal.index = s.index
    BY <2>2, <2>6, <2>8, <2>9, <2>10, <2>12
  <2>15. Withstands(s, w)
    BY <2>13, <2>14, OldRoomsWithstand
  <2> QED
    BY <2>15 DEF w
<1> QED
  BY <1>1, <1>2

\* handleNewChatRoom: index.txt, the room, and both sides of its coordinator.
LEMMA NewChatRoomWithstands ==
  ASSUME NEW s, Steady(s), NEW c \in DOMAIN s.users
  PROVE  Withstands(s, handleNewChatRoom(s, c))
<1> DEFINE w == handleNewChatRoom(s, c)
           id == s.index.chatroom
           user == [s.users[c] EXCEPT !.chatRoomIds = @ \cup {id}]
           new == [coordinatorId |-> c, userIds |-> {c},
                   messageIds |-> {}, requestIds |-> {}]
           room == [new EXCEPT !.userIds = @ \cup {c}, !.requestIds = @ \ {c}]
           I == Taken(s, "chatroom")
           created == createChatRoom(s, c)
           P == Put(s.chatRooms, id, new)
           U == Update(s.users, c, user)
           C == Update(P, id, room)
           g == Contents(U, C, s.messages, I)
<1>1. /\ IsStore(s) /\ IsFile(s.users, UserRec) /\ IsFile(s.chatRooms, ChatRoomRec)
      /\ IsFile(s.messages, MessageRec) /\ s.index \in IndexRec
      /\ IdsAreTaken(s) /\ ListedMessagesExist(s) /\ MembersAreUsers(s)
      /\ DOMAIN s.users \subseteq Nat /\ s.users[c] \in UserRec
  BY StoreTypes DEF Steady, IsFile
<1>2. /\ I \in IndexRec /\ id \in Nat
      /\ I.user = s.index.user /\ I.chatroom = id + 1 /\ I.message = s.index.message
      /\ s.index.user \in Nat /\ s.index.message \in Nat
  BY <1>1, TakeId
<1>3. id \notin DOMAIN s.chatRooms /\ c \in Nat
  BY <1>1, <1>2, StoreTypes DEF IdsAreTaken
<1>4. /\ new \in ChatRoomRec /\ room \in ChatRoomRec
      /\ room.userIds = {c} /\ room.messageIds = {} /\ room.requestIds = {}
  BY <1>3 DEF ChatRoomRec
<1>5. /\ user \in UserRec /\ user.chatRoomIds = s.users[c].chatRoomIds \cup {id}
      /\ user.name = s.users[c].name
  BY <1>1, <1>2 DEF UserRec
<1>6. created = Contents(s.users, P, s.messages, I)
  BY DEF createChatRoom
<1>7. /\ w.goal = addUserToChatRoom(created, c, id)
      /\ w.order = <<"index", "chatRooms">> \o RelationWrites(created, c, id)
  BY DEF handleNewChatRoom, Result
<1> HIDE DEF id, user, new, room, I, created, w
<1>8. /\ IsFile(P, ChatRoomRec) /\ DOMAIN P = DOMAIN s.chatRooms \cup {id}
      /\ \A x \in DOMAIN s.chatRooms : P[x] = s.chatRooms[x]
  BY <1>1, <1>2, <1>3, <1>4 DEF Put, IsFile
<1> HIDE DEF P
<1>9. /\ created.users = s.users /\ created.chatRooms = P
      /\ created.messages = s.messages /\ created.index = I
  BY <1>1, <1>2, <1>6, <1>8, StoreOf
<1>10. addUserToChatRoom(created, c, id) = g
  <2>1. P[id] = new
    BY <1>3 DEF P, Put
  <2> QED
    BY <1>8, <1>9, <2>1 DEF addUserToChatRoom, Both, user, room
<1>11. w.goal = g /\ w.order = <<"index", "chatRooms">> \o <<"users", "chatRooms">>
  <2>1. RelationWrites(created, c, id) = <<"users", "chatRooms">>
    BY <1>8, <1>9 DEF RelationWrites, Both
  <2> QED
    BY <1>7, <1>10, <2>1
<1>12. /\ IsFile(U, UserRec) /\ DOMAIN U = DOMAIN s.users /\ U[c] = user
       /\ \A x \in DOMAIN s.users : x # c => U[x] = s.users[x]
  BY <1>1, <1>5, UpdateFile
<1>13. /\ IsFile(C, ChatRoomRec) /\ DOMAIN C = DOMAIN s.chatRooms \cup {id} /\ C[id] = room
       /\ \A x \in DOMAIN s.chatRooms : C[x] = s.chatRooms[x]
  BY <1>2, <1>3, <1>4, <1>8 DEF Update, IsFile
<1> HIDE DEF U, C
<1>14. IsStore(g) /\ g.users = U /\ g.chatRooms = C /\ g.messages = s.messages /\ g.index = I
  BY <1>1, <1>2, <1>12, <1>13, StoreOf
<1> HIDE DEF g
<1>15. /\ \A x \in DOMAIN s.chatRooms : x \in Nat /\ x < id
       /\ \A u \in DOMAIN s.users : \A x \in s.users[u].chatRoomIds : x \in Nat /\ x < id
       /\ \A m \in DOMAIN s.messages : s.messages[m].chatRoomId \in Nat /\ s.messages[m].chatRoomId < id
  BY <1>1, StoreTypes DEF IdsAreTaken, IsFile, UserRec, MessageRec, id
<1>16. Steady(g)
  <2>1. IdsAreTaken(g)
    <3>1. /\ \A x \in DOMAIN C : x < id + 1
          /\ \A u \in DOMAIN U : \A x \in U[u].chatRoomIds : x < id + 1
          /\ \A m \in DOMAIN s.messages : s.messages[m].chatRoomId < id + 1
      BY <1>2, <1>5, <1>12, <1>13, <1>15
    <3> QED
      BY <1>1, <1>2, <1>12, <1>14, <3>1 DEF IdsAreTaken
  <2>2. IdsStartAtOne(g)
    BY <1>2, <1>12, <1>14 DEF Steady, IdsStartAtOne
  <2>3. ListedMessagesExist(g)
    BY <1>1, <1>4, <1>13, <1>14 DEF ListedMessagesExist
  <2>4. RequestersAreOutside(g)
    BY <1>4, <1>13, <1>14 DEF Steady, RequestersAreOutside
  <2>5. NamesDiffer(g)
    BY <1>5, <1>12, <1>14 DEF Steady, NamesDiffer
  <2>6. MembersAreUsers(g)
    BY <1>1, <1>4, <1>12, <1>13, <1>14 DEF MembersAreUsers
  <2> QED
    BY <1>14, <2>1, <2>2, <2>3, <2>4, <2>5, <2>6 DEF Steady
<1>17. Grows(s, g)
  <2>1. \A x \in DOMAIN C : C[x].userIds \subseteq DOMAIN s.users
    BY <1>1, <1>4, <1>13 DEF MembersAreUsers
  <2> QED
    BY <1>2, <1>12, <1>14, <2>1 DEF Grows, Advances, id
<1>18. ASSUME NEW t, t.users \in {s.users, U}, t.chatRooms \in {s.chatRooms, C}
       PROVE  SpoilsOnly(s, t, c, id)
  <2> SUFFICES ASSUME NEW v, NEW x, Disagree(t, v, x), v # c \/ x # id
               PROVE  Disagree(s, v, x)
    BY DEF SpoilsOnly
  <2>1. v \in DOMAIN s.users
    BY <1>12, <1>18 DEF Disagree
  <2>2. UserLists(t, v, x) <=> UserLists(s, v, x)
    BY <1>5, <1>12, <1>18, <2>1 DEF UserLists
  <2>3. RoomLists(t, v, x) <=> RoomLists(s, v, x)
    BY <1>3, <1>4, <1>13, <1>18 DEF RoomLists
  <2> QED
    BY <2>1, <2>2, <2>3 DEF Disagree
<1>19. SpoilsNothing(s, g)
  <2>1. ~Disagree(g, c, id)
    BY <1>4, <1>5, <1>12, <1>13, <1>14 DEF Disagree, UserLists, RoomLists
  <2> QED
    BY <1>14, <1>18, <2>1 DEF SpoilsOnly, SpoilsNothing
<1>20. ASSUME NEW W, W \in {{}, {"index"}, {"index", "chatRooms"},
                            {"index", "chatRooms", "users"}}
       PROVE  IsStage(s, g, Stage(s, g, W))
  <2> DEFINE t == Stage(s, g, W)
  <2>1. /\ t.users \in {s.users, U} /\ t.messages = s.messages /\ t.chatRooms \in {s.chatRooms, C}
        /\ t.users = s.users \/ t.chatRooms = C
    BY <1>14, <1>20, StageFiles
  <2>2. ListedMessagesExist(t)
    <3> HIDE DEF t
    <3> QED
      BY <1>1, <1>14, <1>16, <2>1 DEF Steady, ListedMessagesExist
  <2>3. Steady(t)
    <3>1. CASE W = {}
      BY <1>1, <3>1, FirstStage
    <3>2. CASE W # {}
      BY <1>16, <1>17, <1>20, <2>2, <3>2, StageIsSteady
    <3> QED
      BY <3>1, <3>2
  <2> HIDE DEF t
  <2>4. NewRoomsAreUnnamed(t, g)
    <3> SUFFICES ASSUME t.chatRooms = s.chatRooms, t.users = s.users
                 PROVE  NewRoomsAreUnnamed(t, g)
      BY <1>13, <1>14, <2>1 DEF NewRoomsAreUnnamed
    <3>1. /\ \A m \in DOMAIN s.messages : s.messages[m].chatRoomId # id
          /\ \A u \in DOMAIN s.users : id \notin s.users[u].chatRoomIds
      BY <1>2, <1>15
    <3> QED
      BY <1>13, <1>14, <2>1, <3>1 DEF NewRoomsAreUnnamed
  <2>5. SpoilsOnly(s, t, c, id)
    BY <1>18, <2>1
  <2>6. IsStage(s, g, t)
    BY <2>3, <2>4, <2>5 DEF IsStage
  <2> QED
    BY <2>6 DEF t
<1>21. \A k \in 0 .. Len(w.order) : IsStage(s, w.goal, Stage(s, w.goal, Written(w.order, k)))
  BY <1>11, <1>20, WrittenByNewChatRoom
<1>22. Withstands(s, w)
  BY <1>11, <1>14, <1>17, <1>19, <1>21 DEF Withstands, Grows
<1> QED
  BY <1>22 DEF w

\* Whatever is requested of a steady store, and whenever its handler is stopped, the
\* store stays steady.  NEW_CHATROOM needs a known user, NEW_MESSAGE a room id that
\* was handed out.
LEMMA HandlersWithstand ==
  ASSUME NEW s, Steady(s), NEW req \in Requests(Nat, Nat, Nat),
         req.type = "NEW_CHATROOM" => req.userId \in DOMAIN s.users,
         req.type = "NEW_MESSAGE" => req.chatRoomId < s.index.chatroom
  PROVE  Withstands(s, handleRequest(s, req))
<1> DEFINE w == handleRequest(s, req)
<1>1. req.type = "GARBLED" => Withstands(s, w)
  BY Dispatch, RefusalWithstands DEF Result
<1>2. req.type = "AUTH" => Withstands(s, w)
  BY Dispatch, RefusalWithstands DEF handleAuth, Refuse, Result
<1>3. req.type = "CREATE_ACCOUNT" => Withstands(s, w)
  BY Dispatch, RequestTypes, CreateAccountWithstands
<1>4. req.type = "NEW_CHATROOM" => Withstands(s, w)
  BY Dispatch, NewChatRoomWithstands
<1>5. req.type = "NEW_MESSAGE" => Withstands(s, w)
  BY Dispatch, RequestTypes, NewMessageWithstands
<1>6. req.type \in {"ADD_USER", "REMOVE_USER"} => Withstands(s, w)
  BY Dispatch, RequestTypes, RelationsWithstand
<1>7. req.type \in {"REQUEST", "DELETE_REQUEST"} => Withstands(s, w)
  BY Dispatch, RequestTypes, WaitingListsWithstand
<1>8. req.type = "DELETE_MESSAGE" => Withstands(s, w)
  BY Dispatch, RequestTypes, DeleteMessageWithstands
<1>9. req.type = "DELETE_CHATROOM" => Withstands(s, w)
  BY Dispatch, RequestTypes, DeleteChatRoomWithstands
<1> QED
  BY <1>1, <1>2, <1>3, <1>4, <1>5, <1>6, <1>7, <1>8, <1>9, RequestTypes

-----------------------------------------------------------------------------
(***************************************************************************)
(* Answers                                                                 *)
(***************************************************************************)
\* What a successful answer to this request says of the store.
SaidOf(s, req) ==
  LET u == req.userId
      r == req.chatRoomId
      m == req.messageId
  IN CASE req.type = "ADD_USER" -> UserLists(s, u, r) /\ RoomLists(s, u, r)
       [] req.type = "REMOVE_USER" -> ~UserLists(s, u, r) /\ ~RoomLists(s, u, r)
       [] req.type = "DELETE_MESSAGE" ->
            /\ m \notin DOMAIN s.messages
            /\ \A x \in DOMAIN s.chatRooms : m \notin s.chatRooms[x].messageIds
       [] req.type = "DELETE_CHATROOM" -> r \notin DOMAIN s.chatRooms
       [] OTHER -> TRUE

\* Adding or removing a member settles both lists, whatever they said before.
LEMMA RelationAnswersHold ==
  ASSUME NEW s, IsStore(s), NEW u, NEW r, Both(s, u, r)
  PROVE  /\ LET g == handleAddUser(s, u, r).goal IN UserLists(g, u, r) /\ RoomLists(g, u, r)
         /\ LET g == handleRemoveUser(s, u, r).goal IN ~UserLists(g, u, r) /\ ~RoomLists(g, u, r)
<1>1. /\ u \in DOMAIN s.users /\ r \in DOMAIN s.chatRooms
      /\ s.users[u] \in UserRec /\ s.chatRooms[r] \in ChatRoomRec
  BY StoreTypes DEF Both
<1>2. LET g == addUserToChatRoom(s, u, r) IN UserLists(g, u, r) /\ RoomLists(g, u, r)
  BY <1>1 DEF addUserToChatRoom, Both, Contents, Update, UserLists, RoomLists, UserRec, ChatRoomRec
<1>3. LET g == removeUserFromChatRoom(s, u, r) IN ~UserLists(g, u, r) /\ ~RoomLists(g, u, r)
  BY <1>1 DEF removeUserFromChatRoom, Both, Contents, Update, UserLists, RoomLists, UserRec, ChatRoomRec
<1> QED
  BY <1>2, <1>3 DEF handleAddUser, handleRemoveUser, Result

\* No room lists a deleted message: only its own room did.
LEMMA DeleteMessageAnswerHolds ==
  ASSUME NEW s, IsStore(s), ListedMessagesExist(s), NEW m \in DOMAIN s.messages
  PROVE  LET g == handleDeleteMessage(s, m).goal
         IN /\ m \notin DOMAIN g.messages
            /\ \A x \in DOMAIN g.chatRooms : m \notin g.chatRooms[x].messageIds
<1> DEFINE g == handleDeleteMessage(s, m).goal
           r == s.messages[m].chatRoomId
<1>1. g.messages = Delete(s.messages, m) /\ g.chatRooms = Unlisted(s.chatRooms, r, m)
  BY DEF handleDeleteMessage, deleteMessageById, Result, Contents, Unlisted
<1> HIDE DEF g
<1>2. IsFile(s.chatRooms, ChatRoomRec) /\ IsFile(s.messages, MessageRec)
  BY StoreTypes
<1>3. m \notin DOMAIN g.messages
  BY <1>1, <1>2 DEF Delete, Restrict
<1>4. ASSUME NEW x \in DOMAIN g.chatRooms PROVE m \notin g.chatRooms[x].messageIds
  <2>1. /\ DOMAIN g.chatRooms = DOMAIN s.chatRooms
        /\ g.chatRooms[x].messageIds \subseteq s.chatRooms[x].messageIds
        /\ x = r => m \notin g.chatRooms[x].messageIds
    BY <1>1, <1>2, <1>4, UnlistMessage
  <2> QED
    BY <1>4, <2>1 DEF ListedMessagesExist
<1>5. /\ m \notin DOMAIN g.messages
      /\ \A x \in DOMAIN g.chatRooms : m \notin g.chatRooms[x].messageIds
  BY <1>3, <1>4
<1> QED
  BY <1>5 DEF g

LEMMA AnswersHold ==
  ASSUME NEW s, IsStore(s), ListedMessagesExist(s), NEW req \in Requests(Nat, Nat, Nat),
         handleRequest(s, req).reply.outcome = "ok"
  PROVE  SaidOf(handleRequest(s, req).goal, req)
<1> DEFINE w == handleRequest(s, req)
           u == req.userId
           r == req.chatRoomId
           m == req.messageId
<1>1. CASE req.type = "ADD_USER"
  <2>1. w = handleAddUser(s, u, r)
    BY <1>1, Dispatch
  <2>2. Both(s, u, r)
    BY <2>1 DEF handleAddUser, Result
  <2>3. UserLists(w.goal, u, r) /\ RoomLists(w.goal, u, r)
    BY <2>1, <2>2, RelationAnswersHold
  <2> QED
    BY <1>1, <2>3 DEF SaidOf
<1>2. CASE req.type = "REMOVE_USER"
  <2>1. w = handleRemoveUser(s, u, r)
    BY <1>2, Dispatch
  <2>2. Both(s, u, r)
    BY <2>1 DEF handleRemoveUser, Result
  <2>3. ~UserLists(w.goal, u, r) /\ ~RoomLists(w.goal, u, r)
    BY <2>1, <2>2, RelationAnswersHold
  <2> QED
    BY <1>2, <2>3 DEF SaidOf
<1>3. CASE req.type = "DELETE_MESSAGE"
  <2>1. w = handleDeleteMessage(s, m)
    BY <1>3, Dispatch
  <2>2. m \in DOMAIN s.messages
    BY <2>1 DEF handleDeleteMessage, Refuse, Result
  <2>3. /\ m \notin DOMAIN w.goal.messages
        /\ \A x \in DOMAIN w.goal.chatRooms : m \notin w.goal.chatRooms[x].messageIds
    BY <2>1, <2>2, DeleteMessageAnswerHolds
  <2> QED
    BY <1>3, <2>3 DEF SaidOf
<1>4. CASE req.type = "DELETE_CHATROOM"
  <2>1. w = handleDeleteChatRoom(s, r)
    BY <1>4, Dispatch
  <2>2. Deletable(s, r)
    BY <2>1 DEF handleDeleteChatRoom, Refuse, Result
  <2>3. w.goal = deleteChatRoomById(s, r)
    BY <2>1, <2>2 DEF handleDeleteChatRoom, Result
  <2>4. w.goal.chatRooms = Delete(s.chatRooms, r)
    BY <2>3 DEF deleteChatRoomById, Contents
  <2>5. r \notin DOMAIN Delete(s.chatRooms, r)
    BY DEF Delete, Restrict
  <2>6. r \notin DOMAIN w.goal.chatRooms
    BY <2>4, <2>5, Zenon
  <2> QED
    BY <1>4, <2>6 DEF SaidOf
<1>5. CASE req.type \notin {"ADD_USER", "REMOVE_USER", "DELETE_MESSAGE", "DELETE_CHATROOM"}
  BY <1>5 DEF SaidOf
<1> QED
  BY <1>1, <1>2, <1>3, <1>4, <1>5


-----------------------------------------------------------------------------
(***************************************************************************)
(* The inductive invariant of the crashes                                  *)
(***************************************************************************)
\* Between handlers the files are steady, and so is every stage that a handler at
\* work has still to go through.
SteadyThroughout ==
  /\ (\A c \in Child : pc[c] # "working") => Steady(Files)
  /\ \A c \in Child : pc[c] = "working" =>
       /\ Advances(Files, work[c].goal)
       /\ \A k \in 0 .. Len(work[c].order) :
            LET t == Stage(Files, work[c].goal, Written(work[c].order, k))
            IN Steady(t) /\ NewRoomsAreUnnamed(t, work[c].goal)

\* A stage may hold one damaged pair that neither the start nor the goal has.
DamageIsCounted ==
  /\ (\A c \in Child : pc[c] # "working") => AtMost(Damaged(Files), crashes)
  /\ \A c \in Child : pc[c] = "working" =>
       /\ AtMost(Damaged(work[c].goal), crashes)
       /\ \A k \in 0 .. Len(work[c].order) :
            LET t == Stage(Files, work[c].goal, Written(work[c].order, k))
            IN AtMost(Damaged(t), crashes + 1)

\* What a handler is about to say is so in its goal.
AnswersAreKept ==
  \A c \in Child : pc[c] = "working" /\ work[c].reply.outcome = "ok" =>
    SaidOf(work[c].goal, request[c])

CrashInv == IInv /\ SteadyThroughout /\ DamageIsCounted /\ AnswersAreKept

LEMMA OneHandler ==
  ASSUME TypeOK, NEW c \in Child, pc[c] \in {"locked", "working"}
  PROVE  lock = c /\ \A d \in Child : d # c => pc[d] \notin {"locked", "working"}
  BY DEF TypeOK

LEMMA FilesOf ==
  Files.users = users /\ Files.chatRooms = chatRooms /\ Files.messages = messages /\ Files.index = index
  BY DEF Files, Contents

\* What is in the files is the stage a handler has reached.
LEMMA StageReached ==
  ASSUME TypeOK, NEW c \in Child, pc[c] = "working"
  PROVE  /\ 0 \in 0 .. Len(work[c].order)
         /\ Stage(Files, work[c].goal, Written(work[c].order, 0)) = Files
<1>1. IsStore(Files) /\ work[c].order \in Seq(FileName)
  BY DEF TypeOK, IsResult
<1>2. Written(work[c].order, 0) = {}
  BY DEF Written
<1>3. 0 \in 0 .. Len(work[c].order)
  BY <1>1
<1>4. Stage(Files, work[c].goal, {}) = Files
  BY <1>1, FirstStage
<1> QED
  BY <1>2, <1>3, <1>4

\* Whoever is killed and when, the files are steady.
LEMMA FilesAreSteady == ASSUME TypeOK, SteadyThroughout PROVE Steady(Files)
<1>1. CASE \A c \in Child : pc[c] # "working"
  BY <1>1 DEF SteadyThroughout
<1>2. ASSUME NEW c \in Child, pc[c] = "working" PROVE Steady(Files)
  BY <1>2, StageReached DEF SteadyThroughout
<1> QED
  BY <1>1, <1>2

\* A pair is damaged when its two records disagree.
LEMMA DamagedPairs ==
  ASSUME NEW s
  PROVE  Damaged(s) = {p \in (DOMAIN s.users) \X (1 .. MaxRooms) : Disagree(s, p[1], p[2])}
<1>1. \A u, r : UserLists(s, u, r) \in BOOLEAN /\ RoomLists(s, u, r) \in BOOLEAN
  BY DEF UserLists, RoomLists
<1>2. \A p \in (DOMAIN s.users) \X (1 .. MaxRooms) :
        UserLists(s, p[1], p[2]) # RoomLists(s, p[1], p[2]) <=> Disagree(s, p[1], p[2])
  <2> TAKE p \in (DOMAIN s.users) \X (1 .. MaxRooms)
  <2>1. p[1] \in DOMAIN s.users
    OBVIOUS
  <2>2. UserLists(s, p[1], p[2]) # RoomLists(s, p[1], p[2])
          <=> ~(UserLists(s, p[1], p[2]) <=> RoomLists(s, p[1], p[2]))
    BY <1>1, Zenon
  <2> QED
    BY <2>1, <2>2 DEF Disagree
<1> QED
  BY <1>2 DEF Damaged

LEMMA LittleDamage ==
  ASSUME NEW s, NEW t, NEW n \in Nat, AtMost(Damaged(s), n)
  PROVE  /\ SpoilsNothing(s, t) => AtMost(Damaged(t), n)
         /\ (\E u, r : SpoilsOnly(s, t, u, r)) => AtMost(Damaged(t), n + 1)
<1>1. ASSUME SpoilsNothing(s, t) PROVE AtMost(Damaged(t), n)
  <2>1. Damaged(t) \subseteq Damaged(s)
    BY <1>1, DamagedPairs DEF SpoilsNothing, Disagree
  <2> QED
    BY <2>1, PartIsBounded
<1>2. ASSUME NEW u, NEW r, SpoilsOnly(s, t, u, r) PROVE AtMost(Damaged(t), n + 1)
  <2>1. Damaged(t) \subseteq Damaged(s) \cup {<<u, r>>}
    BY <1>2, DamagedPairs DEF SpoilsOnly, Disagree
  <2> QED
    BY <2>1, OneMoreIsBounded
<1> QED
  BY <1>1, <1>2

LEMMA InitCrashInv == Init => CrashInv
<1> SUFFICES ASSUME Init PROVE CrashInv
  OBVIOUS
<1>1. IInv
  BY InitIInv
<1>2. Files = EmptyStore
  BY DEF Init, Files, EmptyStore, Contents
<1>3. /\ EmptyStore.users = << >> /\ EmptyStore.chatRooms = << >>
      /\ EmptyStore.messages = << >>
      /\ EmptyStore.index = [user |-> 1, chatroom |-> 1, message |-> 1]
  BY DEF EmptyStore, Contents
<1>4. IsStore(Files) /\ DOMAIN << >> = {}
  BY <1>1 DEF IInv, TypeOK
<1>5. Steady(Files)
  BY <1>2, <1>3, <1>4
  DEF Steady, IdsAreTaken, IdsStartAtOne, ListedMessagesExist, RequestersAreOutside,
      NamesDiffer, MembersAreUsers
<1>6. AtMost(Damaged(Files), 0)
  <2>1. Damaged(Files) = {}
    BY <1>2, <1>3, <1>4, DamagedPairs
  <2> QED
    BY <2>1, NothingIsBounded
<1>7. crashes = 0 /\ \A c \in Child : pc[c] = "idle"
  BY DEF Init
<1> QED
  BY <1>1, <1>5, <1>6, <1>7 DEF CrashInv, SteadyThroughout, DamageIsCounted, AnswersAreKept

-----------------------------------------------------------------------------
(***************************************************************************)
(* The steps                                                               *)
(***************************************************************************)
\* Requests come and wait, and the handlers go on as they were.
LEMMA WaitCrashInv ==
  ASSUME CrashInv, NEW c \in Child, Receive(c) \/ AcquireDatabaseLock(c) \/ LockFails(c)
  PROVE  SteadyThroughout' /\ DamageIsCounted' /\ AnswersAreKept'
<1> USE DEF CrashInv
<1>1. /\ Files' = Files /\ work' = work /\ crashes' = crashes
      /\ \A d \in Child : /\ pc'[d] = "working" <=> pc[d] = "working"
                          /\ pc[d] = "working" => request'[d] = request[d]
  <2>1. /\ Files' = Files /\ work' = work /\ crashes' = crashes
        /\ pc[c] \in {"idle", "waiting"}
        /\ \E x \in {"idle", "waiting", "locked"} : pc' = [pc EXCEPT ![c] = x]
        /\ request' = request \/ \E req : request' = [request EXCEPT ![c] = req]
    BY DEF Receive, AcquireDatabaseLock, LockFails, files, Files
  <2> QED
    BY <2>1 DEF IInv, TypeOK
<1>2. SteadyThroughout'
  BY <1>1 DEF SteadyThroughout
<1>3. DamageIsCounted'
  BY <1>1 DEF DamageIsCounted
<1>4. AnswersAreKept'
  BY <1>1 DEF AnswersAreKept
<1> QED
  BY <1>2, <1>3, <1>4

\* The handler that reads the files finds them steady, and its stages will be.
LEMMA HandleRequestCrashInv ==
  ASSUME CrashInv, NEW c \in Child, HandleRequest(c)
  PROVE  SteadyThroughout' /\ DamageIsCounted' /\ AnswersAreKept'
<1> USE DEF CrashInv
<1> DEFINE w == handleRequest(Files, request[c])
<1>1. /\ Files' = Files /\ crashes' = crashes /\ request' = request
      /\ pc[c] = "locked" /\ pc' = [pc EXCEPT ![c] = "working"]
      /\ work' = [work EXCEPT ![c] = w]
  BY DEF HandleRequest, files, Files
<1>2. /\ IsStore(Files) /\ request[c] \in Requests(Nat, Nat, Nat) /\ crashes \in Nat
      /\ \A d \in Child : pc[d] # "working"
  BY <1>1, OneHandler DEF IInv, TypeOK
<1>3. Steady(Files) /\ AtMost(Damaged(Files), crashes)
  BY <1>2 DEF SteadyThroughout, DamageIsCounted
<1>4. Withstands(Files, w)
  <2>1. /\ request[c].type = "NEW_CHATROOM" => request[c].userId \in DOMAIN Files.users
        /\ request[c].type = "NEW_MESSAGE" => request[c].chatRoomId < Files.index.chatroom
    BY <1>1, FilesOf DEF IInv, RequestsStayValid
  <2> QED
    BY <1>2, <1>3, <2>1, HandlersWithstand
<1>5. w.reply.outcome = "ok" => SaidOf(w.goal, request[c])
  BY <1>2, <1>3, AnswersHold DEF Steady
<1> HIDE DEF w
<1>6. work'[c] = w /\ \A d \in Child : d # c => pc'[d] # "working"
  BY <1>1, <1>2 DEF IInv, TypeOK
<1>7. pc'[c] = "working"
  BY <1>1 DEF IInv, TypeOK
<1>8. SteadyThroughout'
  BY <1>1, <1>4, <1>6, <1>7 DEF SteadyThroughout, Withstands, IsStage
<1>9. DamageIsCounted'
  <2>1. AtMost(Damaged(w.goal), crashes)
    BY <1>2, <1>3, <1>4, LittleDamage DEF Withstands
  <2>2. \A k \in 0 .. Len(w.order) :
          AtMost(Damaged(Stage(Files, w.goal, Written(w.order, k))), crashes + 1)
    <3> TAKE k \in 0 .. Len(w.order)
    <3>1. \E u, r : SpoilsOnly(Files, Stage(Files, w.goal, Written(w.order, k)), u, r)
      BY <1>4 DEF Withstands, IsStage
    <3> QED
      BY <1>2, <1>3, <3>1, LittleDamage
  <2> QED
    BY <1>1, <1>6, <1>7, <2>1, <2>2 DEF DamageIsCounted
<1>10. AnswersAreKept'
  BY <1>1, <1>5, <1>6 DEF AnswersAreKept
<1> QED
  BY <1>8, <1>9, <1>10

\* The stages after a write are the stages before it but the first.
LEMMA StageAfterWrite ==
  ASSUME TypeOK, NEW c \in Child, WriteFile(c)
  PROVE  /\ pc[c] = "working" /\ pc' = pc /\ crashes' = crashes /\ request' = request
         /\ work'[c].goal = work[c].goal /\ work'[c].reply = work[c].reply
         /\ work[c].order \in Seq(FileName) /\ work[c].order # << >>
         /\ work'[c].order = Tail(work[c].order)
         /\ \A k \in 0 .. Len(work'[c].order) :
              /\ k + 1 \in 0 .. Len(work[c].order)
              /\ Stage(Files', work[c].goal, Written(work'[c].order, k))
                   = Stage(Files, work[c].goal, Written(work[c].order, k + 1))
<1> DEFINE goal == work[c].goal
           order == work[c].order
           file == Head(order)
           left == [work[c] EXCEPT !.order = Tail(@)]
<1>1. /\ pc[c] = "working" /\ order # << >>
      /\ pc' = pc /\ crashes' = crashes /\ request' = request
      /\ work' = [work EXCEPT ![c] = left]
      /\ users' = IF file = "users" THEN goal.users ELSE users
      /\ chatRooms' = IF file = "chatRooms" THEN goal.chatRooms ELSE chatRooms
      /\ messages' = IF file = "messages" THEN goal.messages ELSE messages
      /\ index' = IF file = "index" THEN goal.index ELSE index
  BY DEF WriteFile
<1>2. IsResult(work[c]) /\ order \in Seq(FileName) /\ work'[c] = left
  BY <1>1 DEF TypeOK, IsResult
<1>3. left.goal = goal /\ left.order = Tail(order) /\ left.reply = work[c].reply
  BY <1>2 DEF IsResult
<1>4. /\ Files.users = users /\ Files.chatRooms = chatRooms
      /\ Files.messages = messages /\ Files.index = index
      /\ Files'.users = users' /\ Files'.chatRooms = chatRooms'
      /\ Files'.messages = messages' /\ Files'.index = index'
  BY DEF Files, Contents
<1> HIDE DEF left, order, goal, file
<1>5. ASSUME NEW W PROVE Stage(Files', goal, W) = Stage(Files, goal, W \cup {file})
  BY <1>1, <1>4 DEF Stage
<1>6. ASSUME NEW k \in 0 .. Len(Tail(order))
      PROVE  /\ k + 1 \in 0 .. Len(order)
             /\ Written(order, k + 1) = Written(Tail(order), k) \cup {file}
  <2>1. /\ Len(order) \in Nat /\ Len(Tail(order)) = Len(order) - 1 /\ order[1] = file
        /\ \A i \in 1 .. Len(Tail(order)) : Tail(order)[i] = order[i + 1]
    BY <1>1, <1>2 DEF file
  <2>2. k \in Nat /\ k <= Len(order) - 1
    BY <2>1
  <2>3. Written(order, k + 1) \subseteq Written(Tail(order), k) \cup {file}
    <3> SUFFICES ASSUME NEW i \in 1 .. k + 1
                 PROVE  order[i] = file \/ \E j \in 1 .. k : Tail(order)[j] = order[i]
      BY DEF Written
    <3>1. CASE i = 1
      BY <2>1, <3>1
    <3>2. CASE i # 1
      <4>1. i - 1 \in 1 .. k /\ i - 1 \in 1 .. Len(Tail(order)) /\ (i - 1) + 1 = i
        BY <2>1, <2>2, <3>2
      <4> QED
        BY <2>1, <4>1
    <3> QED
      BY <3>1, <3>2
  <2>4. Written(Tail(order), k) \cup {file} \subseteq Written(order, k + 1)
    <3>1. file \in Written(order, k + 1)
      BY <2>1, <2>2 DEF Written
    <3>2. ASSUME NEW i \in 1 .. k PROVE Tail(order)[i] \in Written(order, k + 1)
      <4>1. i \in 1 .. Len(Tail(order)) /\ i + 1 \in 1 .. k + 1
        BY <2>1, <2>2
      <4> QED
        BY <2>1, <4>1 DEF Written
    <3> QED
      BY <3>1, <3>2 DEF Written
  <2> QED
    BY <2>1, <2>2, <2>3, <2>4
<1>7. \A k \in 0 .. Len(Tail(order)) :
        /\ k + 1 \in 0 .. Len(order)
        /\ Stage(Files', goal, Written(Tail(order), k)) = Stage(Files, goal, Written(order, k + 1))
  BY <1>5, <1>6
<1> QED
  BY <1>1, <1>2, <1>3, <1>7 DEF order, goal

LEMMA WriteFileCrashInv ==
  ASSUME CrashInv, NEW c \in Child, WriteFile(c)
  PROVE  SteadyThroughout' /\ DamageIsCounted' /\ AnswersAreKept'
<1> USE DEF CrashInv
<1> DEFINE goal == work[c].goal
<1>1. /\ pc[c] = "working" /\ pc' = pc /\ crashes' = crashes /\ request' = request
      /\ work'[c].goal = goal /\ work'[c].reply = work[c].reply
      /\ \A k \in 0 .. Len(work'[c].order) :
           /\ k + 1 \in 0 .. Len(work[c].order)
           /\ Stage(Files', goal, Written(work'[c].order, k))
                = Stage(Files, goal, Written(work[c].order, k + 1))
  BY StageAfterWrite DEF IInv
<1>2. \A d \in Child : d # c => pc[d] # "working"
  BY <1>1, OneHandler DEF IInv
<1> HIDE DEF goal
<1>3. Advances(Files', goal)
  <2>1. Advances(Files, goal) /\ IsStore(goal)
    BY <1>1 DEF SteadyThroughout, IInv, TypeOK, IsResult, goal
  <2>2. index' \in {index, goal.index} /\ Files'.index = index' /\ Files.index = index
    BY FilesOf DEF WriteFile, Files, Contents, goal
  <2>3. goal.index \in IndexRec
    BY <2>1, StoreTypes
  <2> QED
    BY <2>1, <2>2, <2>3 DEF Advances, IndexRec
<1>4. SteadyThroughout'
  BY <1>1, <1>2, <1>3 DEF SteadyThroughout, goal
<1>5. DamageIsCounted'
  BY <1>1, <1>2 DEF DamageIsCounted, goal
<1>6. AnswersAreKept'
  BY <1>1, <1>2 DEF AnswersAreKept, goal
<1> QED
  BY <1>4, <1>5, <1>6

\* A child that ends leaves its goal; a child that is killed leaves a stage.
LEMMA EndCrashInv ==
  ASSUME CrashInv, NEW c \in Child, Exit(c) \/ Crash(c)
  PROVE  SteadyThroughout' /\ DamageIsCounted' /\ AnswersAreKept'
<1> USE DEF CrashInv
<1>1. /\ Files' = Files /\ pc[c] \in {"locked", "working"}
      /\ pc' = [pc EXCEPT ![c] = "idle"]
      /\ crashes' \in {crashes, crashes + 1}
  BY DEF Exit, Crash, Gone, files, Files
<1>2. \A d \in Child : pc'[d] # "working"
  BY <1>1, OneHandler DEF IInv, TypeOK
<1>3. Steady(Files)
  BY FilesAreSteady DEF IInv
<1>4. AtMost(Damaged(Files), crashes')
  <2>1. crashes \in Nat
    BY DEF IInv, TypeOK
  <2>2. CASE Exit(c)
    <3>1. Files = work[c].goal /\ pc[c] = "working"
      BY <2>2, NothingLeft DEF Exit, IInv
    <3> QED
      BY <2>2, <3>1 DEF Exit, DamageIsCounted
  <2>3. CASE Crash(c)
    <3>1. crashes' = crashes + 1
      BY <2>3 DEF Crash
    <3>2. CASE pc[c] = "locked"
      <4>1. AtMost(Damaged(Files), crashes)
        BY <3>2, OneHandler DEF IInv, DamageIsCounted
      <4> QED
        BY <2>1, <3>1, <4>1, PartIsBounded
    <3>3. CASE pc[c] = "working"
      BY <3>1, <3>3, StageReached DEF IInv, DamageIsCounted
    <3> QED
      BY <1>1, <3>2, <3>3
  <2> QED
    BY <2>2, <2>3
<1> QED
  BY <1>1, <1>2, <1>3, <1>4 DEF SteadyThroughout, DamageIsCounted, AnswersAreKept

LEMMA NextCrashInv == CrashInv /\ [Next]_vars => CrashInv'
<1> SUFFICES ASSUME CrashInv, [Next]_vars PROVE CrashInv'
  OBVIOUS
<1>1. IInv'
  BY NextIInv DEF CrashInv
<1>2. CASE UNCHANGED vars
  <2>1. Files' = Files /\ UNCHANGED <<pc, work, crashes, request>>
    BY <1>2 DEF vars, Files
  <2> QED
    BY <1>1, <2>1 DEF CrashInv, SteadyThroughout, DamageIsCounted, AnswersAreKept
<1>3. ASSUME NEW c \in Child, Receive(c) \/ Serve(c) \/ LockFails(c) \/ Crash(c)
      PROVE  SteadyThroughout' /\ DamageIsCounted' /\ AnswersAreKept'
  BY <1>3, WaitCrashInv, HandleRequestCrashInv, WriteFileCrashInv, EndCrashInv DEF Serve
<1> QED
  BY <1>1, <1>2, <1>3 DEF Next, CrashInv


-----------------------------------------------------------------------------
(***************************************************************************)
(* The theorems                                                            *)
(***************************************************************************)
\* What the files and each half-done handler keep, whoever is killed and when.
THEOREM CrashInvariance == Spec => []CrashInv
  BY InitCrashInv, NextCrashInv, PTL DEF Spec

LEMMA CrashInvIsSteady == CrashInv => Steady(Files)
  BY FilesAreSteady DEF CrashInv, IInv

\* Whoever is killed and when, no room lists a message that is not stored.
THEOREM MessagesAreStored == Spec => []NoDanglingMessage
<1>1. CrashInv => NoDanglingMessage
  BY CrashInvIsSteady DEF Steady, NoDanglingMessage
<1> QED
  BY <1>1, CrashInvariance, PTL

\* Whoever is killed and when, nobody is a member of a room and waits for it.
THEOREM RequestersWait == Spec => []RequestersAreNotMembers
<1>1. CrashInv => RequestersAreNotMembers
  BY CrashInvIsSteady DEF Steady, RequestersAreNotMembers
<1> QED
  BY <1>1, CrashInvariance, PTL

\* Whoever is killed and when, no two accounts have one name: registerUser in login_register.c
\* looks for it in the file that it writes.
THEOREM NamesStayUnique == Spec => []NamesAreUnique
<1>1. CrashInv => NamesAreUnique
  BY CrashInvIsSteady DEF Steady, NamesAreUnique
<1> QED
  BY <1>1, CrashInvariance, PTL

\* Whoever is killed and when, every stored id was taken from index.txt: none is given twice.
THEOREM IdsStayTaken == Spec => []IdsWereTaken
<1>1. CrashInv => IdsWereTaken
  BY CrashInvIsSteady DEF Steady, IdsWereTaken
<1> QED
  BY <1>1, CrashInvariance, PTL

\* The killed children bound the damaged pairs: one each, and no later handler adds any.
THEOREM CrashesBoundDamage == Spec => []DamagePerCrash
<1>1. CrashInv => DamagePerCrash
  <2> SUFFICES ASSUME CrashInv, lock = None PROVE Cardinality(Damaged(Files)) <= crashes
    BY DEF DamagePerCrash
  <2>1. \A c \in Child : pc[c] # "working"
    BY DatabaseAssumption DEF CrashInv, IInv, TypeOK
  <2> QED
    BY <2>1 DEF CrashInv, DamageIsCounted, AtMost
<1> QED
  BY <1>1, CrashInvariance, PTL

\* What a successful answer says is in the files when it is sent.
THEOREM AnswersHoldInFiles == Spec => []AnswersAreTrue
<1>1. CrashInv => AnswersAreTrue
  <2> SUFFICES ASSUME CrashInv, NEW c \in Child, pc[c] = "working", work[c].order = << >>,
                      work[c].reply.outcome = "ok"
               PROVE  LET req == request[c]
                          u == req.userId
                          r == req.chatRoomId
                          m == req.messageId
                      IN CASE req.type = "ADD_USER" -> UserLists(Files, u, r) /\ RoomLists(Files, u, r)
                           [] req.type = "REMOVE_USER" ->
                                ~UserLists(Files, u, r) /\ ~RoomLists(Files, u, r)
                           [] req.type = "DELETE_MESSAGE" ->
                                /\ m \notin DOMAIN messages
                                /\ \A x \in DOMAIN chatRooms : m \notin chatRooms[x].messageIds
                           [] req.type = "DELETE_CHATROOM" -> r \notin DOMAIN chatRooms
                           [] OTHER -> TRUE
    BY DEF AnswersAreTrue
  <2>1. Files = work[c].goal
    BY NothingLeft DEF CrashInv, IInv
  <2>2. SaidOf(Files, request[c])
    BY <2>1 DEF CrashInv, AnswersAreKept
  <2> QED
    BY <2>2, FilesOf DEF SaidOf
<1> QED
  BY <1>1, CrashInvariance, PTL

\* When a room is stored, no message and no user names its id yet.
THEOREM RoomsAreFresh == Spec => NewRoomsAreFresh
<1>1. CrashInv /\ [Next]_vars =>
        [\A r \in DOMAIN chatRooms' \ DOMAIN chatRooms :
           /\ \A m \in DOMAIN messages : messages[m].chatRoomId # r
           /\ \A u \in DOMAIN users : r \notin users[u].chatRoomIds]_vars
  <2> SUFFICES ASSUME CrashInv, Next, NEW r \in DOMAIN chatRooms' \ DOMAIN chatRooms
               PROVE  /\ \A m \in DOMAIN messages : messages[m].chatRoomId # r
                      /\ \A u \in DOMAIN users : r \notin users[u].chatRoomIds
    OBVIOUS
  <2>1. PICK c \in Child : Receive(c) \/ Serve(c) \/ LockFails(c) \/ Crash(c)
    BY DEF Next
  <2>2. WriteFile(c)
    BY <2>1 DEF Receive, Serve, AcquireDatabaseLock, HandleRequest, Exit, LockFails, Crash, Gone, files
  <2>3. pc[c] = "working" /\ r \in DOMAIN work[c].goal.chatRooms
    BY <2>2 DEF WriteFile
  <2>4. NewRoomsAreUnnamed(Files, work[c].goal)
    BY <2>3, StageReached DEF CrashInv, SteadyThroughout, IInv
  <2> QED
    BY <2>3, <2>4, FilesOf DEF NewRoomsAreUnnamed
<1> QED
  BY <1>1, CrashInvariance, PTL DEF Spec, NewRoomsAreFresh

-----------------------------------------------------------------------------
(***************************************************************************)
(* Until a child is killed the database server implements ChatStore, step  *)
(* by step: a request takes effect when its handler has read the files.    *)
(***************************************************************************)

-----------------------------------------------------------------------------
(***************************************************************************)
(* ChatStore computes with the definitions of Repository.                  *)
(***************************************************************************)
LEMMA SameData ==
  /\ Service!EmptyStore = EmptyStore
  /\ \A U, R, M : Service!Requests(U, R, M) = Requests(U, R, M)
  /\ \A a, b, c, d : Service!Result(a, b, c, d) = Result(a, b, c, d)
  /\ \A s, n : Service!Refuse(s, n) = Refuse(s, n)
  /\ \A a, b, c, d : Service!Contents(a, b, c, d) = Contents(a, b, c, d)
<1>1. \A a, b, c, d : Service!Contents(a, b, c, d) = Contents(a, b, c, d)
  BY DEF Service!Contents, Contents
<1>2. \A a, b, c, d : Service!Result(a, b, c, d) = Result(a, b, c, d)
  BY DEF Service!Result, Result
<1>3. \A s, n : Service!Refuse(s, n) = Refuse(s, n)
  BY <1>2 DEF Service!Refuse, Refuse
<1>4. Service!EmptyStore = EmptyStore
  BY <1>1 DEF Service!EmptyStore, EmptyStore
<1>5. \A U, R, M : Service!Requests(U, R, M) = Requests(U, R, M)
  BY DEF Service!Requests, Requests
<1> QED
  BY <1>1, <1>2, <1>3, <1>4, <1>5


LEMMA SameHelpers ==
  /\ \A f, i, x : Service!Put(f, i, x) = Put(f, i, x)
  /\ \A f, i, x : Service!Update(f, i, x) = Update(f, i, x)
  /\ \A f, i : Service!Delete(f, i) = Delete(f, i)
  /\ \A s, r : Service!Members(s, r) = Members(s, r)
  /\ \A s, r : Service!Coordinator(s, r) = Coordinator(s, r)
  /\ \A s, u, r : Service!Both(s, u, r) <=> Both(s, u, r)
  /\ \A s, e : Service!Taken(s, e) = Taken(s, e)
  /\ \A s, r : Service!Deletable(s, r) <=> Deletable(s, r)
  /\ \A s, n : Service!NameTaken(s, n) <=> NameTaken(s, n)
  /\ \A s, u, r : Service!RelationWrites(s, u, r) = RelationWrites(s, u, r)
<1>1. \A f, i, x : Service!Put(f, i, x) = Put(f, i, x) /\ Service!Update(f, i, x) = Update(f, i, x)
  BY DEF Service!Put, Put, Service!Update, Update
<1>2. \A f, i : Service!Delete(f, i) = Delete(f, i)
  BY DEF Service!Delete, Delete, Service!Restrict, Restrict
<1>3. \A s, r : /\ Service!Members(s, r) = Members(s, r)
                /\ Service!Coordinator(s, r) = Coordinator(s, r)
                /\ Service!Deletable(s, r) <=> Deletable(s, r)
  BY DEF Service!Members, Members, Service!Coordinator, Coordinator, Service!Deletable, Deletable
<1>4. \A s, u, r : Service!Both(s, u, r) <=> Both(s, u, r)
  BY DEF Service!Both, Both
<1>5. \A s, e : Service!Taken(s, e) = Taken(s, e)
  BY DEF Service!Taken, Taken
<1>6. \A s, n : Service!NameTaken(s, n) <=> NameTaken(s, n)
  BY DEF Service!NameTaken, NameTaken
<1>7. \A s, u, r : Service!RelationWrites(s, u, r) = RelationWrites(s, u, r)
  BY <1>4 DEF Service!RelationWrites, RelationWrites
<1> QED
  BY <1>1, <1>2, <1>3, <1>4, <1>5, <1>6, <1>7

LEMMA SameRepository ==
  ASSUME NEW s, NEW u, NEW r, NEW m
  PROVE  /\ Service!addUserToChatRoom(s, u, r) = addUserToChatRoom(s, u, r)
         /\ Service!removeUserFromChatRoom(s, u, r) = removeUserFromChatRoom(s, u, r)
         /\ Service!createChatRoom(s, u) = createChatRoom(s, u)
         /\ Service!saveMessage(s, u, r) = saveMessage(s, u, r)
         /\ Service!addMessageToChatRoom(s, m, r) = addMessageToChatRoom(s, m, r)
         /\ Service!addJoinRequestToChatRoom(s, u, r) = addJoinRequestToChatRoom(s, u, r)
         /\ Service!removeJoinRequestFromChatRoom(s, u, r) = removeJoinRequestFromChatRoom(s, u, r)
         /\ Service!deleteChatRoomById(s, r) = deleteChatRoomById(s, r)
         /\ Service!deleteMessageById(s, m) = deleteMessageById(s, m)
<1> USE SameData, SameHelpers
<1>1. Service!addUserToChatRoom(s, u, r) = addUserToChatRoom(s, u, r)
  BY DEF Service!addUserToChatRoom, addUserToChatRoom
<1>2. Service!removeUserFromChatRoom(s, u, r) = removeUserFromChatRoom(s, u, r)
  BY DEF Service!removeUserFromChatRoom, removeUserFromChatRoom
<1>3. Service!createChatRoom(s, u) = createChatRoom(s, u)
  BY DEF Service!createChatRoom, createChatRoom
<1>4. Service!saveMessage(s, u, r) = saveMessage(s, u, r)
  BY DEF Service!saveMessage, saveMessage
<1>5. Service!addMessageToChatRoom(s, m, r) = addMessageToChatRoom(s, m, r)
  BY DEF Service!addMessageToChatRoom, addMessageToChatRoom
<1>6. Service!addJoinRequestToChatRoom(s, u, r) = addJoinRequestToChatRoom(s, u, r)
  BY DEF Service!addJoinRequestToChatRoom, addJoinRequestToChatRoom
<1>7. Service!removeJoinRequestFromChatRoom(s, u, r) = removeJoinRequestFromChatRoom(s, u, r)
  BY DEF Service!removeJoinRequestFromChatRoom, removeJoinRequestFromChatRoom
<1>8. Service!deleteChatRoomById(s, r) = deleteChatRoomById(s, r)
  BY DEF Service!deleteChatRoomById, deleteChatRoomById
<1>9. Service!deleteMessageById(s, m) = deleteMessageById(s, m)
  BY DEF Service!deleteMessageById, deleteMessageById
<1> QED
  BY <1>1, <1>2, <1>3, <1>4, <1>5, <1>6, <1>7, <1>8, <1>9

LEMMA SameHandlers ==
  ASSUME NEW s, NEW u, NEW r, NEW m, NEW name, NEW match
  PROVE  /\ Service!handleAuth(s, name, match) = handleAuth(s, name, match)
         /\ Service!handleCreateAccount(s, name) = handleCreateAccount(s, name)
         /\ Service!handleNewMessage(s, u, r) = handleNewMessage(s, u, r)
         /\ Service!handleNewChatRoom(s, u) = handleNewChatRoom(s, u)
         /\ Service!handleAddUser(s, u, r) = handleAddUser(s, u, r)
         /\ Service!handleRemoveUser(s, u, r) = handleRemoveUser(s, u, r)
         /\ Service!handleJoinRequest(s, u, r) = handleJoinRequest(s, u, r)
         /\ Service!handleDeleteRequest(s, u, r) = handleDeleteRequest(s, u, r)
         /\ Service!handleDeleteMessage(s, m) = handleDeleteMessage(s, m)
         /\ Service!handleDeleteChatRoom(s, r) = handleDeleteChatRoom(s, r)
<1> USE SameData, SameHelpers
<1>1. Service!handleAuth(s, name, match) = handleAuth(s, name, match)
  BY DEF Service!handleAuth, handleAuth
<1>2. Service!handleCreateAccount(s, name) = handleCreateAccount(s, name)
  BY DEF Service!handleCreateAccount, handleCreateAccount
<1>3. Service!handleNewMessage(s, u, r) = handleNewMessage(s, u, r)
  BY SameRepository DEF Service!handleNewMessage, handleNewMessage
<1>4. Service!handleNewChatRoom(s, u) = handleNewChatRoom(s, u)
  BY SameRepository DEF Service!handleNewChatRoom, handleNewChatRoom
<1>5. Service!handleAddUser(s, u, r) = handleAddUser(s, u, r)
  BY SameRepository DEF Service!handleAddUser, handleAddUser
<1>6. Service!handleRemoveUser(s, u, r) = handleRemoveUser(s, u, r)
  BY SameRepository DEF Service!handleRemoveUser, handleRemoveUser
<1>7. Service!handleJoinRequest(s, u, r) = handleJoinRequest(s, u, r)
  BY SameRepository DEF Service!handleJoinRequest, handleJoinRequest
<1>8. Service!handleDeleteRequest(s, u, r) = handleDeleteRequest(s, u, r)
  BY SameRepository DEF Service!handleDeleteRequest, handleDeleteRequest
<1>9. Service!handleDeleteMessage(s, m) = handleDeleteMessage(s, m)
  BY SameRepository DEF Service!handleDeleteMessage, handleDeleteMessage
<1>10. Service!handleDeleteChatRoom(s, r) = handleDeleteChatRoom(s, r)
  BY SameRepository DEF Service!handleDeleteChatRoom, handleDeleteChatRoom
<1> QED
  BY <1>1, <1>2, <1>3, <1>4, <1>5, <1>6, <1>7, <1>8, <1>9, <1>10

LEMMA SameRequests ==
  ASSUME NEW s, NEW req
  PROVE  Service!handleRequest(s, req) = handleRequest(s, req)
  BY SameData, SameHandlers DEF Service!handleRequest, handleRequest


-----------------------------------------------------------------------------
(***************************************************************************)
(* The refinement mapping                                                  *)
(***************************************************************************)
LEMMA StoreBetween ==
  ASSUME \A d \in Child : pc[d] # "working"
  PROVE  Store = Files
  BY DEF Store

LEMMA StoreAtWork ==
  ASSUME TypeOK, NEW c \in Child, pc[c] = "working"
  PROVE  Store = work[c].goal
<1>1. \A d \in Child : pc[d] = "working" <=> d = c
  BY DEF TypeOK
<1>2. (CHOOSE d \in Child : pc[d] = "working") = c
  BY <1>1
<1> QED
  BY <1>2 DEF Store

LEMMA CallOf ==
  ASSUME NEW c \in Child
  PROVE  /\ pc[c] = "idle" => Call[c] = [stage |-> "idle"]
         /\ pc[c] \in {"waiting", "locked"} => Call[c] = [stage |-> "pending", req |-> request[c]]
         /\ pc[c] = "working" => Call[c] = [stage |-> "done", req |-> request[c],
                                            reply |-> work[c].reply]
<1>1. Call[c] = CASE pc[c] = "idle" -> [stage |-> "idle"]
                  [] pc[c] \in {"waiting", "locked"} -> [stage |-> "pending", req |-> request[c]]
                  [] pc[c] = "working" -> [stage |-> "done", req |-> request[c],
                                           reply |-> work[c].reply]
  BY DEF Call
<1> QED
  BY <1>1

\* The same of the next state.
LEMMA NextCallOf ==
  ASSUME NEW c \in Child
  PROVE  /\ pc'[c] = "idle" => Call'[c] = [stage |-> "idle"]
         /\ pc'[c] \in {"waiting", "locked"} => Call'[c] = [stage |-> "pending", req |-> request'[c]]
         /\ pc'[c] = "working" => Call'[c] = [stage |-> "done", req |-> request'[c],
                                              reply |-> work'[c].reply]
<1>1. Call'[c] = CASE pc'[c] = "idle" -> [stage |-> "idle"]
                   [] pc'[c] \in {"waiting", "locked"} -> [stage |-> "pending", req |-> request'[c]]
                   [] pc'[c] = "working" -> [stage |-> "done", req |-> request'[c],
                                             reply |-> work'[c].reply]
  BY DEF Call
<1> QED
  BY <1>1

LEMMA CallsAreFunctions ==
  /\ DOMAIN Call = Child /\ DOMAIN Call' = Child
  /\ Call = [d \in Child |-> Call[d]] /\ Call' = [d \in Child |-> Call'[d]]
<1> DEFINE now(c) == CASE pc[c] = "idle" -> [stage |-> "idle"]
                       [] pc[c] \in {"waiting", "locked"} -> [stage |-> "pending", req |-> request[c]]
                       [] pc[c] = "working" -> [stage |-> "done", req |-> request[c],
                                                reply |-> work[c].reply]
           next(c) == CASE pc'[c] = "idle" -> [stage |-> "idle"]
                        [] pc'[c] \in {"waiting", "locked"} -> [stage |-> "pending", req |-> request'[c]]
                        [] pc'[c] = "working" -> [stage |-> "done", req |-> request'[c],
                                                  reply |-> work'[c].reply]
<1>1. Call = [c \in Child |-> now(c)] /\ Call' = [c \in Child |-> next(c)]
  BY DEF Call
<1> HIDE DEF now, next
<1> QED
  BY <1>1

\* A step that moves one child.
LEMMA OneCallMoves ==
  ASSUME NEW c \in Child, NEW x, Call'[c] = x,
         \A d \in Child : d # c => Call'[d] = Call[d]
  PROVE  Call' = [Call EXCEPT ![c] = x]
  BY CallsAreFunctions

LEMMA OtherCalls ==
  ASSUME NEW d \in Child, TypeOK, pc'[d] = pc[d], request'[d] = request[d],
         pc[d] = "working" => work'[d].reply = work[d].reply
  PROVE  Call'[d] = Call[d]
<1>1. pc[d] \in {"idle", "waiting", "locked", "working"}
  BY DEF TypeOK
<1> QED
  BY <1>1, CallOf, NextCallOf

LEMMA InitRefines == Init => Service!Init
<1> SUFFICES ASSUME Init PROVE Service!Init
  OBVIOUS
<1>1. /\ Files = EmptyStore
      /\ \A c \in Child : pc[c] = "idle"
  BY DEF Init, Files, EmptyStore, Contents
<1>2. Store = EmptyStore
  BY <1>1, StoreBetween
<1>3. Call = [c \in Child |-> [stage |-> "idle"]]
  BY <1>1, CallOf DEF Call
<1> QED
  BY <1>2, <1>3, SameData DEF Service!Init, Service!Idle

\* The ids a request names were taken from the index of the abstract store, too.
LEMMA IdsOfStore ==
  ASSUME CrashInv
  PROVE  /\ DOMAIN users \subseteq 1 .. Store.index.user - 1
         /\ 1 .. index.chatroom - 1 \subseteq 1 .. Store.index.chatroom - 1
         /\ 1 .. index.message - 1 \subseteq 1 .. Store.index.message - 1
<1>1. Steady(Files) /\ TypeOK
  BY FilesAreSteady DEF CrashInv, IInv
<1>2. /\ index \in IndexRec /\ DOMAIN users \subseteq Nat
      /\ 0 \notin DOMAIN users /\ \A u \in DOMAIN users : u < index.user
  BY <1>1, FilesOf, StoreTypes DEF Steady, IdsStartAtOne, IdsAreTaken, IsFile
<1>3. Store.index \in IndexRec /\ Advances(Files, Store)
  <2>1. CASE \A c \in Child : pc[c] # "working"
    <3>1. Store = Files
      BY <2>1, StoreBetween
    <3> QED
      BY <1>2, <3>1, FilesOf DEF Advances, IndexRec
  <2>2. ASSUME NEW c \in Child, pc[c] = "working"
        PROVE  Store.index \in IndexRec /\ Advances(Files, Store)
    <3>1. Store = work[c].goal
      BY <1>1, <2>2, StoreAtWork
    <3>2. IsStore(work[c].goal) /\ Advances(Files, work[c].goal)
      BY <1>1, <2>2 DEF TypeOK, IsResult, CrashInv, SteadyThroughout
    <3> QED
      BY <3>1, <3>2, StoreTypes
  <2> QED
    BY <2>1, <2>2
<1> QED
  BY <1>2, <1>3, FilesOf DEF Advances, IndexRec

-----------------------------------------------------------------------------
(***************************************************************************)
(* Every step is a step of ChatStore or leaves it alone.                   *)
(***************************************************************************)
LEMMA ReceiveRefines ==
  ASSUME CrashInv, CrashInv', NEW c \in Child, Receive(c)
  PROVE  Service!Submit(c)
<1>1. PICK req \in Requests(DOMAIN users, 1 .. index.chatroom - 1, 1 .. index.message - 1) :
        request' = [request EXCEPT ![c] = req]
  BY DEF Receive
<1>2. /\ pc[c] = "idle" /\ pc' = [pc EXCEPT ![c] = "waiting"]
      /\ Files' = Files /\ work' = work /\ TypeOK
  BY DEF Receive, files, Files, CrashInv, IInv
<1>3. /\ pc'[c] = "waiting" /\ request'[c] = req
      /\ \A d \in Child : d # c => pc'[d] = pc[d] /\ request'[d] = request[d]
  BY <1>1, <1>2 DEF TypeOK
<1>4. Call[c] = [stage |-> "idle"]
  BY <1>2, CallOf
<1>5. Call' = [Call EXCEPT ![c] = [stage |-> "pending", req |-> req]]
  <2>1. Call'[c] = [stage |-> "pending", req |-> req]
    BY <1>3, NextCallOf
  <2>2. \A d \in Child : d # c => Call'[d] = Call[d]
    BY <1>2, <1>3, OtherCalls
  <2> QED
    BY <2>1, <2>2, OneCallMoves
<1>6. Store' = Store
  <2>1. \A d \in Child : pc'[d] = "working" <=> pc[d] = "working"
    BY <1>2, <1>3
  <2> QED
    BY <1>2, <2>1 DEF Store
<1>7. req \in Requests(1 .. Store.index.user - 1, 1 .. Store.index.chatroom - 1,
                       1 .. Store.index.message - 1)
  BY IdsOfStore DEF Requests
<1> QED
  BY <1>4, <1>5, <1>6, <1>7, SameData DEF Service!Submit, Service!Idle, Service!Pending

LEMMA AcquireRefines ==
  ASSUME CrashInv, NEW c \in Child, AcquireDatabaseLock(c)
  PROVE  Store' = Store /\ Call' = Call
<1>1. /\ pc[c] = "waiting" /\ pc' = [pc EXCEPT ![c] = "locked"]
      /\ Files' = Files /\ work' = work /\ request' = request /\ TypeOK
  BY DEF AcquireDatabaseLock, files, Files, CrashInv, IInv
<1>2. pc'[c] = "locked" /\ \A d \in Child : d # c => pc'[d] = pc[d]
  BY <1>1 DEF TypeOK
<1>3. Store' = Store
  <2>1. \A d \in Child : pc'[d] = "working" <=> pc[d] = "working"
    BY <1>1, <1>2
  <2> QED
    BY <1>1, <2>1 DEF Store
<1>4. \A d \in Child : d # c => Call'[d] = Call[d]
  BY <1>1, <1>2, OtherCalls
<1>5. Call'[c] = Call[c]
  <2>1. Call[c] = [stage |-> "pending", req |-> request[c]]
    BY <1>1, CallOf
  <2>2. Call'[c] = [stage |-> "pending", req |-> request[c]]
    BY <1>1, <1>2, NextCallOf
  <2> QED
    BY <2>1, <2>2
<1> QED
  BY <1>3, <1>4, <1>5, CallsAreFunctions

LEMMA LockFailsRefines ==
  ASSUME CrashInv, NEW c \in Child, LockFails(c)
  PROVE  Service!Leave(c)
<1>1. /\ pc[c] = "waiting" /\ pc' = [pc EXCEPT ![c] = "idle"]
      /\ request' = [request EXCEPT ![c] = None]
      /\ Files' = Files /\ work' = work /\ TypeOK
  BY DEF LockFails, files, Files, CrashInv, IInv
<1>2. /\ pc'[c] = "idle"
      /\ \A d \in Child : d # c => pc'[d] = pc[d] /\ request'[d] = request[d]
  BY <1>1 DEF TypeOK
<1>3. Store' = Store
  <2>1. \A d \in Child : pc'[d] = "working" <=> pc[d] = "working"
    BY <1>1, <1>2
  <2> QED
    BY <1>1, <2>1 DEF Store
<1>4. Call[c].stage = "pending"
  <2>1. Call[c] = [stage |-> "pending", req |-> request[c]]
    BY <1>1, CallOf
  <2> QED
    BY <2>1
<1>5. Call' = [Call EXCEPT ![c] = [stage |-> "idle"]]
  <2>1. Call'[c] = [stage |-> "idle"]
    BY <1>2, NextCallOf
  <2>2. \A d \in Child : d # c => Call'[d] = Call[d]
    BY <1>1, <1>2, OtherCalls
  <2> QED
    BY <2>1, <2>2, OneCallMoves
<1>6. Call[c] # [stage |-> "idle"]
  BY <1>4
<1> QED
  BY <1>3, <1>5, <1>6 DEF Service!Leave, Service!Idle

LEMMA HandleRequestRefines ==
  ASSUME CrashInv, CrashInv', NEW c \in Child, HandleRequest(c)
  PROVE  Service!Execute(c)
<1> DEFINE w == handleRequest(Files, request[c])
<1>1. /\ pc[c] = "locked" /\ pc' = [pc EXCEPT ![c] = "working"]
      /\ work' = [work EXCEPT ![c] = w]
      /\ Files' = Files /\ request' = request /\ TypeOK /\ TypeOK'
  BY DEF HandleRequest, files, Files, CrashInv, IInv
<1> HIDE DEF w
<1>2. /\ pc'[c] = "working" /\ work'[c] = w
      /\ \A d \in Child : d # c => pc'[d] = pc[d] /\ work'[d] = work[d]
  BY <1>1 DEF TypeOK
<1>3. \A d \in Child : pc[d] # "working"
  BY <1>1, OneHandler
<1>4. Store = Files
  BY <1>3, StoreBetween
<1>5. Store' = w.goal
  <2>1. \A d \in Child : pc'[d] = "working" <=> d = c
    BY <1>2, <1>3
  <2>2. (CHOOSE d \in Child : pc'[d] = "working") = c
    BY <2>1
  <2> QED
    BY <1>2, <2>2 DEF Store
<1>6. Call[c] = [stage |-> "pending", req |-> request[c]]
  BY <1>1, CallOf
<1>7. Call' = [Call EXCEPT ![c] = [stage |-> "done", req |-> request[c], reply |-> w.reply]]
  <2>1. Call'[c] = [stage |-> "done", req |-> request[c], reply |-> w.reply]
    BY <1>1, <1>2, NextCallOf
  <2>2. \A d \in Child : d # c => Call'[d] = Call[d]
    BY <1>1, <1>2, OtherCalls
  <2> QED
    BY <2>1, <2>2, OneCallMoves
<1>8. Call[c].stage = "pending" /\ Call[c].req = request[c]
  BY <1>6
<1>9. Service!handleRequest(Store, Call[c].req) = w
  BY <1>4, <1>8, SameRequests DEF w
<1> QED
  BY <1>5, <1>7, <1>8, <1>9 DEF Service!Execute, Service!Done

LEMMA WriteFileRefines ==
  ASSUME CrashInv, CrashInv', NEW c \in Child, WriteFile(c)
  PROVE  Store' = Store /\ Call' = Call
<1>1. /\ pc[c] = "working" /\ pc' = pc /\ request' = request /\ TypeOK
      /\ work'[c].goal = work[c].goal /\ work'[c].reply = work[c].reply
  BY StageAfterWrite DEF CrashInv, IInv
<1>2. \A d \in Child : d # c => work'[d] = work[d]
  BY <1>1 DEF WriteFile, TypeOK
<1>3. \A d \in Child : pc[d] = "working" <=> d = c
  BY <1>1, OneHandler
<1>4. Store' = Store
  <2>1. (CHOOSE d \in Child : pc'[d] = "working") = c
    BY <1>1, <1>3
  <2>2. Store' = work'[c].goal
    BY <1>1, <2>1 DEF Store
  <2> QED
    BY <1>1, <2>2, StoreAtWork
<1>5. \A d \in Child : Call'[d] = Call[d]
  BY <1>1, <1>2, OtherCalls
<1> QED
  BY <1>4, <1>5, CallsAreFunctions

LEMMA ExitRefines ==
  ASSUME CrashInv, NEW c \in Child, Exit(c)
  PROVE  Service!Leave(c)
<1>1. /\ pc[c] = "working" /\ work[c].order = << >>
      /\ pc' = [pc EXCEPT ![c] = "idle"] /\ request' = [request EXCEPT ![c] = None]
      /\ work' = [work EXCEPT ![c] = None]
      /\ Files' = Files /\ TypeOK
  BY DEF Exit, Gone, files, Files, CrashInv, IInv
<1>2. /\ pc'[c] = "idle"
      /\ \A d \in Child : d # c => /\ pc'[d] = pc[d] /\ request'[d] = request[d]
                                   /\ work'[d] = work[d] /\ pc[d] # "working"
  BY <1>1, OneHandler DEF TypeOK
<1>3. Store' = Store
  <2>1. Store = Files
    BY <1>1, StoreAtWork, NothingLeft DEF CrashInv, IInv
  <2>2. \A d \in Child : pc'[d] # "working"
    BY <1>2
  <2> QED
    BY <1>1, <2>1, <2>2 DEF Store
<1>4. Call[c].stage = "done"
  <2>1. Call[c] = [stage |-> "done", req |-> request[c], reply |-> work[c].reply]
    BY <1>1, CallOf
  <2> QED
    BY <2>1
<1>5. Call' = [Call EXCEPT ![c] = [stage |-> "idle"]]
  <2>1. Call'[c] = [stage |-> "idle"]
    BY <1>2, NextCallOf
  <2>2. \A d \in Child : d # c => Call'[d] = Call[d]
    BY <1>1, <1>2, OtherCalls
  <2> QED
    BY <2>1, <2>2, OneCallMoves
<1>6. Call[c] # [stage |-> "idle"]
  BY <1>4
<1> QED
  BY <1>3, <1>5, <1>6 DEF Service!Leave, Service!Idle

LEMMA StepRefines ==
  ASSUME CrashInv, CrashInv', [Next]_vars, crashes' = 0
  PROVE  [Service!Next]_(Service!vars)
<1>1. CASE UNCHANGED vars
  <2>1. Files' = Files /\ UNCHANGED <<pc, request, work>>
    BY <1>1 DEF vars, Files
  <2> QED
    BY <2>1 DEF Service!vars, Store, Call
<1>2. ASSUME NEW c \in Child, Receive(c) \/ Serve(c) \/ LockFails(c) \/ Crash(c)
      PROVE  [Service!Next]_(Service!vars)
  <2>1. ~Crash(c)
    BY DEF Crash, CrashInv, IInv, TypeOK
  <2>2. CASE Receive(c) \/ LockFails(c) \/ HandleRequest(c) \/ Exit(c)
    <3>1. Service!Submit(c) \/ Service!Execute(c) \/ Service!Leave(c)
      BY <2>2, ReceiveRefines, LockFailsRefines, HandleRequestRefines, ExitRefines
    <3> QED
      BY <3>1 DEF Service!Next
  <2>3. CASE AcquireDatabaseLock(c) \/ WriteFile(c)
    <3>1. Store' = Store /\ Call' = Call
      BY <2>3, AcquireRefines, WriteFileRefines
    <3> QED
      BY <3>1 DEF Service!vars
  <2> QED
    BY <1>2, <2>1, <2>2, <2>3 DEF Serve
<1> QED
  BY <1>1, <1>2 DEF Next

\* Until a child is killed, every request takes effect at one instant or not at all.
THEOREM Atomicity == Spec => ImplementsChatStore
<1>1. CrashInv /\ CrashInv' /\ [Next]_vars => [crashes' = 0 => [Service!Next]_(Service!vars)]_vars
  BY StepRefines
<1> QED
  BY <1>1, InitRefines, CrashInvariance, PTL DEF Spec, ImplementsChatStore

================================================================================
