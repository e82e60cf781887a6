------------------------------- MODULE Database -------------------------------
(***************************************************************************)
(* The database server, database/src/database_server.c.  The parent forks  *)
(* a child for every connection.  A child receives one request, waits for  *)
(* an exclusive fcntl lock, handles the request by rewriting files one     *)
(* after the other, answers and exits.  The kernel drops the lock of a     *)
(* process that dies, so a child that is killed between two writes leaves  *)
(* a request half done to the next one.                                    *)
(***************************************************************************)
EXTENDS Repository, FiniteSets

CONSTANTS Child,        \* children alive at the same time
          None,         \* no child, no request, no work
          MaxUsers,     \* bounds on the ids that are handed out
          MaxRooms,
          MaxMessages,
          MaxCrashes    \* bound on the children killed while they work

ASSUME DatabaseAssumption ==
  /\ None \notin Child
  /\ {MaxUsers, MaxRooms, MaxMessages, MaxCrashes} \subseteq Nat

VARIABLES users, chatRooms, messages, index,   \* the files
          lock,      \* the child that holds data/database.lock
          pc,        \* how far each child has come
          request,   \* the request it has received
          work,      \* what is left of its handler
          crashes    \* children killed so far

files == <<users, chatRooms, messages, index>>
vars == <<users, chatRooms, messages, index, lock, pc, request, work, crashes>>

\* What a child reads from the files.
Files == Contents(users, chatRooms, messages, index)

Init ==
  /\ users = EmptyStore.users
  /\ chatRooms = EmptyStore.chatRooms
  /\ messages = EmptyStore.messages
  /\ index = EmptyStore.index
  /\ lock = None
  /\ pc = [c \in Child |-> "idle"]
  /\ request = [c \in Child |-> None]
  /\ work = [c \in Child |-> None]
  /\ crashes = 0

\* Children that have yet to take an id for this type of request.
InFlight(type) == {c \in Child : pc[c] # "idle" /\ request[c].type = type}

WithinBounds(type) ==
  /\ type = "CREATE_ACCOUNT" =>
       index.user + Cardinality(InFlight(type)) <= MaxUsers
  /\ type = "NEW_CHATROOM" =>
       index.chatroom + Cardinality(InFlight(type)) <= MaxRooms
  /\ type = "NEW_MESSAGE" =>
       index.message + Cardinality(InFlight(type)) <= MaxMessages

\* The child of a new connection receives its request, before it asks for the
\* lock.  A client names registered users (they are never deleted), and rooms
\* and messages whose ids have been handed out (they may be deleted by now).
\* User 0, who is nobody, of send_system_message is left out.
Receive(c) ==
  /\ pc[c] = "idle"
  /\ \E req \in Requests(DOMAIN users, 1 .. index.chatroom - 1,
                         1 .. index.message - 1) :
       /\ WithinBounds(req.type)
       /\ request' = [request EXCEPT ![c] = req]
  /\ pc' = [pc EXCEPT ![c] = "waiting"]
  /\ UNCHANGED <<files, lock, work, crashes>>

\* Mutant: the lock is shared.
AcquireSharedLock(c) ==
  /\ pc[c] = "waiting"
  /\ lock' = c
  /\ pc' = [pc EXCEPT ![c] = "locked"]
  /\ UNCHANGED <<files, request, work, crashes>>

AcquireDatabaseLock(c) ==
  /\ pc[c] = "waiting"
  /\ lock = None
  /\ lock' = c
  /\ pc' = [pc EXCEPT ![c] = "locked"]
  /\ UNCHANGED <<files, request, work, crashes>>

\* The lock file does not open, or fcntl fails: exit without handling.
LockFails(c) ==
  /\ pc[c] = "waiting"
  /\ pc' = [pc EXCEPT ![c] = "idle"]
  /\ request' = [request EXCEPT ![c] = None]
  /\ UNCHANGED <<files, lock, work, crashes>>

\* The handler reads the files and decides on its writes and its reply.
HandleRequest(c) ==
  /\ pc[c] = "locked"
  /\ work' = [work EXCEPT ![c] = handleRequest(Files, request[c])]
  /\ pc' = [pc EXCEPT ![c] = "working"]
  /\ UNCHANGED <<files, lock, request, crashes>>

\* One writeFile: the next file of the handler gets its new content.
WriteFile(c) ==
  /\ pc[c] = "working"
  /\ work[c].order # << >>
  /\ LET file == Head(work[c].order)
         goal == work[c].goal
         left == [work[c] EXCEPT !.order = Tail(@)]
     IN /\ work' = [work EXCEPT ![c] = left]
        /\ users' = IF file = "users" THEN goal.users ELSE users
        /\ chatRooms' = IF file = "chatRooms" THEN goal.chatRooms ELSE chatRooms
        /\ messages' = IF file = "messages" THEN goal.messages ELSE messages
        /\ index' = IF file = "index" THEN goal.index ELSE index
  /\ UNCHANGED <<lock, pc, request, crashes>>

\* Mutant: the lock outlives its process.
GoneButLocked(c) ==
  /\ pc' = [pc EXCEPT ![c] = "idle"]
  /\ request' = [request EXCEPT ![c] = None]
  /\ work' = [work EXCEPT ![c] = None]
  /\ UNCHANGED <<files, lock>>

\* The process is gone, and with it its hold on the lock.
Gone(c) ==
  /\ pc' = [pc EXCEPT ![c] = "idle"]
  /\ request' = [request EXCEPT ![c] = None]
  /\ work' = [work EXCEPT ![c] = None]
  /\ lock' = IF lock = c THEN None ELSE lock
  /\ UNCHANGED files

\* Mutant: the child answers before its last write.
ExitEarly(c) ==
  /\ pc[c] = "working"
  /\ Gone(c)
  /\ UNCHANGED crashes

\* Every write is done: the child answers, unlocks and exits.  A reply that is
\* lost (the client hung up, SIGPIPE) or never sent (a null room) ends it alike.
Exit(c) ==
  /\ pc[c] = "working"
  /\ work[c].order = << >>
  /\ Gone(c)
  /\ UNCHANGED crashes

\* The child is killed: Ctrl-C reaches the whole process group of the server.
Crash(c) ==
  /\ crashes < MaxCrashes
  /\ pc[c] \in {"locked", "working"}
  /\ Gone(c)
  /\ crashes' = crashes + 1

Serve(c) == AcquireDatabaseLock(c) \/ HandleRequest(c) \/ WriteFile(c) \/ Exit(c)

Next == \E c \in Child : Receive(c) \/ Serve(c) \/ LockFails(c) \/ Crash(c)

Spec == Init /\ [][Next]_vars

\* A child that can run does run.
FairSpec == Spec /\ \A c \in Child : WF_vars(Serve(c))

-----------------------------------------------------------------------------
(***************************************************************************)
(* Invariants                                                              *)
(***************************************************************************)
\* The files hold arrays of the records the code writes, a child that holds the
\* lock is the one past fcntl, and only such a child has a handler to finish.
TypeOK ==
  /\ IsStore(Files)
  /\ lock \in Child \cup {None}
  /\ pc \in [Child -> {"idle", "waiting", "locked", "working"}]
  /\ request = [c \in Child |-> request[c]]
  /\ work = [c \in Child |-> work[c]]
  /\ \A c \in Child :
       /\ pc[c] # "idle" => request[c] \in Requests(Nat, Nat, Nat)
       /\ pc[c] = "working" => IsResult(work[c])
       /\ pc[c] \in {"locked", "working"} <=> lock = c
  /\ crashes \in Nat

\* As long as no child was killed, a handler (AUTH, which answers with the whole
\* store, included) starts from files that agree: users and rooms list each
\* other, rooms list exactly their stored messages.  The lock and the order of
\* the writes are all that keeps a half-done request from being read.
HandlersReadConsistentFiles ==
  \A c \in Child :
    pc[c] = "locked" /\ crashes = 0 =>
      /\ MembershipAgrees(Files)
      /\ ListedMessagesExist(Files)
      /\ StoredMessagesAreListed(Files)

\* A request that waits names what exists: users are never deleted and room ids
\* never handed out twice, so receiving it before the lock does no harm.
RequestsStayValid ==
  \A c \in Child : pc[c] # "idle" =>
    /\ request[c].type = "NEW_CHATROOM" => request[c].userId \in DOMAIN users
    /\ request[c].type = "NEW_MESSAGE" => request[c].chatRoomId < index.chatroom

\* What a handler has yet to write is all that separates the files from its goal.
WorkIsCovered ==
  \A c \in Child : pc[c] = "working" => Covers(Files, work[c].goal, work[c].order)

\* Until a child is killed, the files are sound whenever no handler is half done,
\* and a handler that is will leave them sound.
SoundBetweenHandlers ==
  crashes = 0 =>
    /\ \A c \in Child : pc[c] = "working" => Sound(work[c].goal)
    /\ (\A c \in Child : pc[c] # "working") => Sound(Files)

\* The inductive invariant behind TypeOK and HandlersReadConsistentFiles.
IInv == TypeOK /\ RequestsStayValid /\ WorkIsCovered /\ SoundBetweenHandlers

\* Whatever is killed and when, no room lists a message that is not stored:
\* saveMessage writes msg.json before the room, deleteMessageById after it.
NoDanglingMessage == ListedMessagesExist(Files)

\* Nobody is a member of a room and waits for admission to it.
RequestersAreNotMembers == RequestersAreOutside(Files)

\* registerUser refuses a name it finds, and two children that register the
\* same name are serialized by the lock.
NamesAreUnique == NamesDiffer(Files)

\* Every id in the files was taken from index.txt, which was rewritten first:
\* an id is never handed out twice, not even after a crash.
IdsWereTaken == IdsAreTaken(Files)

\* A pair is damaged when the user lists the room and the room not the user, or
\* the other way round.
Damaged(s) ==
  {p \in (DOMAIN s.users) \X (1 .. MaxRooms) :
     UserLists(s, p[1], p[2]) # RoomLists(s, p[1], p[2])}

\* A killed child damages the membership of one user in one room at most, and
\* no later request spreads the damage.
DamagePerCrash == lock = None => Cardinality(Damaged(Files)) <= crashes

\* What a successful answer says is in the files when it is sent, whatever was
\* left half done before: repeating ADD_USER or REMOVE_USER repairs the pair.
AnswersAreTrue ==
  \A c \in Child :
    pc[c] = "working" /\ work[c].order = << >> /\ work[c].reply.outcome = "ok" =>
      LET req == request[c]
          u == req.userId
          r == req.chatRoomId
          m == req.messageId
      IN CASE req.type = "ADD_USER" -> UserLists(Files, u, r) /\ RoomLists(Files, u, r)
           [] req.type = "REMOVE_USER" -> ~UserLists(Files, u, r) /\ ~RoomLists(Files, u, r)
           [] req.type = "DELETE_MESSAGE" ->
                /\ m \notin DOMAIN messages
                /\ \A x \in DOMAIN chatRooms : m \notin chatRooms[x].messageIds
           [] req.type = "DELETE_CHATROOM" -> r \notin DOMAIN chatRooms
           [] OTHER -> TRUE

-----------------------------------------------------------------------------
(***************************************************************************)
(* Action properties                                                       *)
(***************************************************************************)
\* A new room is not one that a message or a user already names: the messages
\* that DELETE_CHATROOM leaves in msg.json never turn up in a later room.
NewRoomsAreFresh ==
  [][\A r \in DOMAIN chatRooms' \ DOMAIN chatRooms :
       /\ \A m \in DOMAIN messages : messages[m].chatRoomId # r
       /\ \A u \in DOMAIN users : r \notin users[u].chatRoomIds]_vars

-----------------------------------------------------------------------------
(***************************************************************************)
(* Liveness                                                                *)
(***************************************************************************)
Arrival == \E c \in Child : pc[c] = "idle" /\ pc'[c] = "waiting"

\* Once requests stop arriving, every child ends: nobody waits forever for a lock
\* that nobody holds.
RequestsDrain == []<><<Arrival>>_vars \/ []<>(\A c \in Child : pc[c] = "idle")

-----------------------------------------------------------------------------
(***************************************************************************)
(* The server implements the atomic store.  A request takes effect when    *)
(* its handler has read the files; from then on the store is the one the   *)
(* handler is about to leave.                                              *)
(***************************************************************************)
Store == IF \E c \in Child : pc[c] = "working"
         THEN work[CHOOSE c \in Child : pc[c] = "working"].goal
         ELSE Files

Call == [c \in Child |->
           CASE pc[c] = "idle" -> [stage |-> "idle"]
             [] pc[c] \in {"waiting", "locked"} -> [stage |-> "pending", req |-> request[c]]
             [] pc[c] = "working" -> [stage |-> "done", req |-> request[c],
                                      reply |-> work[c].reply]]

Service == INSTANCE ChatStore WITH store <- Store, call <- Call

\* Until a child is killed, every request is atomic.
ImplementsChatStore ==
  Service!Init /\ [][crashes' = 0 => [Service!Next]_(Service!vars)]_vars

-----------------------------------------------------------------------------
(***************************************************************************)
(* What the repository says and the code does not do                       *)
(***************************************************************************)
\* "recv -> handleRequest -> response": a handler that has run to its end has
\* an answer to send.
EveryHandlerAnswers ==
  \A c \in Child : pc[c] = "working" /\ work[c].order = << >> =>
    work[c].reply.outcome # "segv"

\* The answer to ADD_USER notifies all the members the room has by then.
AddUserNotifiesMembers ==
  \A c \in Child :
    pc[c] = "working" /\ request[c].type = "ADD_USER" /\ work[c].reply.outcome = "ok" =>
      Members(work[c].goal, request[c].chatRoomId) \subseteq work[c].reply.notify

===============================================================================
