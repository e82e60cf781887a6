# Verification of the E-Lobby chat system

TLA+ models, TLC runs and TLAPS proofs for the distributed chat of this repository:
a database server that keeps JSON files, chat servers that fork a process per client,
a load balancer, Redis between the chat servers, and desktop and web clients.
Paths below are relative to the root of the repository.

    cd tla
    tlc -workers 2 -config MCDatabase_crash.cfg MCDatabase      # one run
    tlapm Database_proofs.tla                                    # the proofs

`PROJECT.json` lists the runs with their properties, a mutation of the model that breaks
each property, the lines of code every definition models, the hazards of the code, and
the findings.

## 1. Inventory

### The parts and how they interact

    desktop client --(TCP 4000: which server?)--> load balancer <--(UDP: connect,
         |                                             |            disconnect, heartbeat)--+
         |                                             +--(TCP probes every 10 s)----------> |
         +--(TCP 5000: requests, answers; UDP: events)------------------------> chat server  |
    browser --(socket.io)--> web gateway --(TCP, UDP as a desktop client)-----> chat server -+
                                                                                  |      |
                      database server <--(TCP, one connection per request)--------+      |
                                               Redis <--(SADD, HSET, PUBLISH, SUBSCRIBE)--+

| Part | State | Operations | Hard about it |
|---|---|---|---|
| **Database server** `database/src` | `users.json`, `chatRooms.json`, `msg.json`, `index.txt`; an fcntl lock | eleven requests (AUTH, CREATE_ACCOUNT, NEW_MESSAGE, NEW_CHATROOM, ADD_USER, REMOVE_USER, REQUEST / JOIN_REQUEST, DELETE_REQUEST, DELETE_MESSAGE, DELETE_CHATROOM, and unknown types, which are refused) | a child per connection; each request rewrites up to three whole files; a child may be killed between two of them |
| **Chat server, sessions** `chatServerJson.c` | a table of users in shared memory; per child the user it serves; `online_user_ids` and `online_users:<id>` in Redis | login, logout, notification of who is there | several servers share Redis; children die of SIGPIPE; a user logs in twice |
| **Chat server, events** `chatServerJson.c` | none of its own | each answer that changed something goes out by TCP, by UDP and through Redis, and comes back from Redis to be sent by UDP again | four copies, no order, no acknowledgement |
| **Load balancer** `loadBalancer/loadBalancer.c` | a table of servers: alive, connections | pick, health checks, reports | reports are datagrams; probes run outside the mutex |
| **Desktop client, network** `frontend_desktop/network/networkClient.py` | dictionaries of rooms, messages, users; a socket, a flag and a buffer | one handler per event, a synchronisation at login | two threads run the same handlers without a lock; threads of connections that were given up stay |
| **Desktop client, window** `AppController.py`, `gui/app.py` | the window that is shown, the room and the chat on it, rooms with a request under way | login, registration; the lobby with its sidebar, dialogs and panels; a callback per event | draws from dictionaries that other threads change; dialogs run callbacks while they wait |
| **Desktop client, store** `local_DB.py` | three lists and three dictionaries of the same objects | one function per line of the server | an object that is replaced in one of them; the application uses `openChat` only |
| **Web gateway** `frontend_web/web_server.py`, `protocol.py` | per browser a socket, rooms, messages, users, lines seen | the same events, forwarded to browsers | filters for duplicates that compare lines; one UDP socket for all browsers |
| **Browser** `static/main.js` | the list of rooms, the room that is active, the screen | a handler per event of the gateway, clicks | answers and events overtake each other |
| **hiredis** `hiredis/hiredis.c`, `read.c`, `net.c`, `sds.c` | buffers, the stack of a reply that is read; a context with its descriptor; strings with their headers | commands by format, replies from a stream; connect, free; append, grow, cut | pieces that end anywhere; every call of the system may fail; sizes that overflow, header fields of one byte |
| **cJSON** `database/libs/cJSON.c`, `loadBalancer/cJSON.c` (the same file twice) | values as nodes linked both ways; a print buffer, a text that is read | make, add, detach, replace, delete; print, parse | lists without a tail pointer; a buffer that grows while it is written; texts that are cut anywhere |
| **Caesar cipher** | - | - | a pure function |

What makes each part correct, in a sentence:

- *Database server*: a request is atomic for all others; memberships agree between users
  and rooms; rooms list exactly the messages that are stored; ids are never used twice;
  what a kill can damage is bounded, and the answers stay true.
- *Sessions*: a user who is connected is online and reachable, one who is not is forgotten;
  of two users who log in at the same time one hears of the other.
- *Load balancer*: the table follows the servers, whatever reports get lost.
- *Clients*: what is kept is what the database has, once things have calmed down, and no
  message is kept twice; the users who are shown online are those who are.
- *Windows*: the lobby, the page and their dialogs fit the rooms they show; a request of the
  user has an outcome; what is typed goes to the chat on the screen.
- *Redis connection*: a command is what its caller meant, a reply is whole, in order, and
  does not wait unread; a context without error is connected, and who is done keeps nothing.
- *JSON*: a value holds what was put into it, and is the same after it was printed and parsed;
  what memory was taken is given back, whatever fails.

### Observations on the code

These shaped the models and have no property of their own.

- `database_server.c:30-31` says the lock protects "recv -> handleRequest -> response". The
  request is received before the lock is taken (`:97-135`), so that it may name a room that
  is gone by the time it is handled. `RequestsStayValid` says what such a request can
  still rely on.
- The files shipped under `database/data` hold damage of the kind the model predicts for
  killed children: rooms 16 and 17 list user 11, who lists no room; messages 34 to 40 name
  room 15, which was deleted; id 12 was taken for a user who does not exist.
- The coordinator of a room can be removed from it; the room can then not be deleted, since
  deletion asks for the coordinator as its only member, and desktop clients go on showing
  the coordinator as a member (`_normalize_room`).
- A line of a room sets `unreadCount` of `local_DB.py` to 0, while the comment at `:230` says
  it is kept; deleting an unread message does not lower it; `deleteRequest` is never reached
  with the lines the database sends. Nothing in the application reads the counter.
- A REQUEST of a member is granted by the database and changes nothing: the browser shows a
  request under way for good, and the desktop client marks the room as pending.
- The browser has no handler for `message_deleted`, and `handle_disconnect` of the gateway
  takes the socket out of its table before it sends LOGOUT, which so is never sent.
- `frontend_web/PROTOCOL.md` describes a protocol the code no longer speaks.

## 2. The modules

| Module | Models | EXTENDS / INSTANCE |
|---|---|---|
| `Repository` | the files as a value, and each request as a function from files to files with its writes, in order, and its answer | |
| `ChatStore` | the abstract server: a store on which requests are atomic | Repository |
| `Database` | children, the lock, one write at a time, kills | Repository; ChatStore by refinement |
| `Repository_proofs` | every request takes a sound store to a sound store | Repository, TLAPS |
| `Database_proofs` | types, the inductive invariant, consistent reads; what survives kills, what they can damage, true answers; until a child is killed, `Database` implements `ChatStore` | Database, Repository_proofs, BoundedSets |
| `Presence_proofs` | all safety properties of `Presence` | Presence, BoundedSets |
| `BoundedSets` | "at most n members" for sets that grow, shrink and are mapped | FiniteSetTheorems, TLAPS |
| `LoadBalancer` | the balancer with its threads and children, and the servers as far as it sees them | |
| `Presence` | sessions on several chat servers, their tables, Redis | |
| `ChatEvents` | requests as clients hear of them: the change, and its copies over TCP, UDP and Redis | |
| `NetworkClient` | rooms, requests and messages of a desktop client | ChatEvents |
| `WebGateway` | the dispatcher of the web gateway with its two filters | ChatEvents |
| `Browser` | the page, between the gateway and the clicks | WebGateway |
| `OnlineUsers` | users come and go; who is shown online by a desktop client or by a browser | |
| `DesktopSession` | from the login window to the lobby: attempts, connections, threads | |
| `LobbyWindow` | the lobby of the desktop client | |
| `LocalDB` | the in-memory store of the desktop prototype, against a database | |
| `RedisReader` | commands and replies of hiredis between a chat server and Redis | |
| `RedisConnection` | how the chat server gets a connection to Redis, call by call, and gives it back | |
| `SdsString` | a string of hiredis: header, room, block, the arithmetic of their sizes | |
| `JsonTree` | values of cJSON in memory | |
| `JsonText` | values of cJSON as they are printed and parsed | |
| `Client_proofs` | the lobby and the session of a desktop client, whatever is put off or left over | DesktopSession, LobbyWindow, FiniteSetTheorems, TLAPS |
| `Replica_proofs` | the replica of a desktop client converges; what its threads can damage is bounded | NetworkClient, BoundedSets |
| `Online_proofs` | who is shown as online, to any number of clients | OnlineUsers, TLAPS |
| `Library_proofs` | the safety properties of `RedisConnection` and `SdsString` | those two, TLAPS |
| `MCParts` | nine of the above from `OnlineUsers` on, one of which moves in each behaviour | those nine |
| `MC*` | small instances for TLC | the module they are named for |

### Repository, ChatStore and Database

A *store* is the content of the four files: functions from ids to records for the JSON
arrays, sets for the integer lists that the code guards with `containsInt`. Names stand for
the credentials they come with; passwords, nicknames and texts decide nothing here.
`handleRequest` maps a store and a request to `goal` (the store it leaves), `order` (the
files it rewrites, in the order of the `writeFile` calls) and `reply` (outcome, and the
users to notify). Where the code has a defensive branch ("the room is missing", "the user
is not in the room"), the function has it as well, since after a kill it is taken.

`Database` has the variables `users`, `chatRooms`, `messages`, `index` (the files), `lock`,
and per child `pc`, `request` and `work` (what is left of `order`). Its actions are
`Receive` (accept, fork, recv), `AcquireDatabaseLock` and `LockFails`, `HandleRequest` (the
reads), `WriteFile` (one write), `Exit` and `Crash`. A child does all its reads in one step:
it holds the lock, and what it reads in between is what it has just written itself. `Crash`
is Ctrl-C, which reaches the whole process group: the kernel frees the lock of a process
that dies. TLC checks what that step assumes, that nobody else is past the lock.

`ChatStore` is what the chat servers rely on: `Submit`, `Execute` (the whole request at
once), `Leave`. `Database` implements it under the mapping `Store` (the goal of the handler
at work, if there is one, the files otherwise) as long as nobody is killed.

### LoadBalancer

`connections` and `alive` are the fields of the table; one critical section of the mutex is
one action. `main` holds the mutex during its whole first check, modelled by `checked`;
`health_thread` gathers `results` without it (`Probe`) and writes them later
(`WriteResults`). A client goes through `Accept`, `pick_server`, `Redirect` (two critical
sections in the code), `Enter`, `ReportConnect`, `ReportDisconnect`, `Unregister`. Reports
are a bag of datagrams that can be lost, doubled and overtaken. `heartbeat_thread` counts
(`CountUsers`) and sends later (`SendHeartbeat`).

### Presence

Per server the table `users` (slots of a user and the address of a session), in Redis
`online` and `profiles`, and per child its `stage`, from `Authenticate` through
`shm_register_user`, `Add`, `SetProfile`, `ReadMembers`, `ReadProfiles` to the session, and
back through `Disconnect`, `Remove`, `DeleteProfile`, `shm_unregister_user`. Each Redis
command is an action, and each may fail, and with it those after it on the same connection
(`NotAdded`, `NotNotified`, `NotRemoved`). `Killed` is SIGPIPE in `send_line`; `Restart` is a server
stopped by Ctrl-C and started again. `MayOverlap` says whether a user may log in while an
older session is still being served.

### ChatEvents, NetworkClient, WebGateway and Browser

`ChatEvents` is the database and the chat servers as a client hears of them. A request that
is granted (`NewRoom`, `AddUser`, `Request`, `DeleteRequest`, `RemoveUser`, `DeleteRoom`,
`NewMessage`, `DeleteMessage`) changes `db`, and `on_data_change` puts its event, with the
content of the answer, on up to three paths: `tcp` (first in first out, only to the client
that asked), `direct` (datagrams of the server that had the answer) and `relay` (datagrams
sent for what Redis published). `handleAuth` puts a snapshot on `tcp`; datagrams go to
clients that `shm_register_user` has entered since.

`NetworkClient` has `rooms`, `messages`, `syncing`, and per thread where it is in a handler:
`_append_message_once` and `_on_delete_message_response` are split at the points where
another thread can do harm, the other handlers are one step. An exception (`pop` out of
range, a dictionary that changes while it is gone through) ends the thread; the UDP thread
goes on for as many datagrams as it likes when the TCP thread has ended. `kept` and the
counters are history. `messageIds`, which nothing reads, is left out.

`WebGateway` has a `gateway` state per browser, changed by `dispatch` for each line: `_is_dup`
with its set `seen`, which is emptied when it is full (`SeenLimit`), then the handler of the
line. `udp_listener` has `udpSeen` before that, for all browsers. `emits` is what goes to
the page. `Browser` has per page the list of rooms, `activeRoom`, the screen, and the
calls that go back (`join_chat_view`); `Receive` handles an event, `Click` selects a room.

### OnlineUsers

A person comes (`Come`, `redis_user_online`, `udp_broadcast_all`, `publish`) and leaves in as
many steps; a viewer logs in, step by step as `atender_cliente` does it: the database is
asked, each of its lines gets a flag (`forward_db_line`, from the table and Redis of that
moment), the viewer enters the table, and `notify_existing_online_users` sends a line for
each member of the set. Lines come in order, datagrams do not. `web` says which kind of
client: `DesktopShows`, or `BrowserShows` behind `_is_dup` and `_is_duplicate_udp`.
`stale` and `slipped` name the users of whom the code may show something old, and why: an
event came after a later one or ahead of SYNC_END, or was dropped although it was news; the
user left during the login. `last` counts events that were dropped as well: with two browsers,
the gateway may drop the second copy of an event for one of them, read an old copy after it,
and show that.

### DesktopSession and LobbyWindow

`DesktopSession` has the controller (`page`, `boxes` that wait for a button, `lobby`), the
network client as far as connections go (`connected`, `socket`, `buf`), a listening thread
and a child per connection, and `callbacks`, the queue of `root.after`. `_listen_loop` is
split at what another thread can interrupt: the test of `connected`, the look at `socket`,
`recv`, the two halves of `_buf += ...`, the split of a line.

One `try` encloses all of that, and any exception ends the thread and switches `connected`
off (`networkClient.py:427-432`). `Eof` is a closed or reset connection, or a socket that was
never connected; `Undecodable` is a `recv` that ends inside a character of a name, so that
`decode` raises, or that begins inside one; `Raise` is a handler that raises, after its line
has left the buffer. `_send` may find the connection closed as well. `RecvPiece` takes the
first part of a line: it waits at the end of the buffer (`half`), and bytes of another
connection that come behind it spoil both lines (`spoiled`, which the JSON parser refuses).
`CutAnswer` is an answer to a login that `db_request` cut at a full buffer, so that SYNC_END
does not come. `lost` remembers that a thread has lost its connection in one of these ways,
or that an answer was cut; `races` that bytes of several connections, or writes of several
threads, met in the buffer; `hurried` that the user sent a request before the last one had
its outcome.

`LobbyWindow` has `rooms`, `messages` of the network client with the place in memory of each
dictionary, `rows` (the sidebar as it was drawn, with the dictionary each row holds), `view`
(what the main panel shows), `modal` (the dialog or panel that is open), `toasts`,
`pending_rooms`, and `tasks`, the callbacks that have not run. An event changes the
dictionaries at once and appends its callback if `_should_notify_ui` lets it.

### LocalDB and RedisReader

`LocalDB` has the store as a value: objects at places, lists and dictionaries of places, so
that a change of an object is seen through both. Each function of `local_DB.py` is an
operator on it, and `applyServerJson` chooses one by the type of the line. The lines come
from `DatabaseChanges`.

`RedisReader` has `redisvFormatCommand` as a fold over the characters of a format, the reader
(`input`, `pos`, the stack `task`, the reply built so far) with one step per item, and
`redisGetReply` as it goes from the buffer to `redisBufferWrite`, `redisBufferRead` and back.
Bytes are single characters and tokens for CR and LF; `recv` takes any part of what has come.
Redis itself and the memory of a reply (items by their place in the tree) are external.

### RedisConnection, SdsString, JsonTree and JsonText

`RedisConnection` is `redisConnect` for a blocking connection: `doing` names the next call,
each of which has an outcome of its own when it fails, and `owned`, `opened` and `fd` are
what the context holds by then. `Fails`, `redisCommand` and `Finish` are the callers in
`chatServerJson.c`: a child that connects for one occasion, or the subscriber.

`SdsString` has one string, `str`, as its header and the bytes of its block, and `wanted`,
the length its callers have given it. `Size` and `Field` cut numbers to the width of
`size_t` and of the fields of the header, which differ by type.

`JsonTree` has the `heap` of nodes with their pointers, and as history `items` and `held`,
which say what callers have put where. `JsonText` prints a value and parses what it has
printed, or parses a text of `Texts`: `printing` and `parsing` say what and with how much
memory, `printed` and `parsed` what came of it. Each function of cJSON is an operator, from a
buffer to a buffer or from a position to a position. Samples in `MCParts` are cut off or
changed in any one place.

## 3. The runs

| Run | Instance | Checks |
|---|---|---|
| `db_crash` | 2 children, 2 users, 1 room, 2 messages, 2 kills | `HandlersReadConsistentFiles`, `NoDanglingMessage`, `RequestersAreNotMembers`, `NamesAreUnique`, `IdsWereTaken`, `DamagePerCrash`, `AnswersAreTrue`, `ImplementsChatStore` |
| `db_rooms` | 2 children, 1 user, 2 rooms, 1 message, 1 kill, fairness | `NewRoomsAreFresh`, `RequestsDrain` |
| `db_answers` | a room deleted under a message | violates `EveryHandlerAnswers` |
| `db_notify` | 3 users in a room | violates `AddUserNotifiesMembers` |
| `lb_table` | 2 servers, 1 client, 2 reports per server under way, 1 trouble, fairness | `LoadConverges`, `AliveFollowsUp` |
| `lb_ports` | 2 servers with the same UDP port | violates `ReportsRaiseTheirOwnServer` |
| `presence` | 2 servers, 3 users, 2 children, tables of 2 slots, 2 troubles (overlapping logins, kills, failures), fairness | `OneSlotPerUser`, `ActiveUsersAreOnline`, `ActiveUsersAreReachable`, `NobodyIsMissed`, `GhostsPerTrouble`, `SessionsEnd` |
| `presence_reconnect` | 1 user, 2 children | violates `ReconnectedUsersAreRegistered` |
| `client_replica` | 1 room, 2 messages, 2 users, 3 events, 1 trouble or interruption | `DamagePerInterruption`, `ReplicaConverges` |
| `client_once` | 1 message | violates `MessagesAreAddedOnce` |
| `web` | 1 browser, 2 rooms, 2 messages, 2 users, 2 events, 1 click, filters of 5 lines | `GatewayFollows`, `ChatShowsItsRoom`, `TypingGoesToTheChat`, `MyRoomsAreListed` |
| `parts`, session | 2 attempts, 1 connection closed by its server; reads that end anywhere, handlers that raise, answers that are cut | `LobbyUsesItsSession`, `RequestsHaveOutcomes` |
| `parts`, online | 1 person with 2 moves, 1 viewer of either kind, 2 servers | `OnlineUsersAreShown` |
| `parts`, lobby | 2 rooms, one of them coordinated by the user, 3 events | `MyRoomsAreListed`, `ViewsFitTheRoom`, `HistoryIsShown`, `PendingIsTrue` |
| `parts`, redis | 2 commands, 5 replies, 2 of them in a row, a buffer cut at 5 bytes | `CommandsArriveAsMeant`, `RepliesAnswerCommands`, `NoReplyWaits` |
| `parts`, local | 2 rooms, 2 users, 3 messages, 4 changes | `ListsAndDictionariesAgree`, `StoreFollows` |
| `parts`, tree | 4 nodes | `ListsHoldTheirItems` |
| `parts`, text | 27 values, 5 texts with a change anywhere, 2 levels, buffers of 3 bytes that double, `INT_MAX` 30, memory for any number of blocks | `TextsKeepTheirValues` |
| `parts`, string | `SIZE_MAX` 17, headers of 1 and 2 bytes whose fields end at 1, 3, 5, 8 and 17 | `StringsFit` |
| `parts`, connection | 2 addresses | `ConnectionsWorkOrAreGivenBack` |

`parts` is one run of nine modules that share no state. One of them moves in each behaviour,
so that the states add up instead of multiplying.

### What they show

**Database.** Until the first kill the server is a store on which requests are atomic: the
run checks the refinement up to that point, and `HandlersReadConsistentFiles` says what its handlers see. With
kills it is not, and the run says what is left of it: no room ever lists a message that is
not stored, nobody is member and requester at once, the names of accounts stay unique (those of
rooms the code does not compare), ids are never handed
out again, at most one pair of user and room disagrees per kill, and an answer of success
is true, since ADD_USER and REMOVE_USER repair the pair they are about. Two children
are enough for one to meet what the other left; kills between any two writes are reached
with one, and the second shows that damage does not add up. Two users are needed for
membership beside the coordinator, two rooms for a room made after another was deleted.
`FewMessages` leaves out a second message
once a child was killed. Child processes are interchangeable, so that runs without
liveness use symmetry.

**Load balancer.** The load and the alive flags in the table follow the servers in the end.
Heartbeats repair what lost, doubled or overtaking reports and a failed check leave behind;
until one arrives the load may be wrong. Two reports per server let a heartbeat overtake a
connect; two servers let a check gather results of different times.

**Sessions.** A user with a session is online and reachable, and a user without is forgotten,
but for one user per kill, failure, or login of a user who is still being served: the damage
is counted, not excused. Of two concurrent logins one is told of the other, because each
adds its user to Redis before it reads who is there. Three users and tables of two slots
reach the full table; two troubles show that damage does not multiply.

**Desktop client.** A message that was handled is shown exactly once until it is deleted,
whatever order copies come in: only a thread that interrupts the other does damage, to two
messages per interruption at most. If the copies through Redis come in order, after the login and
after the direct ones, the client shows in the end what the database has, even if direct
copies are lost, doubled and reordered. Three events are enough for a room, or a message,
to be made, changed and deleted, with a login anywhere in between, because the room may
be there from the start. With two messages the run tells damage without an interruption from
damage with one, and no more: that an interruption damages two, never three, is proved.

**Web gateway and browser.** No list of messages has one twice, though the filters forget:
`SeenLimit` stands for the hundred lines after which `_is_dup` starts anew and is small
enough for that to happen in the run. Events handled once and in order leave the gateway
with what the database has. The page shows the chat of the room it says it does, and typing
goes there, however clicks, answers and events were mixed (`Prompt`: the page is at most two
steps behind; `FewEvents`: two events handled after the login, copies included, are followed
to their end, a third is checked as it comes). The run has one browser: what the filter that all
browsers share does to a second one is not checked. A browser hears datagrams as registered viewer only (`HearsBroadcast`); the
desktop runs take in the broadcast as well.

**Users online.** Clients show who is online, desktop and browser alike, except in the three
situations the code does not handle: a user who leaves while the viewer logs in, events that
are handled out of turn, and news that a filter takes for a copy. Two moves are enough to
come and leave, or leave and come back, around each step of a login.

**Session of a desktop client.** Whatever was rejected or registered before, the user in the
lobby is connected to the child that has the session, and every request has an outcome, but
for three exceptions. A user who does not wait for the outcome of a request (`hurried`) may
lose it. Threads of attempts that were given up do read from the connection of the next, and
do no harm unless bytes of two connections meet inside the buffer (`races`). And once a
thread, perhaps an old one, has met a closed connection, a character that `recv` cut in two
or a handler that raises, or an answer was cut (`lost`), the code has nothing to repair it: a user in the
lobby may be disconnected, a login or registration without outcome for good. Without
exception, whatever was closed, cut or raised, no client goes on for ever that takes itself
for connected while the connection is closed or no thread listens to it. Two attempts are what it
takes for an old thread and a new one.

**Lobby.** Once the callbacks have run the sidebar lists as the user's exactly the rooms the user
is a member of, and no room that is gone; views that were
opened from it fit the room, and no view is of a room that is gone; a chat has all messages, one twice at most per callback that a
view overtook; rooms marked as pending have a request. Two rooms let one be shown while the
other changes; three events make, change and delete a room under an open dialog.

**Store of the prototype.** The application calls only `openChat` of it (`app.py:464`); here it
is fed as its comments say it is meant to be. Lists and dictionaries hold the same objects whatever lines come;
lines in order, with copies, make the store follow the database; copies are not counted as
unread. Four changes reach a message that is written, read, deleted and copied.

**Redis.** A command arrives as it was meant, with empty arguments, spaces and line ends;
replies answer their commands however the stream is cut; no reply lies in the buffer while
the caller waits for more; nothing but the end of the connection makes it fail. `Discard`
stands for the 1024 bytes after which the reader cuts its buffer, small enough for it to be
cut inside a reply. The replies are a number, nothing, an empty array, a string with line
ends, and arrays in arrays.

**Connection to Redis.** Whatever call fails, a context that is reported without error is
connected and blocking, and a child that is done holds no memory and no descriptor. Only a
subscriber that never got through keeps its context (`chatServerJson.c:396`, one per server).
Two addresses let the second connect, or fail, after the first has failed in any way.

**Strings.** A header always tells the length and the block is never too small, though the
fields of a header are narrow and sizes wrap around. The widths of the run let every limit
be met: each type of header is outgrown, and `size_t` overflows.

**JSON.** Lists of a value hold what was put there, in order and linked both ways, and no node is
lost or freed in use. Four nodes are an array of three, whose first, middle and last element can be
detached and replaced, or arrays within arrays. A value that is printed parses to itself; what is
too deep or too long for its buffers is refused; a text that was cut or changed anywhere is read
as the longest value it begins with, or refused. An escape `\u` whose digits are none is read as
if they were zeroes (`cJSON.c:687`), which is why texts with escapes that nothing is printed
to may differ. No failure leaks a node, whichever allocation it is.

### Findings

1. `db_answers`: `handleNewMessage` stores a message and then reads the room through a null
   pointer when it was deleted meanwhile (`request_handler.c:231`); no answer is sent.
2. `db_notify`: ADD_USER notifies the coordinator and the new member only, while
   `handbookRequestDB.txt:279-282` shows all members.
3. `lb_ports`: reports are matched by port alone (`loadBalancer.c:286`), while `:272` and
   `:279` announce an exact match first.
4. `presence_reconnect`: the clean-up of an old connection takes the slot of the new session
   of the same user (`chatServerJson.c:873`).
5. `client_once`: two threads append the same message (`networkClient.py:618`), which
   `_append_message_once` says does not happen.

### Fairness

- `Database`: weak fairness of each child's own steps. Children are processes that the
  kernel schedules; the parent, clients and kills are not forced. The lock needs no strong
  fairness for `RequestsDrain`, which speaks of the time after the last arrival; that a child
  gets the lock while others keep arriving is not claimed: `F_SETLKW` promises no order.
- `LoadBalancer`: threads and children that can run do run, `heartbeat_thread` beats, and a
  report that is never lost is received. Nothing forces clients to come, or servers to stay
  up or to come back. The properties speak of servers that stay up, or down, for good.
- `Presence`: children run; nothing makes a client log in or hang up.
- The clients, the gateway, the page and hiredis: none. Their properties are stated for
  states in which nothing is under way; `RequestsHaveOutcomes` speaks of
  states in which every thread is blocked, where what has not happened never will.

`CHECK_DEADLOCK FALSE` is used for `client_replica`, `client_once`, `web` and `parts`: after
the bounded number of events, attempts or replies nothing is left to happen.

## 4. The proofs

Everything below holds for every value of the constants that the assumptions allow, and
every leaf is checked by `tlapm`. What they assume: `DatabaseAssumption` (the bounds are
naturals, `None` is not a child), `LobbyAssumption` (the user is not one of the others), `ChatEventsAssumption` (the
coordinator is a user, and there are finitely many rooms, all of which a login lists), `OnlineUsersAssumption`
(clients connect to servers that exist) and `PresenceAssumption` (the bounds are naturals, `None` is
nobody, users are offered servers that exist, and there are finitely many children: they are
counted, and process ids are finite).

### Database, until a child is killed

- `TypeCorrectness`: `Spec => []TypeOK`. It includes mutual exclusion: a child is past fcntl
  exactly if it holds the lock.
- `Invariance`: `Spec => []IInv`, and `Consistency`: `Spec => []HandlersReadConsistentFiles`.
- `Atomicity`: `Spec => ImplementsChatStore`.

`HandlersReadConsistentFiles` is not inductive: it says nothing of the moment a handler is
half done. `IInv` adds `WorkIsCovered` (what a handler has yet to write is all that separates
the files from its goal, so that the last write reaches it), `SoundBetweenHandlers` (until a
child is killed the goal is sound, and so are the files when nobody works) and
`RequestsStayValid` (what a waiting request names was registered or handed out, and stays
so: this is why receiving before locking does no harm). One lemma per action shows that
`IInv` is kept; `HandleRequest` rests on `HandleRequestIsSound` in `Repository_proofs`: every
request takes a sound store, of any size, to a sound store. The lemmas before it go through
the eleven handlers one by one.

For `Atomicity` each action of `Database` is shown to be a step of `ChatStore` or a stutter
under the mapping: `Receive` is `Submit`, `HandleRequest` is `Execute`, `Exit` and `LockFails`
are `Leave`, and `WriteFile` stutters, because the store that the others see is the goal of
the handler at work. That is only true of the last write, which makes the files the store,
because of `WorkIsCovered`.

### Database, whoever is killed

- `MessagesAreStored`, `RequestersWait`, `NamesStayUnique`, `IdsStayTaken`: the four
  invariants that survive kills.
- `CrashesBoundDamage`: at most one pair of user and room disagrees per killed child.
- `AnswersHoldInFiles`: an answer of success is true, on damaged files as well.
- `RoomsAreFresh`: an action property; what is stored as a room was named by nothing before.

None of them is inductive, and `IInv` does not help, since what it says about the files ends
with the first kill. `CrashInv` adds that every handler is at a *stage*: it has written a
prefix of its files, and the rest of the way leads through stores each of which is `Steady`
(rooms list stored messages, requesters are outside, names differ, ids are taken), names no
room that is yet to be stored, and has at most one damaged pair more than the files had when
the handler began, and none more at the end. Each of the eleven handlers has a lemma that
its writes, in their order, go through such stages, starting from any steady store, damaged
or not (`HandlersWithstand`); a kill leaves the files at one of them. `AnswersHold` says of
each handler that its goal contains what its answer says, again from any steady store.

### Sessions

`Presence_proofs` proves all safety properties of `presence`: `TypeCorrectness`, `OneSlot`,
`OnlineIsTrue`, `NobodyMissed`, `GhostsAreCounted` and `SessionsAreReachable`. Three of them
bound a set by a counter of troubles, which is not inductive: a trouble is counted when it
happens, and the damage shows later. Each proof names the sets in between. In
`GhostsAreCounted` every ghost in a table or in Redis, and every live child that would become
one if it were killed, is mapped to a trouble; in `SessionsAreReachable` the children that
live or that left a slot behind are counted together, since a login without a free slot
needs a full table; in `NobodyMissed` the invariant says of two children how far each is
when it has not heard of the other.

### Desktop client

`Client_proofs` proves all properties of the lobby and both of the session, for any set of
rooms, any number of events, attempts and connections that are closed.

- `RoomsAreListed`, `ViewsAlwaysFit`, `PendingStaysTrue`: `LobbySpec => []P`. The properties
  speak of the moments when no callback is put off, and are lost in between: dictionaries
  change at once, the window later. `LobbyInv` says of every moment what is still to come:
  the sidebar is true or one of the callbacks will draw it again; a row or view that does not
  fit the membership has a callback behind it that will part from or join the room (`WillPart`,
  `WillJoin`), and a callback that joins a room the user has left is followed by one that
  parts (`JoinsAreTrue`). `ChangesAreTold` goes through the requests of the database: each
  changes membership only together with such a callback, or needs none. That a dialog is
  excepted in `ViewsFitTheRoom` is what the proof needs as well: nothing redraws after it.
- `HistoryStaysWhole`: `LobbySpec => []HistoryIsShown`. A chat is drawn with all messages the
  client has, while the callbacks of the last ones are still put off and will draw those again.
  `HistoryComesTrue` adds them up: what is shown and what the callbacks to come carry are
  together the messages of the room, and as many as there are of both exceed them by no more
  than the callbacks that were overtaken; unless a callback to come draws the chat again or
  takes it away. A deletion breaks the sum and puts off such a callback in the same step, and
  so does a message the user is not told of, since he has to be added before he sees it.
  `MessagesAreThere` is needed for the moment a chat is drawn: no callback carries a message
  that is gone, unless it is followed by the callback of the deletion. The sums are counts of
  positions in a queue that shifts when its first callback runs: `MoreIsCarried` and
  `LessIsCarried` say what an append and a tail do to them. The invariant was checked with TLC
  on the bounds of the run before it was proved.
- `LobbyIsInSession`, `OutcomesCome`: `SessionSpec => []P`. `ListenerIsThere` says that the
  thread that was started for the present connection is alive and reads it for as long as
  the client is connected, and that a line in the buffer has a thread that will split it.
  `OneOutcome` follows the outcome of a request through its places: in the request, among the
  lines of the child, in the bytes a thread holds, in the buffer, as a callback, in a box. There
  is one such place or none, and where there is none the user is outside, or in the lobby of
  a session. The threads of earlier attempts are in the model with all they may do; lines that
  they steal are in one of the six places still. This is true only for users who wait, bytes
  that do not meet inside the buffer, and as long as no thread has lost its connection and no
  answer was cut: the exceptions of the properties (`hurried`, `races`, `lost`). `ListenerIsThere`
  has none of them, and neither has the second half of `RequestsHaveOutcomes`, which rests on
  it: the thread of the present connection is the one that does not end before the client is
  disconnected. `LostKeeps` is the lemma that all ways out of the loop by an exception share.

### Replica of a desktop client

`Convergence`: `Spec => []ReplicaConverges` of `NetworkClient`, for any rooms, messages, users
and number of events. The property speaks of the moments when nothing is left to come; in
between, direct copies bring back rooms that are gone and messages that are deleted. The
inductive invariant `CalmInv` (`Calmness`) holds as long as the copies through Redis come in
order and no handler is interrupted, and says of every moment that what is left to come will
mend this. For the set R of the events that Redis has yet to deliver:

- The events of R lead to the database (`RoomIsTold`, `MessageIsTold`): a room has the content
  of its last event in R that tells all of it, less the members removed after that; it is
  gone, or a message is, if an event in R says so, which then is its last.
- What R does not tell, the client has or will be sent by its login (`RoomComes`,
  `MessageComes`): a room without such an event in R is right in the client, or in its line
  of the login, but for members whose removal is in R; a message that is not in R is in its
  list or a line, or a handler that runs is about to add it; and what the client has and the
  database has not is gone by an event of R.
- `OnePlace`: a message is never of two rooms, wherever it is named, so that a search finds
  it in one list. `LoginIsWhole`: the lines of the login come before the events of its
  connection, and end with SYNC_END.

The invariant is about sets, and a duplicate or a late copy of an event of R adds nothing to
what R tells. A direct copy is of an event in R (one that is not has been overtaken, which
is a trouble), so that handling it moves the client towards R (`EventKeepsInv`), and taking
the first event out of R after it was handled (`FirstEventIsTaken`) keeps the invariant
because the client has what it told (`Reflected`). The lemmas before go through the requests
of the database, the lines of a login and the handlers of the client, the two halves of
those that look at a list and then write to it included. TLC checked the invariant on three
instances (up to 2 rooms, or 2 messages, and 4 events) before it was proved.

`InterruptionsBoundDamage`: `Spec => []DamagePerInterruption`, whatever is lost, duplicated
and reordered. The property said one message per interruption until the proof was tried: the
run, with two messages, agreed, and TLC found it false for three. A thread that has found a place
and is interrupted by one that takes away an earlier message takes the next message in place
of its own: one is left behind, and one is gone.

`DamageInv` (`DamageInvariance`) has a ledger for handlers that are under way. A thread is
about to change one message (`Own`, `OwnsOne`), because a message is of one room wherever it
is named (`OneHome`); an append makes its message right if it is kept and not in the list, a
search or a `pop` if it is not kept and in one place at most (`RightAfter`). `After` is the
damage there will be when the thread is done: the damage of now without its message, or with
it. A thread that works alone keeps that within two for each interruption; of two threads
that work at a time, each keeps it within what the interruptions before this one explain, but
for the message of the other (`WorksAlone`, `WorkTogether`). When the first of them ends, the
other's message before and after is all that the last interruption can add
(`EndKeepsBounds`), and a handler that begins has what is damaged as its foresight
(`BeginKeepsBounds`, `Begins`). A search that an exception may stop (`Sure`) has to stay
within the bound in both ways. TLC checked the conjuncts on 3 messages, 2 rooms and
2 interruptions first.

### Who is online

`OnlineIsShown`: `OnlineSpec => []OnlineUsersAreShown`, for any number of users, clients and
servers, and however often users come and go. A client is told in three ways that overlap, so
the inductive invariant `OnlineInv` (`OnlineInvariance`) says for each client and each user
which of them is still to come (`RightOrComing`):

- `InIsShown`: a user who is in is shown after SYNC_END, or his last event is `Awaited`
  (his child has yet to publish it, or it is in the queue of a server that delivers), or the
  second list of the login will name him (`Listed`).
- `AwayIsShown`, `AwayIsSaid`: a user who is away is not shown after SYNC_END, or his event is
  awaited; until SYNC_END neither the lines under way nor what they have filled says
  otherwise. Who leaves meanwhile breaks this, and is in `slipped`.
- `DirectIsFollowed`: whoever reads an old event by a direct copy has read the last one,
  which makes the copy stale, or will read it by a queue. Desktop clients hear direct copies
  before they are in a table; such a copy is of the last event and true, or the client has
  read the list since.
- `CopiesAreTrue`, `QueuesAreInOrder`, `LoginsAreInOrder`: copies of a user's last event agree
  with where the child is; a queue that has an earlier event has the last one behind it; SYNC_END
  is behind the flags and before the second list.

TLC checked the invariant with 2 clients on 2 servers, and up to 4 moves, before it was proved.

### Connections and strings of hiredis

- `ConnectionsAreSound`: `ConnectionSpec => []ConnectionsWorkOrAreGivenBack`, for any number of
  addresses. `ConnectionInv` says for each point of `redisConnect` what the context holds there:
  a descriptor from `socket` on, which is nonblocking until the last call, and an error
  exactly after the point where something failed.
- `StringsAlwaysFit`: `SdsSpec => []StringsFit`, for any width of `size_t` and of the headers
  that `SdsAssumption` allows (fields that hold what `sdsReqType` picks them for, header sizes
  that grow with the type, room for a header and twice the preallocation in half of
  `SIZE_MAX`). `Fits` adds to the property that the room stays below the bound of its type, so
  that `sdsRemoveFreeSpace` never needs a larger header than there was; `RoomIsMade` goes through the
  sums that `sdsMakeRoomFor` forms, each of which can wrap around once, and shows that its
  two comparisons catch every one that does.

### What is only model-checked

- Liveness: `RequestsDrain`, `LoadConverges`, `AliveFollowsUp`, `SessionsEnd`. The prover has
  no rules for fairness and `ENABLED`.
- The invariants of the gateway and the page, of `LocalDB` and `JsonTree`.
- `JsonText` and `RedisReader`: what a recursive function makes of every text is an induction
  over data, which the installed provers cannot do; `JsonText` uses recursive operators.

## 5. What is not modelled

- Database: writes that are torn inside a file (`writeFile` truncates first), requests that
  are cut by a single `recv`, full socket buffers and other sizes, passwords.
- Chat server: events that fill the buffer of `db_request` (an answer to a login that does is
  `CutAnswer`), the subscriber of a server that lost Redis for good.
- `NEW_MESSAGE` of user 0, who is nobody (`send_system_message`): it adds a message to a room as
  any other does, and nothing modelled looks at who wrote it.
- Desktop client: the offline simulation (`MockServer` and the `_simulate_*` timers), the
  panel of members, the profile window, the limit on toasts, fonts and layout.
- Web: connecting and registering a browser, the data for the panels, the profile; all of
  the styling.
- hiredis: RESP3 types, limits of the buffer, timeouts, its asynchronous and TLS interfaces,
  none of which is used; a reader that runs out of memory.
- cJSON: references, duplicates, comparison, lookup by name, none of which has state of its own.
  The Caesar cipher: a text, on which nothing modelled depends.

`PROJECT.json` gives the reason for each part.

## 6. Plan

1. Done: the server side (`Repository`, `ChatStore`, `Database`, `LoadBalancer`, `Presence`),
   the clients (`ChatEvents` and what extends it, `OnlineUsers`, `DesktopSession`,
   `LobbyWindow`, `LocalDB`), and the libraries under them (`RedisReader`, `RedisConnection`,
   `SdsString`, `JsonTree`, `JsonText`).
2. Done: all safety properties of the database and of the sessions as theorems, the
   refinement of `ChatStore` among them; the lobby, the session and the replica of a desktop
   client; who is shown as online; connections and strings of hiredis.
3. Left open, proofs: `ListsHoldTheirItems` of `JsonTree`, the gateway and the page.
4. Left open, models: the torn write of a file, a peer that does not read its answer.
