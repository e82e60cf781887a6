---------------------------- MODULE RedisConnection ----------------------------
(***************************************************************************)
(* How the chat server gets a connection to Redis and gives it back:       *)
(* redisConnect of hiredis/hiredis.c and net.c, for a blocking connection  *)
(* without timeout, and its callers in chatServerJson.c.  Every call of    *)
(* the system may fail, and so may every allocation; connect does not wait *)
(* and poll does.                                                          *)
(*                                                                         *)
(* A child opens a connection for the few commands of one occasion; the    *)
(* subscriber keeps one until it fails, and does not free the context if   *)
(* there was none to begin with.                                           *)
(***************************************************************************)
EXTENDS Integers

CONSTANT MaxAddresses      \* bound: addresses that the name of the Redis server stands for

ASSUME ConnectionAssumption == MaxAddresses \in Nat

VARIABLES
  caller,        \* who connects: "child" or "subscriber"
  doing,         \* what redisConnect or its caller does next
  err,           \* c->err is set
  fd,            \* how the descriptor that c->fd names is: "blocking", "nonblocking"; or "none"
  isConnected,     \* REDIS_CONNECTED in c->flags
  addresses,     \* how many are left in the list of getaddrinfo
  link,          \* the connection: "none", "pending", "up" or "refused"
  owned,         \* memory: what was taken and not given back
  opened         \* how many descriptors are open

connectionVars == <<caller, doing, err, fd, isConnected, addresses, link, owned, opened>>

Doing == {"init", "host", "lookup", "socket", "nonblock", "saddr", "connect", "poll", "check", "nodelay",
          "block", "end", "null", "returned", "commands", "done"}
Context == {"context", "obuf", "reader"}
Memory == Context \cup {"host", "saddr", "addresses"}

ConnectionTypeOK ==
  /\ caller \in {"child", "subscriber"} /\ doing \in Doing
  /\ err \in BOOLEAN /\ isConnected \in BOOLEAN
  /\ fd \in {"none", "blocking", "nonblocking"}
  /\ addresses \in 0 .. MaxAddresses
  /\ link \in {"none", "pending", "up", "refused"}
  /\ owned \subseteq Memory /\ opened \in 0 .. 1

ConnectionInit ==
  /\ caller \in {"child", "subscriber"} /\ doing = "init"
  /\ err = FALSE /\ fd = "none" /\ isConnected = FALSE /\ addresses = 0
  /\ link = "none" /\ owned = {} /\ opened = 0

-----------------------------------------------------------------------------
(***************************************************************************)
(* Pieces                                                                  *)
(***************************************************************************)
Step(from, to) == doing = from /\ doing' = to

SetError == err' = TRUE

redisNetClose ==
  /\ fd' = "none" /\ link' = "none"
  /\ opened' = IF fd = "none" THEN opened ELSE opened - 1

\* The descriptor, and all that the context has.
redisFree ==
  /\ redisNetClose
  /\ owned' = owned \ (Context \cup {"host", "saddr"})

\* `goto error' of a call that set the error and closed the descriptor.
CloseAndEnd(from) ==
  /\ Step(from, "end") /\ SetError /\ redisNetClose
  /\ UNCHANGED <<caller, isConnected, addresses, owned>>

\* `goto oom'.
OutOfMemory(from, lost) ==
  /\ Step(from, "end") /\ SetError
  /\ owned' = owned \ lost
  /\ UNCHANGED <<caller, fd, isConnected, addresses, link, opened>>

Take(from, to, resource) ==
  /\ Step(from, to)
  /\ owned' = owned \cup resource
  /\ UNCHANGED <<caller, err, fd, isConnected, addresses, link, opened>>

-----------------------------------------------------------------------------
(***************************************************************************)
(* redisConnect                                                            *)
(***************************************************************************)
\* A context without its buffer or its reader is freed again.
redisContextInit ==
  \/ Take("init", "host", Context)
  \/ Take("init", "null", {})

StrdupHost == Take("host", "lookup", {"host"}) \/ OutOfMemory("host", {})

\* IPv4, then IPv6.  Without addresses redisConnect returns at once.
getaddrinfo ==
  \/ \E n \in 1 .. MaxAddresses :
       /\ Step("lookup", "socket")
       /\ addresses' = n /\ owned' = owned \cup {"addresses"}
       /\ UNCHANGED <<caller, err, fd, isConnected, link, opened>>
  \/ /\ Step("lookup", "returned") /\ SetError
     /\ UNCHANGED <<caller, fd, isConnected, addresses, link, owned, opened>>

openSocket ==
  /\ addresses > 0
  /\ \/ /\ Step("socket", "nonblock")
        /\ fd' = "blocking" /\ opened' = opened + 1
        /\ UNCHANGED <<caller, err, isConnected, addresses, link, owned>>
     \/ /\ Step("socket", "socket")
        /\ addresses' = addresses - 1
        /\ UNCHANGED <<caller, err, fd, isConnected, link, owned, opened>>

NoAddressIsLeft ==
  /\ addresses = 0
  /\ Step("socket", "end") /\ SetError
  /\ UNCHANGED <<caller, fd, isConnected, addresses, link, owned, opened>>

redisSetBlocking(from, to, mode) ==
  \/ /\ Step(from, to)
     /\ fd' = mode /\ isConnected' = (mode = "blocking")
     /\ UNCHANGED <<caller, err, addresses, link, owned, opened>>
  \/ CloseAndEnd(from)

\* The copy of the address before is freed first.
CopyAddress == Take("saddr", "connect", {"saddr"}) \/ OutOfMemory("saddr", {"saddr"})

\* Mutant: a host that cannot be reached leaves its descriptor open.
connectNextOpen ==
  \/ /\ \/ Step("connect", "block") /\ link' = "up"
        \/ Step("connect", "poll") /\ link' = "pending"
     /\ UNCHANGED <<caller, err, fd, isConnected, addresses, owned, opened>>
  \/ /\ Step("connect", "socket")
     /\ addresses' = addresses - 1
     /\ UNCHANGED <<caller, err, fd, isConnected, link, owned, opened>>
  \/ CloseAndEnd("connect")

\* At once; in progress; EHOSTUNREACH, and the next address; any other error.
connectTcp ==
  \/ /\ \/ Step("connect", "block") /\ link' = "up"
        \/ Step("connect", "poll") /\ link' = "pending"
     /\ UNCHANGED <<caller, err, fd, isConnected, addresses, owned, opened>>
  \/ /\ Step("connect", "socket") /\ redisNetClose
     /\ addresses' = addresses - 1
     /\ UNCHANGED <<caller, err, isConnected, owned>>
  \/ CloseAndEnd("connect")

\* Without timeout, and again after EINTR.
redisContextWaitReady ==
  \/ /\ link # "pending" /\ Step("poll", "check")
     /\ UNCHANGED <<caller, err, fd, isConnected, addresses, link, owned, opened>>
  \/ CloseAndEnd("poll")

\* A second connect tells.  After an error the descriptor stays open.
redisCheckConnectDone ==
  /\ link = "up" /\ Step("check", "nodelay")
  /\ UNCHANGED <<caller, err, fd, isConnected, addresses, link, owned, opened>>

redisCheckSocketError ==
  /\ link # "up" /\ Step("check", "end") /\ SetError
  /\ UNCHANGED <<caller, fd, isConnected, addresses, link, owned, opened>>

redisSetTcpNoDelay ==
  \/ /\ Step("nodelay", "block")
     /\ UNCHANGED <<caller, err, fd, isConnected, addresses, link, owned, opened>>
  \/ CloseAndEnd("nodelay")

freeaddrinfo ==
  /\ Step("end", "returned")
  /\ owned' = owned \ {"addresses"}
  /\ UNCHANGED <<caller, err, fd, isConnected, addresses, link, opened>>

redisConnect ==
  \/ redisContextInit \/ StrdupHost \/ getaddrinfo \/ openSocket \/ NoAddressIsLeft
  \/ redisSetBlocking("nonblock", "saddr", "nonblocking") \/ CopyAddress \/ connectTcp
  \/ redisContextWaitReady \/ redisCheckConnectDone \/ redisCheckSocketError \/ redisSetTcpNoDelay
  \/ redisSetBlocking("block", "end", "blocking") \/ freeaddrinfo

\* The network: what becomes of a connection in progress.
NetworkAnswers ==
  /\ link = "pending" /\ link' \in {"up", "refused"}
  /\ UNCHANGED <<caller, doing, err, fd, isConnected, addresses, owned, opened>>

-----------------------------------------------------------------------------
(***************************************************************************)
(* The callers                                                             *)
(***************************************************************************)
\* if (!r || r->err) with what there is to free; the subscriber returns as it is.
Fails ==
  \/ /\ Step("null", "done")
     /\ UNCHANGED <<caller, err, fd, isConnected, addresses, link, owned, opened>>
  \/ /\ err /\ Step("returned", "done")
     /\ IF caller = "subscriber" THEN UNCHANGED <<fd, link, owned, opened>> ELSE redisFree
     /\ UNCHANGED <<caller, err, isConnected, addresses>>

redisCommand ==
  \/ /\ ~err /\ Step("returned", "commands")
     /\ UNCHANGED <<caller, err, fd, isConnected, addresses, link, owned, opened>>
  \/ /\ ~err /\ Step("commands", "commands") /\ SetError
     /\ UNCHANGED <<caller, fd, isConnected, addresses, link, owned, opened>>

\* A child has its commands answered, or not; the subscriber goes on until one fails.
Finish ==
  /\ caller = "child" \/ err
  /\ Step("commands", "done") /\ redisFree
  /\ UNCHANGED <<caller, err, isConnected, addresses>>

ConnectionNext == redisConnect \/ NetworkAnswers \/ Fails \/ redisCommand \/ Finish

ConnectionSpec == ConnectionInit /\ [][ConnectionNext]_connectionVars

-----------------------------------------------------------------------------
(***************************************************************************)
(* Properties                                                              *)
(***************************************************************************)
(* A connection that is reported without error is one: up, blocking, with  *)
(* its descriptor open.  And whoever is done with Redis holds nothing any  *)
(* more, whatever failed on the way: no memory, no list of addresses, no   *)
(* descriptor, not even one that was opened for an address before; except  *)
(* a subscriber that never got through, which keeps its context.           *)
ConnectionsWorkOrAreGivenBack ==
  /\ doing = "returned" /\ ~err =>
       /\ isConnected /\ link = "up" /\ fd = "blocking"
       /\ Context \subseteq owned /\ "addresses" \notin owned /\ opened = 1
  /\ doing = "done" =>
       \/ owned = {} /\ opened = 0
       \/ caller = "subscriber" /\ ~isConnected /\ "addresses" \notin owned /\ opened <= 1

================================================================================
