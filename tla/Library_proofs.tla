---------------------------- MODULE Library_proofs ----------------------------
(***************************************************************************)
(* What the vendored libraries promise their callers, for every value of   *)
(* the constants: connections of hiredis, and its strings.                 *)
(***************************************************************************)
EXTENDS RedisConnection, SdsString, TLAPS

-----------------------------------------------------------------------------
(***************************************************************************)
(* Connections                                                             *)
(***************************************************************************)
\* redisConnect has neither failed nor succeeded yet.
Connecting == {"init", "host", "lookup", "socket", "nonblock", "saddr", "connect", "poll", "check",
               "nodelay", "block"}

ConnectionInv ==
  /\ ConnectionTypeOK
  /\ \/ fd = "none" /\ opened = 0
     \/ fd \in {"blocking", "nonblocking"} /\ opened = 1
  /\ doing \in {"init", "null", "host", "lookup", "socket"} => fd = "none"
  /\ doing \in {"nonblock", "saddr", "connect", "poll", "check", "nodelay", "block"} => fd # "none"
  /\ doing \in {"nonblock", "saddr", "connect"} => addresses > 0
  /\ doing \in {"init", "null"} => owned = {}
  /\ doing \notin {"init", "null", "done"} => Context \subseteq owned
  /\ doing \in {"init", "null", "host", "lookup", "returned", "commands", "done"} =>
       "addresses" \notin owned
  /\ doing \in Connecting => err = FALSE /\ isConnected = FALSE
  /\ doing \in {"nodelay", "block"} => link = "up"
  /\ doing \in {"end", "returned"} =>
       \/ err = TRUE /\ isConnected = FALSE
       \/ err = FALSE /\ isConnected = TRUE /\ link = "up" /\ fd = "blocking"
  /\ doing = "commands" => isConnected = TRUE
  /\ doing = "done" =>
       \/ owned = {} /\ opened = 0
       \/ caller = "subscriber" /\ isConnected = FALSE

LEMMA ConnectionStarts == ConnectionInit => ConnectionInv
<1> SUFFICES ASSUME ConnectionInit PROVE ConnectionInv
  OBVIOUS
<1>1. /\ caller \in {"child", "subscriber"} /\ doing = "init" /\ err = FALSE /\ fd = "none"
      /\ isConnected = FALSE /\ addresses = 0 /\ link = "none" /\ owned = {} /\ opened = 0
  BY Zenon DEF ConnectionInit
<1>2. addresses \in 0 .. MaxAddresses /\ opened \in 0 .. 1
  BY <1>1, ConnectionAssumption, SMT
<1>3. err \in BOOLEAN /\ isConnected \in BOOLEAN
  BY <1>1, Zenon
<1>4. ConnectionTypeOK
  BY <1>1, <1>2, <1>3, Zenon DEF ConnectionTypeOK, Doing, Memory
<1> QED
  BY <1>1, <1>4, SMT DEF ConnectionInv, Connecting

\* A call of the system that fails while there is a descriptor.
LEMMA FailuresEnd ==
  ASSUME ConnectionInv, NEW from \in {"nonblock", "connect", "poll", "nodelay", "block"}, CloseAndEnd(from)
  PROVE  ConnectionInv'
<1> USE DEF ConnectionInv, ConnectionTypeOK, Doing, Context, Memory, Connecting
<1>1. /\ doing = from /\ doing' = "end" /\ err' = TRUE /\ fd' = "none" /\ link' = "none"
      /\ isConnected = FALSE /\ UNCHANGED <<caller, isConnected, addresses, owned>>
  BY SMT DEF CloseAndEnd, Step, SetError, redisNetClose
<1>2. opened' = 0
  BY SMT DEF CloseAndEnd, redisNetClose
<1> QED
  BY <1>1, <1>2, SMT

LEMMA ConnectionGoesOn == ConnectionInv /\ [ConnectionNext]_connectionVars => ConnectionInv'
<1> SUFFICES ASSUME ConnectionInv, [ConnectionNext]_connectionVars PROVE ConnectionInv'
  OBVIOUS
<1> USE ConnectionAssumption DEF ConnectionInv, ConnectionTypeOK, Doing, Context, Memory, Connecting,
        Step, SetError, Take, OutOfMemory, CloseAndEnd, redisNetClose, redisFree
<1>1. CASE redisContextInit
  <2>1. CASE Take("init", "host", Context)
    BY <2>1, SMT
  <2>2. CASE Take("init", "null", {})
    BY <2>2, SMT
  <2> QED
    BY <1>1, <2>1, <2>2, Zenon DEF redisContextInit
<1>2. CASE StrdupHost
  <2>1. CASE Take("host", "lookup", {"host"})
    BY <2>1, SMT
  <2>2. CASE OutOfMemory("host", {})
    BY <2>2, SMT
  <2> QED
    BY <1>2, <2>1, <2>2, Zenon DEF StrdupHost
<1>3. CASE getaddrinfo
  <2>1. CASE Step("lookup", "returned")
    <3>1. SetError /\ UNCHANGED <<caller, fd, isConnected, addresses, link, owned, opened>>
      BY <1>3, <2>1, SMT DEF getaddrinfo
    <3> QED
      BY <2>1, <3>1, SMT
  <2>2. CASE Step("lookup", "socket")
    <3>1. /\ addresses' \in 1 .. MaxAddresses /\ owned' = owned \cup {"addresses"}
          /\ UNCHANGED <<caller, err, fd, isConnected, link, opened>>
      BY <1>3, <2>2, SMT DEF getaddrinfo
    <3> QED
      BY <2>2, <3>1, SMT
  <2> QED
    BY <1>3, <2>1, <2>2, Zenon DEF getaddrinfo
<1>4. CASE openSocket
  <2>1. CASE Step("socket", "nonblock")
    <3>1. /\ fd' = "blocking" /\ opened' = opened + 1 /\ addresses > 0
          /\ UNCHANGED <<caller, err, isConnected, addresses, link, owned>>
      BY <1>4, <2>1, SMT DEF openSocket
    <3> QED
      BY <2>1, <3>1, SMT
  <2>2. CASE Step("socket", "socket")
    <3>1. /\ addresses' = addresses - 1 /\ addresses > 0
          /\ UNCHANGED <<caller, err, fd, isConnected, link, owned, opened>>
      BY <1>4, <2>2, SMT DEF openSocket
    <3> QED
      BY <2>2, <3>1, SMT
  <2> QED
    BY <1>4, <2>1, <2>2, Zenon DEF openSocket
<1>5. CASE NoAddressIsLeft
  BY <1>5, SMT DEF NoAddressIsLeft
<1>6. CASE redisSetBlocking("nonblock", "saddr", "nonblocking")
  <2>1. CASE CloseAndEnd("nonblock")
    BY <2>1, FailuresEnd
  <2>2. CASE ~CloseAndEnd("nonblock")
    <3>1. /\ doing = "nonblock" /\ doing' = "saddr" /\ fd' = "nonblocking"
          /\ isConnected' = ("nonblocking" = "blocking")
          /\ UNCHANGED <<caller, err, addresses, link, owned, opened>>
      BY <1>6, <2>2, Zenon DEF redisSetBlocking
    <3>2. isConnected' = FALSE
      BY <3>1, SMT
    <3> QED
      BY <3>1, <3>2, SMT
  <2> QED
    BY <2>1, <2>2
<1>7. CASE CopyAddress
  <2>1. CASE Take("saddr", "connect", {"saddr"})
    BY <2>1, SMT
  <2>2. CASE OutOfMemory("saddr", {"saddr"})
    BY <2>2, SMT
  <2> QED
    BY <1>7, <2>1, <2>2, Zenon DEF CopyAddress
<1>8. CASE connectTcp
  <2>1. CASE CloseAndEnd("connect")
    BY <2>1, FailuresEnd
  <2>2. CASE Step("connect", "socket") /\ ~CloseAndEnd("connect")
    <3>1. redisNetClose /\ addresses' = addresses - 1 /\ UNCHANGED <<caller, err, isConnected, owned>>
      BY <1>8, <2>2, SMT DEF connectTcp
    <3> QED
      BY <2>2, <3>1, SMT
  <2>3. CASE Step("connect", "block")
    <3>1. link' = "up" /\ UNCHANGED <<caller, err, fd, isConnected, addresses, owned, opened>>
      BY <1>8, <2>3, SMT DEF connectTcp
    <3> QED
      BY <2>3, <3>1, SMT
  <2>4. CASE Step("connect", "poll")
    <3>1. link' = "pending" /\ UNCHANGED <<caller, err, fd, isConnected, addresses, owned, opened>>
      BY <1>8, <2>4, SMT DEF connectTcp
    <3> QED
      BY <2>4, <3>1, SMT
  <2> QED
    BY <1>8, <2>1, <2>2, <2>3, <2>4, Zenon DEF connectTcp
<1>9. CASE redisContextWaitReady
  <2>1. CASE CloseAndEnd("poll")
    BY <2>1, FailuresEnd
  <2>2. CASE ~CloseAndEnd("poll")
    <3>1. /\ doing = "poll" /\ doing' = "check"
          /\ UNCHANGED <<caller, err, fd, isConnected, addresses, link, owned, opened>>
      BY <1>9, <2>2, Zenon DEF redisContextWaitReady
    <3> QED
      BY <3>1, SMT
  <2> QED
    BY <2>1, <2>2
<1>10. CASE redisCheckConnectDone
  BY <1>10, SMT DEF redisCheckConnectDone
<1>11. CASE redisCheckSocketError
  BY <1>11, SMT DEF redisCheckSocketError
<1>12. CASE redisSetTcpNoDelay
  <2>1. CASE CloseAndEnd("nodelay")
    BY <2>1, FailuresEnd
  <2>2. CASE ~CloseAndEnd("nodelay")
    <3>1. /\ doing = "nodelay" /\ doing' = "block"
          /\ UNCHANGED <<caller, err, fd, isConnected, addresses, link, owned, opened>>
      BY <1>12, <2>2, Zenon DEF redisSetTcpNoDelay
    <3> QED
      BY <3>1, SMT
  <2> QED
    BY <2>1, <2>2
<1>13. CASE redisSetBlocking("block", "end", "blocking")
  <2>1. CASE CloseAndEnd("block")
    BY <2>1, FailuresEnd
  <2>2. CASE ~CloseAndEnd("block")
    <3>1. /\ doing = "block" /\ doing' = "end" /\ fd' = "blocking"
          /\ isConnected' = ("blocking" = "blocking")
          /\ UNCHANGED <<caller, err, addresses, link, owned, opened>>
      BY <1>13, <2>2, Zenon DEF redisSetBlocking
    <3>2. isConnected' = TRUE
      BY <3>1, Zenon
    <3> QED
      BY <3>1, <3>2, SMT
  <2> QED
    BY <2>1, <2>2
<1>14. CASE freeaddrinfo
  BY <1>14, SMT DEF freeaddrinfo
<1>15. CASE NetworkAnswers
  BY <1>15, SMT DEF NetworkAnswers
<1>16. CASE Fails
  <2>1. CASE doing = "null"
    <3>1. doing' = "done" /\ UNCHANGED <<caller, err, fd, isConnected, addresses, link, owned, opened>>
      BY <1>16, <2>1, SMT DEF Fails
    <3> QED
      BY <2>1, <3>1, SMT
  <2>2. CASE err /\ Step("returned", "done") /\ caller = "subscriber"
    <3>1. err = TRUE
      BY <2>2, Zenon
    <3>2. doing' = "done" /\ UNCHANGED <<caller, err, fd, isConnected, addresses, link, owned, opened>>
      BY <1>16, <2>2, SMT DEF Fails
    <3> QED
      BY <2>2, <3>1, <3>2, SMT
  <2>3. CASE err /\ Step("returned", "done") /\ caller # "subscriber"
    <3>1. err = TRUE
      BY <2>3, Zenon
    <3>2. doing' = "done" /\ redisFree /\ UNCHANGED <<caller, err, isConnected, addresses>>
      BY <1>16, <2>3, SMT DEF Fails
    <3> QED
      BY <2>3, <3>1, <3>2, SMT
  <2>4. doing = "null" \/ (err /\ Step("returned", "done"))
    BY <1>16, Zenon DEF Fails
  <2> QED
    BY <2>1, <2>2, <2>3, <2>4, Zenon
<1>17. CASE redisCommand
  <2>1. ~err
    BY <1>17, Zenon DEF redisCommand
  <2>2. err = FALSE
    BY <2>1, Zenon
  <2>3. CASE doing = "returned"
    <3>1. doing' = "commands" /\ UNCHANGED <<caller, err, fd, isConnected, addresses, link, owned, opened>>
      BY <1>17, <2>3, Zenon DEF redisCommand
    <3> QED
      BY <2>2, <2>3, <3>1, SMT
  <2>4. CASE doing = "commands"
    <3>1. /\ doing' = "commands" /\ err' = TRUE
          /\ UNCHANGED <<caller, fd, isConnected, addresses, link, owned, opened>>
      BY <1>17, <2>4, Zenon DEF redisCommand
    <3> QED
      BY <2>4, <3>1, SMT
  <2>5. doing = "returned" \/ doing = "commands"
    BY <1>17, SMT DEF redisCommand
  <2> QED
    BY <2>3, <2>4, <2>5
<1>18. CASE Finish
  BY <1>18, SMT DEF Finish
<1>19. CASE UNCHANGED connectionVars
  BY <1>19, SMT DEF connectionVars
<1> QED
  BY <1>1, <1>2, <1>3, <1>4, <1>5, <1>6, <1>7, <1>8, <1>9, <1>10, <1>11, <1>12, <1>13, <1>14,
     <1>15, <1>16, <1>17, <1>18, <1>19 DEF ConnectionNext, redisConnect

(* Whatever fails while the chat server connects to Redis, for any number  *)
(* of addresses: a context without error is a connection, and nothing is   *)
(* kept by a caller that is done.                                          *)
THEOREM ConnectionsAreSound == ConnectionSpec => []ConnectionsWorkOrAreGivenBack
<1>1. ConnectionInv => ConnectionsWorkOrAreGivenBack
  BY SMT DEF ConnectionInv, ConnectionTypeOK, ConnectionsWorkOrAreGivenBack, Context
<1> QED
  BY <1>1, ConnectionStarts, ConnectionGoesOn, PTL DEF ConnectionSpec

-----------------------------------------------------------------------------
(***************************************************************************)
(* Strings                                                                 *)
(***************************************************************************)
Headers == [type : SdsType, len : Nat, alloc : Nat, block : Nat]

\* A string that fits its header, and its block.
Fits(s) ==
  /\ s \in Headers
  /\ s.len <= sdsalloc(s) /\ sdsalloc(s) <= HdrMax[s.type]
  /\ s.type # 4 => sdsalloc(s) < TypeBound[s.type]
  /\ HdrSize[s.type] + sdsalloc(s) + 1 <= s.block /\ s.block <= SIZE_MAX

StringsInv == wanted \in Nat /\ (str # NoString => Fits(str) /\ str.len = wanted)

\* Arithmetic of an unsigned type.
LEMMA FitsItsWidth ==
  ASSUME NEW m \in Nat, NEW n \in 0 .. m PROVE n % (m + 1) = n
  BY SMT

LEMMA WrapsAround ==
  ASSUME NEW m \in Nat, NEW n \in m + 1 .. 2 * m + 1 PROVE n % (m + 1) = n - (m + 1)
  BY SMT

LEMMA WithinWidth ==
  ASSUME NEW m \in Nat, NEW n \in Nat PROVE n % (m + 1) \in 0 .. m
  BY SMT

LEMMA Sizes ==
  /\ SIZE_MAX \in Nat /\ SDS_MAX_PREALLOC \in Nat \ {0}
  /\ \A t \in SdsType : HdrSize[t] \in Nat /\ HdrMax[t] \in Nat /\ TypeBound[t] \in Nat
  /\ \A t \in SdsType : HdrSize[t] + HdrMax[0] + 2 * SDS_MAX_PREALLOC < SIZE_MAX
<1>1. \A t \in SdsType : HdrSize[t] \in Nat /\ HdrMax[t] \in Nat /\ TypeBound[t] \in Nat
  BY SdsAssumption, Zenon
<1>2. SIZE_MAX \div 2 <= SIZE_MAX /\ SIZE_MAX \div 2 \in Nat
  BY SdsAssumption, SMT
<1>3. ASSUME NEW t \in SdsType PROVE HdrSize[t] + HdrMax[0] + 2 * SDS_MAX_PREALLOC < SIZE_MAX
  <2>1. HdrSize[t] + HdrMax[0] + 2 * SDS_MAX_PREALLOC < SIZE_MAX \div 2
    BY SdsAssumption
  <2>2. HdrSize[t] \in Nat /\ HdrMax[0] \in Nat
    BY <1>1 DEF SdsType
  <2> QED
    BY <1>2, <2>1, <2>2, SdsAssumption, SMT
<1> QED
  BY <1>1, <1>3, SdsAssumption

LEMMA TypeFits ==
  ASSUME NEW n \in 0 .. SIZE_MAX
  PROVE  /\ sdsReqType(n) \in SdsType /\ n <= HdrMax[sdsReqType(n)]
         /\ sdsReqType(n) # 4 => n < TypeBound[sdsReqType(n)]
         /\ \A t \in SdsType : (t = 4 \/ n < TypeBound[t]) => sdsReqType(n) <= t
<1> DEFINE F == {t \in SdsType \ {4} : n < TypeBound[t]}
<1>1. CASE F = {}
  <2>1. sdsReqType(n) = 4
    BY <1>1 DEF sdsReqType
  <2>2. \A t \in SdsType : n < TypeBound[t] => t = 4
    BY <1>1
  <2> QED
    BY <2>1, <2>2, SdsAssumption, SMT DEF SdsType
<1>2. CASE F # {}
  <2>1. \E t \in F : \A u \in F : t <= u
    <3>1. F \subseteq 0 .. 3
      BY SMT DEF SdsType
    <3> HIDE DEF F
    <3>2. CASE 0 \in F
      BY <3>1, <3>2, SMT
    <3>3. CASE 0 \notin F /\ 1 \in F
      BY <3>1, <3>3, SMT
    <3>4. CASE 0 \notin F /\ 1 \notin F /\ 2 \in F
      BY <3>1, <3>4, SMT
    <3>5. CASE 0 \notin F /\ 1 \notin F /\ 2 \notin F
      <4>1. \A u \in F : u = 3
        BY <3>1, <3>5, SMT
      <4>2. 3 \in F
        BY <1>2, <4>1
      <4> QED
        BY <4>1, <4>2, SMT
    <3> QED
      BY <3>2, <3>3, <3>4, <3>5
  <2>2. sdsReqType(n) = CHOOSE t \in F : \A u \in F : t <= u
    BY <1>2 DEF sdsReqType
  <2>3. sdsReqType(n) \in F /\ \A u \in F : sdsReqType(n) <= u
    BY <2>1, <2>2
  <2>4. sdsReqType(n) \in SdsType \ {4} /\ n < TypeBound[sdsReqType(n)]
    BY <2>3
  <2>5. TypeBound[sdsReqType(n)] <= HdrMax[sdsReqType(n)] + 1
    BY <2>4, SdsAssumption
  <2>6. ASSUME NEW t \in SdsType, t = 4 \/ n < TypeBound[t] PROVE sdsReqType(n) <= t
    <3>1. CASE t = 4
      BY <2>4, <3>1, SMT DEF SdsType
    <3>2. CASE t # 4
      BY <2>3, <2>6, <3>2
    <3> QED
      BY <3>1, <3>2
  <2>7. n <= HdrMax[sdsReqType(n)]
    BY <2>4, <2>5, Sizes, SMT
  <2> QED
    BY <2>4, <2>6, <2>7
<1> QED
  BY <1>1, <1>2

\* Another length, within the room there is.
LEMMA LengthIsSet ==
  ASSUME NEW s, Fits(s), NEW n \in 0 .. sdsalloc(s)
  PROVE  /\ Fits(sdssetlen(s, n)) /\ sdssetlen(s, n).len = n /\ sdssetlen(s, n) # NoString
<1>1. s \in Headers /\ s.type \in SdsType /\ s.len \in Nat /\ s.alloc \in Nat /\ s.block \in Nat
  BY DEF Fits, Headers
<1>2. HdrMax[s.type] \in Nat /\ HdrSize[s.type] \in Nat /\ TypeBound[s.type] \in Nat /\ SIZE_MAX \in Nat
  BY <1>1, Sizes
<1>3. sdsalloc(s) \in Nat /\ n \in Nat
  BY <1>1, SMT DEF sdsalloc
<1>4. n \in 0 .. HdrMax[s.type]
  BY <1>2, <1>3, SMT DEF Fits
<1>5. Field(s.type, n) = n
  BY <1>2, <1>4, FitsItsWidth DEF Field
<1> DEFINE z == [type |-> s.type, len |-> n, alloc |-> s.alloc, block |-> s.block]
<1>6. sdssetlen(s, n) = z
  <2>1. sdssetlen(s, n) = [s EXCEPT !.len = n]
    BY <1>5 DEF sdssetlen
  <2> QED
    BY <1>1, <2>1 DEF Headers
<1>7. z \in Headers /\ z.len = n /\ z.type = s.type /\ z.block = s.block /\ z.alloc = s.alloc
  BY <1>1, <1>3 DEF Headers
<1>8. sdsalloc(z) = (IF s.type = 0 THEN n ELSE s.alloc)
  BY <1>7 DEF sdsalloc
<1>9. sdsalloc(s) = (IF s.type = 0 THEN s.len ELSE s.alloc)
  BY DEF sdsalloc
<1> HIDE DEF z
<1>10. n <= sdsalloc(z) /\ sdsalloc(z) <= sdsalloc(s) /\ sdsalloc(z) \in Nat
  BY <1>1, <1>3, <1>8, <1>9, SMT
<1>11. Fits(z)
  BY <1>1, <1>2, <1>3, <1>7, <1>10, SMT DEF Fits
<1> QED
  BY <1>6, <1>7, <1>11, SdsAssumption DEF Headers

\* A new block, for a type whose fields are wide enough.
LEMMA HeaderFits ==
  ASSUME NEW t \in SdsType, NEW n \in Nat, NEW a \in Nat, n <= a, a <= HdrMax[t],
         HdrSize[t] + a + 1 <= SIZE_MAX, t = 0 => n = a, t # 4 => a < TypeBound[t]
  PROVE  /\ Fits(Header(t, n, a)) /\ Header(t, n, a).len = n /\ Header(t, n, a) # NoString
         /\ sdsalloc(Header(t, n, a)) = a /\ Header(t, n, a).type = t
<1>1. HdrMax[t] \in Nat /\ HdrSize[t] \in Nat /\ SIZE_MAX \in Nat
  BY Sizes
<1>2. Field(t, n) = n /\ Field(t, a) = a
  BY <1>1, FitsItsWidth, SMT DEF Field
<1>3. Size(HdrSize[t] + a + 1) = HdrSize[t] + a + 1
  BY <1>1, FitsItsWidth, SMT DEF Size
<1> DEFINE z == [type |-> t, len |-> n, alloc |-> IF t = 0 THEN 0 ELSE a, block |-> HdrSize[t] + a + 1]
<1>4. Header(t, n, a) = z
  BY <1>2, <1>3 DEF Header
<1>5. /\ z.type = t /\ z.len = n /\ z.block = HdrSize[t] + a + 1 /\ z.alloc = (IF t = 0 THEN 0 ELSE a)
  OBVIOUS
<1>6. z \in Headers
  BY <1>1, SMT DEF Headers
<1> HIDE DEF z
<1>7. sdsalloc(z) = a
  BY <1>5 DEF sdsalloc
<1>8. Fits(z)
  BY <1>1, <1>5, <1>6, <1>7, SMT DEF Fits
<1> QED
  BY <1>4, <1>5, <1>6, <1>7, <1>8, SdsAssumption DEF Headers

\* A sum of two sizes overflows at most once.
LEMMA SumOfSizes ==
  ASSUME NEW a \in 0 .. SIZE_MAX, NEW b \in 0 .. SIZE_MAX
  PROVE  /\ a + b <= SIZE_MAX => Size(a + b) = a + b
         /\ a + b > SIZE_MAX => Size(a + b) = a + b - (SIZE_MAX + 1)
<1>1. SIZE_MAX \in Nat
  BY Sizes
<1>2. CASE a + b <= SIZE_MAX
  <2>1. a + b \in 0 .. SIZE_MAX
    BY <1>1, <1>2, SMT
  <2>2. Size(a + b) = a + b
    BY <1>1, <2>1, FitsItsWidth DEF Size
  <2> QED
    BY <1>1, <1>2, <2>2, SMT
<1>3. CASE a + b > SIZE_MAX
  <2>1. a + b \in SIZE_MAX + 1 .. 2 * SIZE_MAX + 1
    BY <1>1, <1>3, SMT
  <2>2. Size(a + b) = a + b - (SIZE_MAX + 1)
    BY <1>1, <2>1, WrapsAround DEF Size
  <2> QED
    BY <1>1, <1>3, <2>2, SMT
<1> QED
  BY <1>1, <1>2, <1>3, SMT

LEMMA NewStringFits ==
  ASSUME NEW n \in 0 .. SIZE_MAX, sdsnewlen(n) # NoString
  PROVE  Fits(sdsnewlen(n)) /\ sdsnewlen(n).len = n
<1> DEFINE type == IF n = 0 THEN 1 ELSE sdsReqType(n)
<1>1. type \in SdsType /\ n <= HdrMax[type] /\ (type # 4 => n < TypeBound[type])
  <2>1. CASE n = 0
    BY <2>1, Sizes, SdsAssumption, SMT DEF SdsType
  <2>2. CASE n # 0
    BY <2>2, TypeFits
  <2> QED
    BY <2>1, <2>2
<1>2. Size(HdrSize[type] + n + 1) > n /\ sdsnewlen(n) = Header(type, n, n)
  <2>1. sdsnewlen(n) = IF Size(HdrSize[type] + n + 1) <= n THEN NoString ELSE Header(type, n, n)
    BY DEF sdsnewlen
  <2>2. ~(Size(HdrSize[type] + n + 1) <= n)
    BY <2>1
  <2>3. HdrSize[type] \in Nat /\ SIZE_MAX \in Nat
    BY <1>1, Sizes
  <2>4. Size(HdrSize[type] + n + 1) \in 0 .. SIZE_MAX
    <3>1. HdrSize[type] + n + 1 \in Nat
      BY <2>3, SMT
    <3> QED
      BY <2>3, <3>1, WithinWidth DEF Size
  <2> QED
    BY <2>1, <2>2, <2>3, <2>4, SMT
<1> HIDE DEF type
<1>3. /\ SIZE_MAX \in Nat /\ HdrSize[type] \in Nat /\ HdrMax[0] \in Nat
      /\ HdrSize[type] + HdrMax[0] + 2 * SDS_MAX_PREALLOC < SIZE_MAX /\ SDS_MAX_PREALLOC \in Nat \ {0}
  BY <1>1, Sizes DEF SdsType
<1>4. HdrSize[type] + 1 \in 0 .. SIZE_MAX /\ n + (HdrSize[type] + 1) = HdrSize[type] + n + 1
  BY <1>3, SMT
<1>5. HdrSize[type] + n + 1 <= SIZE_MAX
  <2> SUFFICES ASSUME n + (HdrSize[type] + 1) > SIZE_MAX PROVE FALSE
    BY <1>3, <1>4, SMT
  <2>1. Size(n + (HdrSize[type] + 1)) = n + (HdrSize[type] + 1) - (SIZE_MAX + 1)
    BY <1>4, SumOfSizes
  <2> QED
    BY <1>2, <1>3, <1>4, <2>1, SMT
<1>6. n \in Nat /\ n <= n
  BY <1>3, SMT
<1> QED
  BY <1>1, <1>2, <1>5, <1>6, HeaderFits

\* More room: the same text, and what was asked for; or no string at all.
LEMMA RoomIsMade ==
  ASSUME NEW s, Fits(s), NEW n \in 0 .. SIZE_MAX, sdsMakeRoomFor(s, n) # NoString
  PROVE  LET room == sdsMakeRoomFor(s, n)
         IN /\ Fits(room) /\ room.len = s.len /\ n <= sdsavail(room)
            /\ s.len + n <= sdsalloc(room)
<1>1. /\ s.type \in SdsType /\ s.len \in Nat /\ s.alloc \in Nat /\ s.block \in Nat
      /\ SIZE_MAX \in Nat /\ SDS_MAX_PREALLOC \in Nat \ {0} /\ HdrMax[0] \in Nat
      /\ HdrSize[s.type] \in Nat /\ n \in Nat
  BY Sizes, SMT DEF Fits, Headers, SdsType
<1>2. sdsavail(s) = sdsalloc(s) - s.len /\ sdsalloc(s) \in Nat
  BY <1>1, SMT DEF sdsavail, sdsalloc
<1>3. s.len \in 0 .. SIZE_MAX
  BY <1>1, <1>2, SMT DEF Fits
<1>4. CASE sdsavail(s) >= n
  <2>1. sdsMakeRoomFor(s, n) = s
    BY <1>4 DEF sdsMakeRoomFor
  <2> QED
    BY <1>1, <1>2, <1>4, <2>1, SMT
<1>5. CASE ~(sdsavail(s) >= n)
  <2> DEFINE reqlen == Size(s.len + n)
             newlen == IF reqlen < SDS_MAX_PREALLOC THEN Size(reqlen * 2)
                       ELSE Size(reqlen + SDS_MAX_PREALLOC)
             type == IF sdsReqType(newlen) = 0 THEN 1 ELSE sdsReqType(newlen)
             bytes == Size(HdrSize[type] + newlen + 1)
  <2>1. /\ ~(reqlen <= s.len) /\ ~(bytes <= reqlen)
        /\ sdsMakeRoomFor(s, n) = Header(type, s.len, newlen)
    BY <1>5, Zenon DEF sdsMakeRoomFor, sdslen
  <2>2. reqlen = s.len + n /\ reqlen \in 0 .. SIZE_MAX
    <3>1. CASE s.len + n <= SIZE_MAX
      BY <1>1, <1>3, <3>1, SumOfSizes, SMT
    <3>2. CASE s.len + n > SIZE_MAX
      <4>1. reqlen = s.len + n - (SIZE_MAX + 1)
        BY <1>3, <3>2, SumOfSizes
      <4> QED
        BY <1>1, <1>3, <2>1, <3>2, <4>1, SMT
    <3> QED
      BY <1>1, <3>1, <3>2, SMT
  <2> HIDE DEF reqlen
  <2>3. /\ newlen \in 0 .. SIZE_MAX
        /\ \/ newlen >= reqlen /\ (newlen <= 2 * SDS_MAX_PREALLOC \/ newlen = reqlen + SDS_MAX_PREALLOC)
           \/ newlen < SDS_MAX_PREALLOC /\ newlen = reqlen + SDS_MAX_PREALLOC - (SIZE_MAX + 1)
    <3>1. 2 * SDS_MAX_PREALLOC < SIZE_MAX
      <4>1. HdrSize[0] \in Nat /\ HdrSize[0] + HdrMax[0] + 2 * SDS_MAX_PREALLOC < SIZE_MAX
        BY Sizes, SMT DEF SdsType
      <4> QED
        BY <1>1, <4>1, SMT
    <3>2. CASE reqlen < SDS_MAX_PREALLOC
      <4>1. reqlen * 2 \in 0 .. SIZE_MAX /\ reqlen * 2 >= reqlen /\ reqlen * 2 <= 2 * SDS_MAX_PREALLOC
        BY <1>1, <2>2, <3>1, <3>2, SMT
      <4>2. newlen = reqlen * 2
        BY <1>1, <3>2, <4>1, FitsItsWidth DEF Size
      <4> QED
        BY <4>1, <4>2
    <3>3. CASE ~(reqlen < SDS_MAX_PREALLOC)
      <4>1. newlen = Size(reqlen + SDS_MAX_PREALLOC)
        BY <3>3
      <4>2. SDS_MAX_PREALLOC \in 0 .. SIZE_MAX
        BY <1>1, <3>1, SMT
      <4> HIDE DEF newlen
      <4>3. CASE reqlen + SDS_MAX_PREALLOC <= SIZE_MAX
        <5>1. newlen = reqlen + SDS_MAX_PREALLOC
          BY <2>2, <4>1, <4>2, <4>3, SumOfSizes
        <5> QED
          BY <1>1, <2>2, <4>3, <5>1, SMT
      <4>4. CASE reqlen + SDS_MAX_PREALLOC > SIZE_MAX
        <5>1. newlen = reqlen + SDS_MAX_PREALLOC - (SIZE_MAX + 1)
          BY <2>2, <4>1, <4>2, <4>4, SumOfSizes
        <5> QED
          BY <1>1, <2>2, <4>2, <4>4, <5>1, SMT
      <4> QED
        BY <1>1, <2>2, <4>3, <4>4, SMT
    <3> QED
      BY <3>2, <3>3
  <2> HIDE DEF newlen
  <2>4. type \in SdsType /\ newlen <= HdrMax[type] /\ type # 0 /\ (type # 4 => newlen < TypeBound[type])
    <3>1. /\ sdsReqType(newlen) \in SdsType /\ newlen <= HdrMax[sdsReqType(newlen)]
          /\ sdsReqType(newlen) # 4 => newlen < TypeBound[sdsReqType(newlen)]
      BY <2>3, TypeFits
    <3>2. /\ HdrMax[0] <= HdrMax[1] /\ HdrMax[0] \in Nat /\ HdrMax[1] \in Nat
          /\ TypeBound[0] <= TypeBound[1] /\ TypeBound[0] \in Nat /\ TypeBound[1] \in Nat
      BY SdsAssumption, Sizes, SMT DEF SdsType
    <3>3. CASE sdsReqType(newlen) = 0
      BY <2>3, <1>1, <3>1, <3>2, <3>3, SMT DEF SdsType
    <3>4. CASE sdsReqType(newlen) # 0
      BY <3>1, <3>4
    <3> QED
      BY <3>3, <3>4
  <2> HIDE DEF type
  <2>5. HdrSize[type] \in Nat /\ HdrSize[type] + HdrMax[0] + 2 * SDS_MAX_PREALLOC < SIZE_MAX
    BY <2>4, Sizes
  <2>6. HdrSize[type] + 1 \in 0 .. SIZE_MAX /\ newlen + (HdrSize[type] + 1) = HdrSize[type] + newlen + 1
    BY <1>1, <2>3, <2>5, SMT
  <2>7. newlen >= reqlen /\ HdrSize[type] + newlen + 1 <= SIZE_MAX
    <3>1. CASE newlen + (HdrSize[type] + 1) <= SIZE_MAX
      <4>1. bytes = newlen + (HdrSize[type] + 1)
        BY <2>3, <2>6, <3>1, SumOfSizes
      <4> HIDE DEF bytes
      <4> QED
        BY <1>1, <2>1, <2>2, <2>3, <2>5, <3>1, <4>1, SMT
    <3>2. CASE newlen + (HdrSize[type] + 1) > SIZE_MAX
      <4>1. bytes = newlen + (HdrSize[type] + 1) - (SIZE_MAX + 1)
        BY <2>3, <2>6, <3>2, SumOfSizes
      <4> HIDE DEF bytes
      <4> QED
        BY <1>1, <2>1, <2>2, <2>3, <2>5, <3>2, <4>1, SMT
    <3> QED
      BY <1>1, <2>3, <2>5, <3>1, <3>2, SMT
  <2>8. s.len <= newlen /\ newlen \in Nat
    BY <1>1, <2>2, <2>3, <2>7, SMT
  <2> DEFINE room == Header(type, s.len, newlen)
  <2>9. Fits(room) /\ room.len = s.len /\ sdsalloc(room) = newlen /\ room.type = type
    BY <1>1, <2>4, <2>7, <2>8, HeaderFits
  <2> HIDE DEF room
  <2>10. sdsavail(room) = newlen - s.len
    BY <2>4, <2>9, SMT DEF sdsavail, sdsalloc
  <2> QED
    BY <1>1, <2>1, <2>2, <2>7, <2>8, <2>9, <2>10, SMT DEF room
<1> QED
  BY <1>4, <1>5

\* A text of n bytes in the room of a string.
LEMMA TextFits ==
  ASSUME NEW s, Fits(s), NEW n \in 0 .. sdsalloc(s), TurnsInto(sdssetlen(s, n), n)
  PROVE  StringsInv'
<1>1. Fits(sdssetlen(s, n)) /\ sdssetlen(s, n).len = n
  BY LengthIsSet
<1>2. n \in Nat
  <2>1. sdsalloc(s) \in Nat
    BY SMT DEF Fits, Headers, sdsalloc
  <2> QED
    BY <2>1, SMT
<1> QED
  BY <1>1, <1>2, Zenon DEF TurnsInto, StringsInv, Fits, sdsalloc

LEMMA StringsStart == SdsInit => StringsInv
  BY SMT DEF SdsInit, StringsInv

LEMMA StringsGoOn == StringsInv /\ [SdsNext]_sdsVars => StringsInv'
<1> SUFFICES ASSUME StringsInv, [SdsNext]_sdsVars PROVE StringsInv'
  OBVIOUS
<1>1. CASE UNCHANGED sdsVars
  BY <1>1, Zenon DEF StringsInv, sdsVars, Fits, sdsalloc
<1>2. ASSUME NEW n \in 0 .. SIZE_MAX, New(n) PROVE StringsInv'
  <2>1. sdsnewlen(n) # NoString /\ str' = sdsnewlen(n) /\ wanted' = n
    BY <1>2 DEF New, TurnsInto
  <2>2. Fits(sdsnewlen(n)) /\ sdsnewlen(n).len = n
    BY <2>1, NewStringFits
  <2>3. n \in Nat
    BY Sizes, SMT
  <2> QED
    BY <2>1, <2>2, <2>3, Zenon DEF StringsInv, Fits, sdsalloc
<1>3. CASE str # NoString
  <2>1. Fits(str) /\ str.len = wanted /\ wanted \in Nat
    BY <1>3 DEF StringsInv
  <2>2. /\ str.type \in SdsType /\ str.len \in Nat /\ sdsalloc(str) \in Nat /\ SIZE_MAX \in Nat
        /\ HdrSize[str.type] \in Nat /\ str.len <= sdsalloc(str) /\ sdsalloc(str) <= SIZE_MAX
        /\ sdsavail(str) = sdsalloc(str) - str.len
    BY <2>1, Sizes, SMT DEF Fits, Headers, sdsalloc, sdsavail
  <2>3. CASE sdsfree
    BY <2>3, SMT DEF sdsfree, StringsInv
  <2>4. CASE sdsclear
    <3>1. TurnsInto(sdssetlen(str, 0), 0)
      BY <2>4 DEF sdsclear
    <3>2. 0 \in 0 .. sdsalloc(str)
      BY <2>2, SMT
    <3> QED
      BY <2>1, <3>1, <3>2, TextFits
  <2>5. CASE RemoveFreeSpace
    <3> DEFINE t == sdsReqType(str.len)
    <3>1. str' = Header(t, str.len, str.len) /\ wanted' = wanted
      BY <2>5 DEF RemoveFreeSpace, TurnsInto, sdsRemoveFreeSpace, sdslen
    <3>2. /\ t \in SdsType /\ str.len <= HdrMax[t] /\ (t # 4 => str.len < TypeBound[t])
          /\ \A u \in SdsType : (u = 4 \/ str.len < TypeBound[u]) => t <= u
      <4>1. str.len \in 0 .. SIZE_MAX
        BY <2>2, SMT
      <4> QED
        BY <4>1, TypeFits
    <3>3. HdrSize[t] + str.len + 1 <= SIZE_MAX
      <4>1. HdrSize[t] <= HdrSize[str.type]
        <5>1. str.type = 4 \/ str.len < TypeBound[str.type]
          <6>1. TypeBound[str.type] \in Nat
            BY <2>2, Sizes
          <6> QED
            BY <2>1, <2>2, <6>1, SMT DEF Fits
        <5>2. t <= str.type
          BY <2>2, <3>2, <5>1
        <5> QED
          BY <2>2, <3>2, <5>2, SdsAssumption
      <4>2. HdrSize[t] \in Nat /\ HdrSize[str.type] + sdsalloc(str) + 1 <= SIZE_MAX
        BY <2>1, <2>2, <3>2, Sizes, SMT DEF Fits, Headers
      <4> QED
        BY <2>2, <4>1, <4>2, SMT
    <3>4. Fits(Header(t, str.len, str.len)) /\ Header(t, str.len, str.len).len = str.len
      <4>1. str.len <= str.len
        BY <2>2, SMT
      <4> HIDE DEF t
      <4> QED
        BY <2>2, <3>2, <3>3, <4>1, HeaderFits
    <3> QED
      BY <2>1, <3>1, <3>4, Zenon DEF StringsInv, Fits, sdsalloc
  <2>6. ASSUME NEW n \in 0 .. SIZE_MAX, MakeRoom(n) PROVE StringsInv'
    <3>1. sdsMakeRoomFor(str, n) # NoString /\ str' = sdsMakeRoomFor(str, n) /\ wanted' = wanted
      BY <2>6 DEF MakeRoom, TurnsInto
    <3>2. Fits(sdsMakeRoomFor(str, n)) /\ sdsMakeRoomFor(str, n).len = str.len
      BY <2>1, <3>1, RoomIsMade
    <3> QED
      BY <2>1, <3>1, <3>2, Zenon DEF StringsInv, Fits, sdsalloc
  <2>7. ASSUME NEW n \in 0 .. SIZE_MAX, sdsgrowzero(n) PROVE StringsInv'
    <3> DEFINE room == sdsMakeRoomFor(str, n - str.len)
    <3>1. n > str.len /\ room # NoString /\ TurnsInto(sdssetlen(room, n), n)
      BY <2>7 DEF sdsgrowzero, sdslen
    <3>2. n - str.len \in 0 .. SIZE_MAX
      BY <2>2, <3>1, SMT
    <3>3. Fits(room) /\ str.len + (n - str.len) <= sdsalloc(room)
      BY <2>1, <3>1, <3>2, RoomIsMade
    <3>4. sdsalloc(room) \in Nat
      BY <3>3, SMT DEF Fits, Headers, sdsalloc
    <3> HIDE DEF room
    <3>5. n \in 0 .. sdsalloc(room)
      BY <2>2, <3>3, <3>4, SMT
    <3> QED
      BY <3>1, <3>3, <3>5, TextFits
  <2>8. ASSUME NEW n \in 0 .. SIZE_MAX, AppendBytes(n) PROVE StringsInv'
    <3> DEFINE room == sdsMakeRoomFor(str, n)
    <3>1. room # NoString /\ TurnsInto(sdssetlen(room, str.len + n), str.len + n)
      BY <2>1, <2>8 DEF AppendBytes, sdslen
    <3>2. Fits(room) /\ str.len + n <= sdsalloc(room)
      BY <2>1, <3>1, RoomIsMade
    <3>3. sdsalloc(room) \in Nat
      BY <3>2, SMT DEF Fits, Headers, sdsalloc
    <3> HIDE DEF room
    <3>4. str.len + n \in 0 .. sdsalloc(room)
      BY <2>2, <3>2, <3>3, SMT
    <3> QED
      BY <3>1, <3>2, <3>4, TextFits
  <2>9. ASSUME NEW n \in 0 .. SIZE_MAX, sdscpylen(n) PROVE StringsInv'
    <3> DEFINE room == IF sdsalloc(str) < n THEN sdsMakeRoomFor(str, n - str.len) ELSE str
    <3>1. room # NoString /\ TurnsInto(sdssetlen(room, n), n)
      BY <2>9 DEF sdscpylen, sdslen
    <3>2. Fits(room) /\ n <= sdsalloc(room)
      <4>1. CASE sdsalloc(str) < n
        <5>1. n - str.len \in 0 .. SIZE_MAX /\ str.len + (n - str.len) = n
          BY <2>2, <4>1, SMT
        <5>2. room = sdsMakeRoomFor(str, n - str.len)
          BY <4>1
        <5> QED
          BY <2>1, <3>1, <5>1, <5>2, RoomIsMade
      <4>2. CASE ~(sdsalloc(str) < n)
        <5>1. room = str
          BY <4>2
        <5> QED
          BY <2>1, <2>2, <4>2, <5>1, SMT
      <4> QED
        BY <4>1, <4>2
    <3>3. sdsalloc(room) \in Nat
      BY <3>2, SMT DEF Fits, Headers, sdsalloc
    <3> HIDE DEF room
    <3>4. n \in 0 .. sdsalloc(room)
      BY <2>2, <3>2, <3>3, SMT
    <3> QED
      BY <3>1, <3>2, <3>4, TextFits
  <2>10. ASSUME NEW n \in 0 .. SIZE_MAX, sdscatfmt(n) PROVE StringsInv'
    <3> DEFINE one == IF sdsavail(str) = 0 THEN sdsMakeRoomFor(str, 1) ELSE str
               room == IF sdsavail(one) < n THEN sdsMakeRoomFor(one, n) ELSE one
    <3>1. one # NoString /\ room # NoString /\ TurnsInto(sdsinclen(room, n), str.len + n)
      BY <2>1, <2>10 DEF sdscatfmt
    <3>2. Fits(one) /\ one.len = str.len
      <4>1. 1 \in 0 .. SIZE_MAX
        BY Sizes, SMT DEF SdsType
      <4> QED
        BY <2>1, <3>1, <4>1, RoomIsMade
    <3> HIDE DEF one
    <3>3. Fits(room) /\ room.len = str.len /\ str.len + n <= sdsalloc(room)
      <4>1. CASE sdsavail(one) < n
        BY <3>1, <3>2, <4>1, RoomIsMade
      <4>2. CASE ~(sdsavail(one) < n)
        <5>1. room = one
          BY <4>2
        <5>2. one.len \in Nat /\ one.alloc \in Nat /\ n \in Nat
          BY <2>2, <3>2, SMT DEF Fits, Headers
        <5>3. str.len + n <= sdsalloc(one)
          BY <3>2, <4>2, <5>2, SMT DEF sdsavail, sdsalloc
        <5> QED
          BY <3>2, <5>1, <5>3
      <4> QED
        BY <4>1, <4>2
    <3> HIDE DEF room
    <3>4. sdsalloc(room) \in Nat
      BY <3>3, SMT DEF Fits, Headers, sdsalloc
    <3>5. str.len + n \in 0 .. sdsalloc(room)
      BY <2>2, <3>3, <3>4, SMT
    <3>6. sdsinclen(room, n) = sdssetlen(room, str.len + n)
      BY <3>3 DEF sdsinclen, sdssetlen
    <3> QED
      BY <3>1, <3>3, <3>5, <3>6, TextFits
  <2>11. ASSUME NEW n \in -SIZE_MAX .. SIZE_MAX, sdsIncrLen(n) PROVE StringsInv'
    <3>1. n <= sdsavail(str) /\ -n <= str.len /\ TurnsInto(sdssetlen(str, str.len + n), str.len + n)
      BY <2>1, <2>11 DEF sdsIncrLen, sdslen
    <3>2. str.len + n \in 0 .. sdsalloc(str)
      BY <2>2, <3>1, SMT
    <3> QED
      BY <2>1, <3>1, <3>2, TextFits
  <2>12. ASSUME NEW first \in -SSIZE_MAX .. SSIZE_MAX, NEW last \in -SSIZE_MAX .. SSIZE_MAX,
                Substring(first, last)
         PROVE  StringsInv'
    <3> DEFINE len == str.len
               From(k) == IF k >= 0 THEN k ELSE IF len + k < 0 THEN 0 ELSE len + k
               newlen == IF From(first) > From(last) \/ From(first) >= len THEN 0
                         ELSE (IF From(last) >= len THEN len - 1 ELSE From(last)) - From(first) + 1
    <3>1. TurnsInto(sdssetlen(str, newlen), newlen)
      BY <2>12 DEF Substring, sdslen
    <3>2. SSIZE_MAX \in Nat
      BY <2>2, SMT DEF SSIZE_MAX
    <3>3. From(first) \in Nat /\ From(last) \in Nat
      BY <2>2, <3>2, SMT
    <3>4. newlen \in 0 .. sdsalloc(str)
      <4> HIDE DEF From
      <4> QED
        BY <2>2, <3>3, SMT
    <3> HIDE DEF newlen
    <3> QED
      BY <2>1, <3>1, <3>4, TextFits
  <2> QED
    BY <1>1, <1>2, <1>3, <2>3, <2>4, <2>5, <2>6, <2>7, <2>8, <2>9, <2>10, <2>11, <2>12, Zenon DEF SdsNext
<1> QED
  BY <1>1, <1>2, <1>3, Zenon DEF SdsNext

(* For every width of size_t and of the fields, and every sequence of      *)
(* calls: the header tells the length, and the text fits into its block.   *)
THEOREM StringsAlwaysFit == SdsSpec => []StringsFit
<1>1. StringsInv => StringsFit
  BY SMT DEF StringsInv, StringsFit, Fits, sdslen
<1> QED
  BY <1>1, StringsStart, StringsGoOn, PTL DEF SdsSpec

================================================================================
