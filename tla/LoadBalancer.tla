----------------------------- MODULE LoadBalancer -----------------------------
(***************************************************************************)
(* The load balancer, loadBalancer/loadBalancer.c: a table of chat servers *)
(* in shared memory, a child per client that picks the alive server with   *)
(* the fewest connections, a thread that probes the servers, and a thread  *)
(* that applies the reports the servers send over UDP.  A report may be    *)
(* lost, duplicated or overtaken; a server may stop and start again.       *)
(*                                                                         *)
(* Each critical section of the table's mutex is one action.  The one that *)
(* takes long is the first health check: main probes every server under    *)
(* the mutex.                                                              *)
(***************************************************************************)
EXTENDS Integers, Sequences, FiniteSets, Bags

CONSTANTS ServerCount,    \* entries of g_servers_template
          UdpPort,        \* the udp_port of each entry, also the port it reports
          Client,         \* clients that look for a server at the same time
          MaxSessions,    \* bound on the sessions that are started
          MaxReports,     \* bound on the reports of a server that are under way
          MaxTroubles     \* bound on lost and duplicated reports, probes that time
                          \* out, and servers that stop

Server == 1 .. ServerCount

ASSUME LoadBalancerAssumption ==
  /\ {ServerCount, MaxSessions, MaxReports, MaxTroubles} \subseteq Nat
  /\ UdpPort \in [Server -> Nat]

VARIABLES connections, alive,   \* the table: two fields of each ServerEntry
          checked,    \* servers that main has probed under the mutex, -1 before it
          results,    \* what health_thread has found in this round
          client,     \* how far each client has come, and with which server
          up,         \* the chat servers that run
          heartbeat,  \* the user count heartbeat_thread is about to send, or -1
          network,    \* the reports under way, a bag
          started,    \* sessions started so far
          troubles    \* troubles met so far

table == <<connections, alive>>
vars == <<connections, alive, checked, results, client, up, heartbeat, network,
          started, troubles>>

\* The port tells the balancer who reports; ip is where the report comes from.
Report ==
  [event : {"connect", "disconnect"}, ip : Server, port : Nat]
    \cup [event : {"heartbeat"}, ip : Server, port : Nat, connections : Nat]

Nowhere == [stage |-> "idle", server |-> 0]
At(stage, s) == [stage |-> stage, server |-> s]

\* The users in the shared memory of a chat server.
Registered(s) ==
  {c \in Client : client[c].server = s
                    /\ client[c].stage \in {"registered", "session", "leaving"}}

Init ==
  /\ connections = [s \in Server |-> 0]
  /\ alive = [s \in Server |-> FALSE]
  /\ checked = -1
  /\ results = << >>
  /\ client = [c \in Client |-> Nowhere]
  /\ up \in [Server -> BOOLEAN]
  /\ heartbeat = [s \in Server |-> -1]
  /\ network = EmptyBag
  /\ started = 0
  /\ troubles = 0

MutexIsFree == checked \notin 0 .. ServerCount - 1
Started == checked = ServerCount

Trouble ==
  /\ troubles < MaxTroubles
  /\ troubles' = troubles + 1

-----------------------------------------------------------------------------
(***************************************************************************)
(* Health checks                                                           *)
(***************************************************************************)
\* A connect within two seconds; a server that is slow counts as dead.
is_reachable(s, answer) ==
  \/ answer = up[s] /\ UNCHANGED troubles
  \/ up[s] /\ ~answer /\ Trouble

\* main takes the mutex after both threads were started.
BeginFirstCheck ==
  /\ checked = -1
  /\ checked' = 0
  /\ UNCHANGED <<table, results, client, up, heartbeat, network, started, troubles>>

FirstCheck ==
  /\ checked \in 0 .. ServerCount - 1
  /\ \E answer \in BOOLEAN :
       /\ is_reachable(checked + 1, answer)
       /\ alive' = [alive EXCEPT ![checked + 1] = answer]
  /\ checked' = checked + 1
  /\ UNCHANGED <<connections, results, client, up, heartbeat, network, started>>

\* health_thread reads the addresses, then probes one server after the other
\* without the mutex.
Probe ==
  /\ Len(results) < ServerCount
  /\ results = << >> => MutexIsFree
  /\ \E answer \in BOOLEAN :
       /\ is_reachable(Len(results) + 1, answer)
       /\ results' = Append(results, answer)
  /\ UNCHANGED <<table, checked, client, up, heartbeat, network, started>>

\* Mutant: only the servers that answered are brought up to date.
WriteAnswers ==
  /\ MutexIsFree
  /\ Len(results) = ServerCount
  /\ alive' = [s \in Server |-> alive[s] \/ results[s]]
  /\ results' = << >>
  /\ UNCHANGED <<connections, checked, client, up, heartbeat, network, started, troubles>>

\* The results, by now out of date perhaps, replace what the table says; a server
\* that was alive and is not any more has no connections.
WriteResults ==
  /\ MutexIsFree
  /\ Len(results) = ServerCount
  /\ alive' = [s \in Server |-> results[s]]
  /\ connections' = [s \in Server |->
       IF alive[s] /\ ~results[s] THEN 0 ELSE connections[s]]
  /\ results' = << >>
  /\ UNCHANGED <<checked, client, up, heartbeat, network, started, troubles>>

-----------------------------------------------------------------------------
(***************************************************************************)
(* Reports                                                                 *)
(***************************************************************************)
UnderWay(s) == {m \in BagToSet(network) : m.ip = s}

\* report_load_balancer and the end of heartbeat_thread: one datagram.
Send(m) ==
  /\ BagCardinality([x \in UnderWay(m.ip) |-> CopiesIn(x, network)]) < MaxReports
  /\ network' = network (+) SetToBag({m})

Lose(m) ==
  /\ BagIn(m, network)
  /\ Trouble
  /\ network' = network (-) SetToBag({m})
  /\ UNCHANGED <<table, checked, results, client, up, heartbeat, started>>

Duplicate(m) ==
  /\ BagIn(m, network)
  /\ Trouble
  /\ network' = network (+) SetToBag({m})
  /\ UNCHANGED <<table, checked, results, client, up, heartbeat, started>>

\* The entries with the port of the report; the first of them takes it.
Matching(m) == {s \in Server : UdpPort[s] = m.port}
Entry(m) == CHOOSE s \in Matching(m) : \A t \in Matching(m) : s <= t

\* Mutant: a heartbeat adds its users.
CountedUp(n, m) ==
  CASE m.event = "connect" -> n + 1
    [] m.event = "disconnect" -> IF n > 0 THEN n - 1 ELSE n
    [] m.event = "heartbeat" -> n + m.connections

\* What a report makes of the connections of an entry.
Counted(n, m) ==
  CASE m.event = "connect" -> n + 1
    [] m.event = "disconnect" -> IF n > 0 THEN n - 1 ELSE n
    [] m.event = "heartbeat" -> m.connections

\* udp_thread; the order of arrival need not be the order of sending.
Receive(m) ==
  /\ MutexIsFree
  /\ BagIn(m, network)
  /\ network' = network (-) SetToBag({m})
  /\ connections' = IF Matching(m) = {} THEN connections
                    ELSE [connections EXCEPT ![Entry(m)] = Counted(@, m)]
  /\ UNCHANGED <<alive, checked, results, client, up, heartbeat, started, troubles>>

-----------------------------------------------------------------------------
(***************************************************************************)
(* Clients of the balancer                                                 *)
(***************************************************************************)
\* The child of a new connection.
Accept(c) ==
  /\ Started
  /\ started < MaxSessions
  /\ client[c].stage = "idle"
  /\ client' = [client EXCEPT ![c] = At("accepted", 0)]
  /\ started' = started + 1
  /\ UNCHANGED <<table, checked, results, up, heartbeat, network, troubles>>

\* The first of the alive servers with the fewest connections.
Best(s) ==
  /\ alive[s]
  /\ \A t \in Server : alive[t] =>
       \/ connections[s] < connections[t]
       \/ connections[s] = connections[t] /\ s <= t

pick_server(c) ==
  /\ client[c].stage = "accepted"
  /\ \/ /\ \A s \in Server : ~alive[s]     \* "No hay servidores disponibles"
        /\ client' = [client EXCEPT ![c] = Nowhere]
     \/ \E s \in Server :
          /\ Best(s)
          /\ client' = [client EXCEPT ![c] = At("picked", s)]
  /\ UNCHANGED <<table, checked, results, up, heartbeat, network, started, troubles>>

\* The address of the entry is copied in a critical section of its own.
Redirect(c) ==
  /\ client[c].stage = "picked"
  /\ client' = [client EXCEPT ![c].stage = "redirected"]
  /\ UNCHANGED <<table, checked, results, up, heartbeat, network, started, troubles>>

-----------------------------------------------------------------------------
(***************************************************************************)
(* The chat servers, as far as the balancer sees them                      *)
(***************************************************************************)
\* The client connects where it was sent and is registered, or gives up.
Enter(c) ==
  /\ client[c].stage = "redirected"
  /\ \/ /\ up[client[c].server]
        /\ client' = [client EXCEPT ![c].stage = "registered"]
     \/ client' = [client EXCEPT ![c] = Nowhere]
  /\ UNCHANGED <<table, checked, results, up, heartbeat, network, started, troubles>>

ReportConnect(c) ==
  LET s == client[c].server
  IN /\ client[c].stage = "registered"
     /\ Send([event |-> "connect", ip |-> s, port |-> UdpPort[s]])
     /\ client' = [client EXCEPT ![c].stage = "session"]
     /\ UNCHANGED <<table, checked, results, up, heartbeat, started, troubles>>

ReportDisconnect(c) ==
  LET s == client[c].server
  IN /\ client[c].stage = "session"
     /\ Send([event |-> "disconnect", ip |-> s, port |-> UdpPort[s]])
     /\ client' = [client EXCEPT ![c].stage = "leaving"]
     /\ UNCHANGED <<table, checked, results, up, heartbeat, started, troubles>>

Unregister(c) ==
  /\ client[c].stage = "leaving"
  /\ client' = [client EXCEPT ![c] = Nowhere]
  /\ UNCHANGED <<table, checked, results, up, heartbeat, network, started, troubles>>

\* heartbeat_thread counts under its server's mutex and sends afterwards.
CountUsers(s) ==
  /\ up[s]
  /\ heartbeat[s] = -1
  /\ heartbeat' = [heartbeat EXCEPT ![s] = Cardinality(Registered(s))]
  /\ UNCHANGED <<table, checked, results, client, up, network, started, troubles>>

SendHeartbeat(s) ==
  /\ heartbeat[s] # -1
  /\ Send([event |-> "heartbeat", ip |-> s, port |-> UdpPort[s],
           connections |-> heartbeat[s]])
  /\ heartbeat' = [heartbeat EXCEPT ![s] = -1]
  /\ UNCHANGED <<table, checked, results, client, up, started, troubles>>

\* A server stops without a word to the balancer; its clients are cut off.
Stop(s) ==
  /\ up[s]
  /\ Trouble
  /\ up' = [up EXCEPT ![s] = FALSE]
  /\ client' = [c \in Client |-> IF c \in Registered(s) THEN Nowhere ELSE client[c]]
  /\ heartbeat' = [heartbeat EXCEPT ![s] = -1]
  /\ UNCHANGED <<table, checked, results, network, started>>

Restart(s) ==
  /\ ~up[s]
  /\ up' = [up EXCEPT ![s] = TRUE]
  /\ UNCHANGED <<table, checked, results, client, heartbeat, network, started, troubles>>

-----------------------------------------------------------------------------
StartUp == BeginFirstCheck \/ FirstCheck

Check == Probe \/ WriteResults

Serve(c) == pick_server(c) \/ Redirect(c)

Attend(c) == Enter(c) \/ ReportConnect(c) \/ Unregister(c)

Beat(s) == CountUsers(s) \/ SendHeartbeat(s)

Transit == \E m \in BagToSet(network) : Receive(m) \/ Lose(m) \/ Duplicate(m)

Next ==
  \/ StartUp
  \/ Check
  \/ Transit
  \/ \E c \in Client : Accept(c) \/ Serve(c) \/ Attend(c) \/ ReportDisconnect(c)
  \/ \E s \in Server : Beat(s) \/ Stop(s) \/ Restart(s)

Spec == Init /\ [][Next]_vars

\* The reports that can be sent.
Sendable ==
  {m \in [event : {"connect", "disconnect"}, ip : Server, port : {UdpPort[s] : s \in Server}]
           \cup [event : {"heartbeat"}, ip : Server, port : {UdpPort[s] : s \in Server},
                 connections : 0 .. Cardinality(Client)] : m.port = UdpPort[m.ip]}

\* Threads and children that can run do run, and no report is under way forever.
FairSpec ==
  /\ Spec
  /\ WF_vars(StartUp)
  /\ WF_vars(Check)
  /\ \A m \in Sendable : WF_vars(Receive(m))
  /\ \A c \in Client : WF_vars(Serve(c)) /\ WF_vars(Attend(c))
  /\ \A s \in Server : WF_vars(Beat(s))

-----------------------------------------------------------------------------
(***************************************************************************)
(* Properties                                                              *)
(***************************************************************************)
\* The table never shows a negative load, however reports are lost or reordered,
\* and a client that was sent somewhere was sent to an entry of the table.
TypeOK ==
  /\ connections \in [Server -> Nat]
  /\ alive \in [Server -> BOOLEAN]
  /\ checked \in -1 .. ServerCount
  /\ results \in Seq(BOOLEAN) /\ Len(results) <= ServerCount
  /\ \A c \in Client :
       /\ client[c].stage \in {"idle", "accepted"} => client[c].server = 0
       /\ client[c].stage \in {"picked", "redirected", "registered", "session", "leaving"} =>
            client[c].server \in Server
  /\ up \in [Server -> BOOLEAN]
  /\ heartbeat \in [Server -> -1 .. Cardinality(Client)]
  /\ BagToSet(network) \subseteq Report
  /\ started \in Nat
  /\ troubles \in 0 .. MaxTroubles

\* Once the troubles are over and no session starts (both are bounded), the load
\* of a running server is the number of its users: heartbeats make up for reports
\* that were lost, duplicated, overtaken or wiped out by a failed health check.
LoadConverges ==
  \A s \in Server : <>[]up[s] => <>[](connections[s] = Cardinality(Registered(s)))

\* A server that stops for good is no longer picked, one that comes back is picked
\* again: the table follows, although its results are out of date when written.
AliveFollowsUp ==
  \A s \in Server : (<>[]up[s] => <>[]alive[s]) /\ (<>[]~up[s] => <>[]~alive[s])

\* "Intento 1: coincidencia exacta IP + puerto": a report that raises the load of a
\* server came from that server.
ReportsRaiseTheirOwnServer ==
  [][\A s \in Server : connections'[s] > connections[s] =>
       \E m \in BagToSet(network) : m.ip = s]_vars

===============================================================================
