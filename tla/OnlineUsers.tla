------------------------------ MODULE OnlineUsers ------------------------------
(***************************************************************************)
(* Who is shown as online: users come and go at several chat servers, and  *)
(* a client process, a desktop client or a web gateway with its browsers,  *)
(* logs in meanwhile.                                                      *)
(*                                                                         *)
(* A client is told in three ways.  At its login every CHAT_USER line gets *)
(* a flag that is read when the line is forwarded; once the client is in   *)
(* the table it is sent USER_ONLINE for everybody in Redis; both by TCP.   *)
(* From then on USER_ONLINE and USER_OFFLINE come as datagrams, from the   *)
(* server of the user and through Redis from the client's own server.      *)
(* Whether the set in Redis is right is the subject of Presence.           *)
(***************************************************************************)
EXTENDS Naturals, FiniteSets, SequencesExt

CONSTANTS Person,          \* the users who come and go
          Viewer,          \* the TCP connections of the client process
          Host,            \* the chat servers
          HostOf(_),       \* where each viewer is connected
          MaxMoves         \* bound on the comings and goings of each user

ASSUME OnlineUsersAssumption ==
  /\ \A v \in Viewer : HostOf(v) \in Host
  /\ MaxMoves \in Nat

VARIABLES
  stage, home, moves,     \* of each user: how far the child has come, on which server, events
  redis,                  \* online_user_ids
  published, direct,      \* what subscribers have yet to read; datagrams of the user's server
  web,                    \* whether the process is a web gateway
  entry,                  \* how far the login of each viewer is
  unsent, lines,          \* CHAT_USER lines that are to be forwarded, and those under way
  shown, sync,            \* whom the client shows how; the buffer of the login, in a gateway
  seen, recent,           \* lines that the filters of a gateway know
  last, stale,            \* history: the last event that came of each user, and users whose
                          \* events came in the wrong order, or were dropped though news
  slipped                 \* history: users who left during the login

people == <<stage, home, moves, redis>>
copies == <<published, direct>>
login == <<entry, unsent>>
display == <<shown, sync, seen, recent, last>>
onlineVars == <<people, copies, web, login, lines, display, stale, slipped>>

Unknown == [u \in Person |-> "unknown"]

OnlineInit ==
  /\ stage \in [Person -> {"new", "out", "in"}]     \* new: without an account
  /\ home \in [Person -> Host]
  /\ moves = [u \in Person |-> 0]
  /\ redis = {u \in Person : stage[u] = "in"}
  /\ published = [h \in Host |-> << >>] /\ direct = {}
  /\ web \in BOOLEAN
  /\ entry = [v \in Viewer |-> "none"]
  /\ unsent = [v \in Viewer |-> {}]
  /\ lines = [v \in Viewer |-> << >>]
  /\ shown = [v \in Viewer |-> Unknown]
  /\ sync = [v \in Viewer |-> Unknown]
  /\ seen = [v \in Viewer |-> {}]
  /\ recent = {}
  /\ last = [v \in Viewer |-> [u \in Person |-> 0]]
  /\ stale = [v \in Viewer |-> {}]
  /\ slipped = [v \in Viewer |-> {}]

-----------------------------------------------------------------------------
(***************************************************************************)
(* The child of a user                                                     *)
(***************************************************************************)
Steps(u, from, to) == stage[u] = from /\ stage' = [stage EXCEPT ![u] = to]
Kind(u) == IF stage[u] \in {"online", "told"} THEN "online" ELSE "offline"
Event(u) == [kind |-> Kind(u), user |-> u, number |-> moves[u]]

\* Viewers that are in the table of their server.
InTable(v) == entry[v] \in {"registered", "listing", "in"}

\* The user logs in on some server and is in its table.
Come(u) ==
  /\ moves[u] < MaxMoves
  /\ Steps(u, "new", "registered") \/ Steps(u, "out", "registered")
  /\ \E h \in Host : home' = [home EXCEPT ![u] = h]
  /\ moves' = [moves EXCEPT ![u] = @ + 1]
  /\ UNCHANGED <<redis, copies>>

redis_user_online(u) ==
  /\ Steps(u, "registered", "online")
  /\ redis' = redis \cup {u}
  /\ UNCHANGED <<home, moves, copies>>

Leave(u) ==
  /\ moves[u] < MaxMoves
  /\ Steps(u, "in", "leaving")
  /\ moves' = [moves EXCEPT ![u] = @ + 1]
  /\ UNCHANGED <<home, redis, copies>>

redis_user_offline(u) ==
  /\ Steps(u, "leaving", "offline")
  /\ redis' = redis \ {u}
  /\ UNCHANGED <<home, moves, copies>>

\* To the viewers in the table of the server, and to the desktop clients of the network.
udp_broadcast_all(u) ==
  /\ Steps(u, "online", "told") \/ Steps(u, "offline", "untold")
  /\ direct' = IF (\E v \in Viewer : InTable(v) /\ HostOf(v) = home[u])
                  \/ (~web /\ \E v \in Viewer : entry[v] # "none")
               THEN direct \cup {Event(u)} ELSE direct
  /\ UNCHANGED <<home, moves, redis, published>>

publish(u) ==
  /\ Steps(u, "told", "in") \/ Steps(u, "untold", "gone")
  /\ published' = [h \in Host |-> Append(published[h], Event(u))]
  /\ UNCHANGED <<home, moves, redis, direct>>

shm_unregister_user(u) ==
  /\ Steps(u, "gone", "out")
  /\ UNCHANGED <<home, moves, redis, copies>>

broadcast(u) ==
  \/ Come(u) \/ redis_user_online(u) \/ udp_broadcast_all(u) \/ publish(u)
  \/ Leave(u) \/ redis_user_offline(u) \/ shm_unregister_user(u)

-----------------------------------------------------------------------------
(***************************************************************************)
(* The child of a viewer                                                   *)
(***************************************************************************)
Enters(v, from, to) == entry[v] = from /\ entry' = [entry EXCEPT ![v] = to]
Sends(v, more) == lines' = [lines EXCEPT ![v] = @ \o more]

\* The database was asked: lines of the users who have an account.
Authenticate(v) ==
  /\ web \/ \A w \in Viewer : entry[w] = "none"
  /\ Enters(v, "none", "reading")
  /\ unsent' = [unsent EXCEPT ![v] = {u \in Person : stage[u] # "new"}]
  /\ Sends(v, <<[kind |-> "start", number |-> 0]>>)

\* Mutant: the slot of a user who has left counts.
IsOnlineOrLeft(u, h) == (stage[u] # "new" /\ home[u] = h) \/ u \in redis

\* In the table of this server, or in Redis.
IsOnline(u, h) == (stage[u] \notin {"new", "out"} /\ home[u] = h) \/ u \in redis

forward_db_line(v) ==
  /\ entry[v] = "reading" /\ UNCHANGED entry
  /\ \E u \in unsent[v] :
       /\ unsent' = [unsent EXCEPT ![v] = @ \ {u}]
       /\ Sends(v, <<[kind |-> "CHAT_USER", user |-> u,
                      flag |-> IF IsOnline(u, HostOf(v)) THEN "online" ELSE "offline",
                      number |-> 0]>>)

forward_end(v) ==
  /\ Enters(v, "reading", "synced") /\ unsent[v] = {}
  /\ Sends(v, <<[kind |-> "end", number |-> 0]>>)
  /\ UNCHANGED unsent

shm_register_user(v) ==
  /\ Enters(v, "synced", "registered")
  /\ UNCHANGED <<unsent, lines>>

\* SMEMBERS; the lines follow one by one.
notify_existing_online_users(v) ==
  /\ Enters(v, "registered", "listing")
  /\ unsent' = [unsent EXCEPT ![v] = redis]
  /\ UNCHANGED lines

send_line(v) ==
  /\ entry[v] = "listing" /\ UNCHANGED entry
  /\ \E u \in unsent[v] :
       /\ unsent' = [unsent EXCEPT ![v] = @ \ {u}]
       /\ Sends(v, <<[kind |-> "online", user |-> u, number |-> 0]>>)

Told(v) ==
  /\ Enters(v, "listing", "in") /\ unsent[v] = {}
  /\ UNCHANGED <<unsent, lines>>

LogIn(v) ==
  \/ Authenticate(v) \/ forward_db_line(v) \/ forward_end(v) \/ shm_register_user(v)
  \/ notify_existing_online_users(v) \/ send_line(v) \/ Told(v)

-----------------------------------------------------------------------------
(***************************************************************************)
(* The client                                                              *)
(***************************************************************************)
\* networkClient.py: what is shown is changed at once, flags too.
DesktopShows(s, line) ==
  CASE line.kind = "start" -> Unknown
    [] line.kind = "CHAT_USER" -> [s EXCEPT ![line.user] = line.flag]
    [] line.kind \in {"online", "offline"} -> [s EXCEPT ![line.user] = line.kind]
    [] OTHER -> s

\* protocol.py and main.js: the flags are shown when SYNC_END comes, in the place of what
\* was shown before; who is not known cannot go offline.
BrowserShows(s, buffer, line) ==
  CASE line.kind = "end" -> buffer
    [] line.kind = "online" -> [s EXCEPT ![line.user] = "online"]
    [] line.kind = "offline" ->
         [s EXCEPT ![line.user] = IF @ = "unknown" THEN @ ELSE "offline"]
    [] OTHER -> s

Buffers(buffer, line) ==
  CASE line.kind \in {"start", "end"} -> Unknown
    [] line.kind = "CHAT_USER" -> [buffer EXCEPT ![line.user] = line.flag]
    [] OTHER -> buffer

\* Lines of the login have no number.  The number is not in the text.
IsEvent(line) == line.number # 0
Text(line) == [line EXCEPT !.number = 0]

\* The line is handled by these viewers.
Handled(V, line) ==
  /\ shown' = [v \in Viewer |->
       IF v \notin V THEN shown[v]
       ELSE IF web THEN BrowserShows(shown[v], sync[v], line) ELSE DesktopShows(shown[v], line)]
  /\ sync' = [v \in Viewer |-> IF v \in V /\ web THEN Buffers(sync[v], line) ELSE sync[v]]

\* The line makes a difference to what is shown of a user.
IsNews(v, line) ==
  /\ line.kind \in {"online", "offline"}
  /\ line.kind # shown[v][line.user]
  /\ IsEvent(line) => line.number >= last[v][line.user]

\* An event that comes before the lines of the login it follows.
Early(v, line) == IsEvent(line) /\ \E i \in DOMAIN lines[v] : lines[v][i].kind = "end"

\* What the viewer shows of the user may be wrong: it drops a line although it is news, or
\* handles an event after a later one.
Misleads(v, dropping, line) ==
  \/ Early(v, line)
  \/ v \in dropping /\ IsNews(v, line)
  \/ v \notin dropping /\ IsEvent(line) /\ line.number < last[v][line.user]

\* The line comes to these viewers, some of which drop it.
Comes(V, dropping, line) ==
  /\ last' = [v \in Viewer |->
       IF v \in V /\ IsEvent(line) /\ line.number > last[v][line.user]
       THEN [last[v] EXCEPT ![line.user] = line.number] ELSE last[v]]
  /\ stale' = [v \in Viewer |-> IF v \in V /\ Misleads(v, dropping, line)
                                THEN stale[v] \cup {line.user} ELSE stale[v]]

\* _is_dup: a browser's gateway drops a line that it knows.  Other lines may have filled
\* the set, so that it is emptied.
Dispatch(V, line) ==
  LET dropping == {v \in V : web /\ Text(line) \in seen[v]}
  IN /\ Handled(V \ dropping, line)
     /\ Comes(V, dropping, line)
     /\ \E emptied \in {{}, V \ dropping} :
          seen' = [v \in Viewer |-> IF v \in emptied THEN {}
                                    ELSE IF v \in V /\ web THEN seen[v] \cup {Text(line)}
                                    ELSE seen[v]]

ReceiveLine(v) ==
  /\ lines[v] # << >>
  /\ lines' = [lines EXCEPT ![v] = Tail(@)]
  /\ Dispatch({v}, Head(lines[v]))
  /\ UNCHANGED recent

\* The UDP socket is there from the start in a gateway.
Hearing == {v \in Viewer : web \/ entry[v] # "none"}

\* _is_duplicate_udp: a datagram that came in the last five seconds is dropped.
Datagram(line) ==
  \/ /\ web /\ Text(line) \in recent
     /\ Comes(Viewer, Viewer, line)
     /\ UNCHANGED <<shown, sync, seen, recent>>
  \/ /\ recent' = IF web THEN recent \cup {Text(line)} ELSE recent
     /\ Dispatch(Hearing, line)

ReceiveDirect ==
  /\ \E line \in direct : Datagram(line)
  /\ UNCHANGED <<copies, lines>>

\* redis_subscriber_thread of a server sends the datagram to the viewers in its table.
ReceiveRelay(h) ==
  /\ published[h] # << >>
  /\ published' = [published EXCEPT ![h] = Tail(@)]
  /\ IF \E v \in Viewer : InTable(v) /\ HostOf(v) = h
     THEN Datagram(Head(published[h])) ELSE UNCHANGED <<display, stale>>
  /\ UNCHANGED <<direct, lines>>

-----------------------------------------------------------------------------
LoggingIn(v) == entry[v] \notin {"none", "in"} \/ lines[v] # << >>
Leaving(u) == stage[u] \in {"leaving", "offline", "untold", "gone"}

OnlineNext ==
  /\ \/ \E u \in Person : broadcast(u) /\ UNCHANGED <<web, login, lines, display, stale>>
     \/ \E v \in Viewer : LogIn(v) /\ UNCHANGED <<people, copies, web, display, stale>>
     \/ \E v \in Viewer : ReceiveLine(v) /\ UNCHANGED <<people, copies, web, login>>
     \/ (ReceiveDirect \/ \E h \in Host : ReceiveRelay(h)) /\ UNCHANGED <<people, web, login>>
  /\ slipped' = [v \in Viewer |->
                   slipped[v] \cup {u \in Person : Leaving(u)' /\ LoggingIn(v)'}]

OnlineSpec == OnlineInit /\ [][OnlineNext]_onlineVars

-----------------------------------------------------------------------------
(***************************************************************************)
(* Properties                                                              *)
(***************************************************************************)
\* Once all is handled a client shows who is online and nobody else, whenever they came:
\* before, during or after its login, on whichever server.  Except for users who left while
\* it was logging in, and those of whom it dropped a line for a copy of an earlier one, or
\* got the events in the wrong order or before the lines of its login.
OnlineUsersAreShown ==
  \A v \in Viewer :
    /\ entry[v] = "in" /\ lines[v] = << >>
    /\ \A h \in Host : published[h] = << >>
    => \A u \in Person \ (stale[v] \cup slipped[v]) :
         stage[u] \in {"new", "out", "in"} =>
           (shown[v][u] = "online" <=> stage[u] = "in")

===============================================================================
