------------------------------ MODULE ChatEvents ------------------------------
(***************************************************************************)
(* What the clients of the chat servers get to know of the database.       *)
(*                                                                         *)
(* At its login a client is sent, over TCP, the rooms and messages that    *)
(* the database had when it was asked; only then is the client entered in  *)
(* the table of those that are notified.  From then on it is sent the      *)
(* answers to the requests that were granted, several times: the chat      *)
(* server that had the answer sends it to the client that asked (TCP), to  *)
(* its other clients (UDP) and to Redis, and what Redis gives back to the  *)
(* chat servers they send to all clients (UDP).                            *)
(*                                                                         *)
(* A web gateway is one process with a TCP connection for each browser and *)
(* one UDP socket; a desktop client has one of each.                       *)
(***************************************************************************)
EXTENDS Naturals, FiniteSets, SequencesExt

CONSTANTS Room, Message, User,
          Coordinator,        \* of every room
          Client,             \* the TCP connections of the process
          HearsBroadcast,     \* whether its UDP socket has the port of broadcasts
          MaxEvents           \* bound on the events of the database

ASSUME ChatEventsAssumption ==
  /\ Coordinator \in User
  /\ HearsBroadcast \in BOOLEAN
  /\ MaxEvents \in Nat
  /\ IsFiniteSet(Room)

VARIABLES db,         \* the rooms with members and requests, the messages with their room
          taken,      \* the rooms and messages that were ever made
          clock,      \* events so far
          session,    \* of each connection: "none", "reading" or "registered"
          tcp,        \* the lines on their way on each connection
          direct,     \* the events it may get from the servers that handled them
          relay       \* the events it has yet to get through Redis

database == <<db, taken, clock>>
network == <<session, tcp, direct, relay>>

\* The process starts on a database that may have rooms already, of these members.
EventsInit(members) ==
  /\ \E R \in SUBSET Room :
       /\ db = [rooms |-> [r \in R |-> [users |-> members, requests |-> {}]],
                messages |-> << >>]
       /\ taken = R
  /\ clock = 0
  /\ session = [c \in Client |-> "none"]
  /\ tcp = [c \in Client |-> << >>]
  /\ direct = {}
  /\ relay = {}

With(f, x, y) == [z \in DOMAIN f \cup {x} |-> IF z = x THEN y ELSE f[z]]
Without(f, S) == [z \in DOMAIN f \ S |-> f[z]]
In(room) == {m \in DOMAIN db.messages : db.messages[m] = room}

Registered == {c \in Client : session[c] = "registered"}

-----------------------------------------------------------------------------
(***************************************************************************)
(* Requests that are granted                                               *)
(***************************************************************************)
\* The client of one of the connections asked, or somebody else.  The datagram goes to
\* the clients in the table but the one that asked, and to the broadcast address.
on_data_change(e) ==
  /\ clock < MaxEvents
  /\ clock' = clock + 1
  /\ LET Reached(C) == C # {} \/ (HearsBroadcast /\ \E c \in Client : session[c] # "none")
         Notified(C) == IF Reached(C) THEN direct \cup {e} ELSE direct
     IN /\ relay' = relay \cup {e}
        /\ \/ tcp' = tcp /\ direct' = Notified(Registered)
           \/ \E c \in Registered :
                /\ tcp' = [tcp EXCEPT ![c] = Append(@, e)]
                /\ direct' = Notified(Registered \ {c})
  /\ UNCHANGED session

\* NEW_CHATROOM: of one member, the coordinator.
NewRoom(r) ==
  /\ r \notin taken
  /\ taken' = taken \cup {r}
  /\ db' = [db EXCEPT !.rooms = With(@, r, [users |-> {Coordinator}, requests |-> {}])]
  /\ on_data_change([kind |-> "created", at |-> clock + 1, room |-> r,
                     users |-> {Coordinator}, requests |-> {}])

\* ADD_USER, REQUEST and DELETE_REQUEST answer with the whole room.
ChangeRoom(kind, r, u, room) ==
  /\ db' = [db EXCEPT !.rooms[r] = room]
  /\ on_data_change([kind |-> kind, at |-> clock + 1, room |-> r, user |-> u,
                     users |-> room.users, requests |-> room.requests])
  /\ UNCHANGED taken

AddUser(r, u) ==
  /\ r \in DOMAIN db.rooms
  /\ ChangeRoom("added", r, u, [users |-> db.rooms[r].users \cup {u},
                                requests |-> db.rooms[r].requests \ {u}])

\* A member is not entered as a requester, but the request is granted.
Request(r, u) ==
  /\ r \in DOMAIN db.rooms
  /\ ChangeRoom("requested", r, u,
       [db.rooms[r] EXCEPT !.requests = @ \cup ({u} \ db.rooms[r].users)])

DeleteRequest(r, u) ==
  /\ r \in DOMAIN db.rooms
  /\ u \in db.rooms[r].requests
  /\ ChangeRoom("rejected", r, u, [db.rooms[r] EXCEPT !.requests = @ \ {u}])

\* REMOVE_USER answers with the ids only.
RemoveUser(r, u) ==
  /\ r \in DOMAIN db.rooms
  /\ db' = [db EXCEPT !.rooms[r].users = @ \ {u}]
  /\ on_data_change([kind |-> "removed", at |-> clock + 1, room |-> r, user |-> u])
  /\ UNCHANGED taken

\* DELETE_CHATROOM, when the coordinator alone is left: its messages stay in msg.json.
DeleteRoom(r) ==
  /\ r \in DOMAIN db.rooms
  /\ db.rooms[r].users = {Coordinator}
  /\ db' = [db EXCEPT !.rooms = Without(@, {r})]
  /\ on_data_change([kind |-> "gone", at |-> clock + 1, room |-> r])
  /\ UNCHANGED taken

NewMessage(m, r) ==
  /\ r \in DOMAIN db.rooms
  /\ m \notin taken
  /\ taken' = taken \cup {m}
  /\ db' = [db EXCEPT !.messages = With(@, m, r)]
  /\ on_data_change([kind |-> "message", at |-> clock + 1, message |-> m, room |-> r])

DeleteMessage(m) ==
  /\ m \in DOMAIN db.messages
  /\ db' = [db EXCEPT !.messages = Without(@, {m})]
  /\ on_data_change([kind |-> "deleted", at |-> clock + 1, message |-> m])
  /\ UNCHANGED taken

handleRequest ==
  \/ \E r \in Room : NewRoom(r) \/ DeleteRoom(r)
  \/ \E r \in Room, u \in User :
       AddUser(r, u) \/ RemoveUser(r, u) \/ Request(r, u) \/ DeleteRequest(r, u)
  \/ \E m \in Message, r \in Room : NewMessage(m, r)
  \/ \E m \in Message : DeleteMessage(m)

-----------------------------------------------------------------------------
(***************************************************************************)
(* The login                                                               *)
(***************************************************************************)
Line(kind) == [kind |-> kind, at |-> 0]
RoomLine(r) == [kind |-> "CHATROOM", at |-> 0, room |-> r,
                users |-> db.rooms[r].users, requests |-> db.rooms[r].requests]
MessageLine(m) == [kind |-> "MESSAGE", at |-> 0, message |-> m, room |-> db.messages[m]]

\* handleAuth sends all rooms and all messages, those of deleted rooms too, in the
\* order of the files.
handleAuth(c) ==
  /\ session[c] = "none"
  /\ session' = [session EXCEPT ![c] = "reading"]
  /\ \E R \in SetToSeqs({RoomLine(r) : r \in DOMAIN db.rooms}),
        M \in SetToSeqs({MessageLine(m) : m \in DOMAIN db.messages}) :
       tcp' = [tcp EXCEPT ![c] =
                 <<Line("auth"), Line("start")>> \o R \o M \o <<Line("end")>>]
  /\ UNCHANGED <<database, direct, relay>>

\* All lines are sent: the client is entered in the table.
shm_register_user(c) ==
  /\ session[c] = "reading"
  /\ session' = [session EXCEPT ![c] = "registered"]
  /\ UNCHANGED <<database, tcp, direct, relay>>

\* A login whose SYNC_END is still to come.
LoggingIn(c) == \E i \in DOMAIN tcp[c] : tcp[c][i].kind = "end"

-----------------------------------------------------------------------------
(***************************************************************************)
(* The copies of events                                                    *)
(***************************************************************************)
\* Datagrams of the server that handled the request stay on their way: one that is not
\* taken is lost, one that is taken again is a duplicate.  Those sent for what Redis
\* published end, as their order matters.
TakeRelay(e) == Registered # {} /\ relay' \in {relay, relay \ {e}}

\* The datagram is lost, or what Redis publishes does not reach the chat server.
LoseRelay(e) == relay' = relay \ {e}

\* Redis gave back the event before the database was asked for the login, and
\* before later ones.
TooEarly(e) == (\A c \in Client : session[c] = "none") /\ \A f \in relay : e.at <= f.at

\* The copy that comes through Redis has been taken already.
Late(e) == e.at # 0 /\ e \notin relay

===============================================================================
