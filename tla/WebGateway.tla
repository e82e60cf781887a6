------------------------------ MODULE WebGateway ------------------------------
(***************************************************************************)
(* The web gateway, frontend_web/web_server.py and protocol.py: a TCP      *)
(* connection to a chat server for every browser, and one UDP socket for   *)
(* all of them.  Of what it is sent it keeps, for each browser, the rooms  *)
(* and the messages, and emits to the browser what has changed.            *)
(*                                                                         *)
(* The copies of an event are the same line of text.  Two filters drop     *)
(* lines that were seen before: one for the UDP socket, which forgets a    *)
(* line after five seconds, and one for each browser, which forgets all    *)
(* lines when it has too many.  Green threads give way only when they      *)
(* wait for a socket, so that a line is handled in one step.               *)
(***************************************************************************)
EXTENDS ChatEvents

CONSTANTS Nobody,
          UserOf(_),      \* who logs in at each browser
          SeenLimit       \* lines that are remembered for a browser

ASSUME WebGatewayAssumption ==
  /\ Nobody \notin User
  /\ \A c \in Client : UserOf(c) \in User
  /\ SeenLimit \in Nat

VARIABLES gateway,     \* what is kept for each browser
          udpSeen,     \* _udp_seen
          snapshot     \* events that were in the database when it was asked for the login

Buffer(open) == [open |-> open, rooms |-> << >>, messages |-> << >>]

\* _user_ids, _rooms, _messages, _sync and _seen, the events on their way to the
\* browser, and which events of the database were handled: early ones, that came before
\* SYNC_END, and those since.
Nothing == [user |-> Nobody, rooms |-> << >>, messages |-> << >>, sync |-> Buffer(FALSE),
            seen |-> {}, emits |-> << >>, synced |-> FALSE, early |-> {}, story |-> << >>]

Emit(g, event) == [g EXCEPT !.emits = Append(@, event)]
Known(f, x, default) == IF x \in DOMAIN f THEN f[x] ELSE default

-----------------------------------------------------------------------------
(***************************************************************************)
(* The handlers of the dispatcher                                          *)
(***************************************************************************)
_on_login(g, me) ==
  Emit([g EXCEPT !.user = me, !.rooms = << >>, !.messages = << >>, !.sync = Buffer(TRUE)],
       [kind |-> "login_success", user |-> me])

_on_sync_start(g) == [g EXCEPT !.sync = Buffer(TRUE)]

_on_sync_room(g, e) ==
  IF g.sync.open
  THEN [g EXCEPT !.sync.rooms =
          With(@, e.room, [users |-> e.users, requests |-> e.requests])]
  ELSE g

_on_sync_msg(g, e) ==
  IF g.sync.open
  THEN [g EXCEPT !.sync.messages =
          With(@, e.room, Append(Known(@, e.room, << >>), e.message))]
  ELSE g

\* What was kept before, and what events have brought meanwhile, is replaced.
_on_sync_end(g) ==
  Emit([g EXCEPT !.rooms = g.sync.rooms, !.messages = g.sync.messages,
                 !.sync = Buffer(FALSE), !.synced = TRUE],
       [kind |-> "lobby_update",
        rooms |-> [r \in DOMAIN g.sync.rooms |-> g.sync.rooms[r].users]])

\* The room starts with no messages, also when it is known.
_on_create_room(g, e) ==
  LET h == [g EXCEPT !.rooms = With(@, e.room, [users |-> e.users, requests |-> {}]),
                     !.messages = With(@, e.room, << >>)]
  IN IF e.room \in DOMAIN g.rooms THEN h
     ELSE Emit(h, [kind |-> "room_created", room |-> e.room, users |-> {g.user}])

_on_new_message(g, e) ==
  LET list == Known(g.messages, e.room, << >>)
  IN IF e.message \in ToSet(list) THEN g
     ELSE Emit([g EXCEPT !.messages = With(@, e.room, Append(list, e.message))],
               [kind |-> "new_message", room |-> e.room, message |-> e.message])

\* Mutant: a user who leaves stays a member of the room that is kept.
leaveRoomScreen(g, e) ==
  Emit(g, [kind |-> IF e.user = g.user THEN "room_left" ELSE "user_left",
           room |-> e.room, user |-> e.user])

_on_leave_room(g, e) ==
  Emit(IF e.room \in DOMAIN g.rooms
       THEN [g EXCEPT !.rooms[e.room].users = @ \ {e.user}] ELSE g,
       [kind |-> IF e.user = g.user THEN "room_left" ELSE "user_left",
        room |-> e.room, user |-> e.user])

_on_add_user(g, e) ==
  Emit(IF e.room \in DOMAIN g.rooms
       THEN [g EXCEPT !.rooms[e.room].users = @ \cup {e.user},
                      !.rooms[e.room].requests = @ \ {e.user}] ELSE g,
       [kind |-> "user_joined", room |-> e.room, user |-> e.user])

\* The user is entered as a requester, member or not.
_on_join_request_response(g, e) ==
  Emit(IF e.room \in DOMAIN g.rooms
       THEN [g EXCEPT !.rooms[e.room].requests = @ \cup {e.user}] ELSE g,
       [kind |-> "join_request_response", room |-> e.room])

_on_delete_request_response(g, e) ==
  IF e.room \in DOMAIN g.rooms
  THEN [g EXCEPT !.rooms[e.room].requests = e.requests] ELSE g

_on_delete_room(g, e) ==
  Emit([g EXCEPT !.rooms = Without(@, {e.room}), !.messages = Without(@, {e.room})],
       [kind |-> "room_deleted", room |-> e.room])

_on_delete_message(g, e) ==
  Emit([g EXCEPT !.messages = [r \in DOMAIN @ |-> Remove(@[r], e.message)]],
       [kind |-> "message_deleted", message |-> e.message])

Handle(g, me, e) ==
  CASE e.kind = "auth" -> _on_login(g, me)
    [] e.kind = "start" -> _on_sync_start(g)
    [] e.kind = "CHATROOM" -> _on_sync_room(g, e)
    [] e.kind = "MESSAGE" -> _on_sync_msg(g, e)
    [] e.kind = "end" -> _on_sync_end(g)
    [] e.kind = "created" -> _on_create_room(g, e)
    [] e.kind = "message" -> _on_new_message(g, e)
    [] e.kind = "removed" -> _on_leave_room(g, e)
    [] e.kind = "added" -> _on_add_user(g, e)
    [] e.kind = "requested" -> _on_join_request_response(g, e)
    [] e.kind = "rejected" -> _on_delete_request_response(g, e)
    [] e.kind = "gone" -> _on_delete_room(g, e)
    [] e.kind = "deleted" -> _on_delete_message(g, e)

-----------------------------------------------------------------------------
(***************************************************************************)
(* The filters                                                             *)
(***************************************************************************)
\* What is on the wire: the time of an event is not.
Text(e) == [x \in DOMAIN e \ {"at"} |-> e[x]]

\* _is_dup: the set is emptied when it is too large.
Remember(seen, text) ==
  IF Cardinality(seen \cup {text}) > SeenLimit THEN {} ELSE seen \cup {text}

dispatch(g, me, e) ==
  IF Text(e) \in g.seen THEN g
  ELSE LET h == Handle([g EXCEPT !.seen = Remember(@, Text(e))], me, e)
       IN IF e.at = 0 THEN h
          ELSE IF h.synced THEN [h EXCEPT !.story = Append(@, e)]
          ELSE [h EXCEPT !.early = @ \cup {e}]

-----------------------------------------------------------------------------
(***************************************************************************)
(* The threads of the gateway                                              *)
(***************************************************************************)
GatewayInit ==
  /\ EventsInit(User)
  /\ gateway = [c \in Client |-> Nothing]
  /\ udpSeen = {}
  /\ snapshot = [c \in Client |-> 0]

Requests ==
  /\ handleRequest
  /\ UNCHANGED <<gateway, udpSeen, snapshot>>

\* The user logs in.
Login(c) ==
  /\ handleAuth(c)
  /\ snapshot' = [snapshot EXCEPT ![c] = clock]
  /\ UNCHANGED <<gateway, udpSeen>>

Register(c) ==
  /\ shm_register_user(c)
  /\ UNCHANGED <<gateway, udpSeen, snapshot>>

listen_to_c_server(c) ==
  /\ tcp[c] # << >>
  /\ tcp' = [tcp EXCEPT ![c] = Tail(@)]
  /\ gateway' = [gateway EXCEPT ![c] = dispatch(@, UserOf(c), Head(tcp[c]))]
  /\ UNCHANGED <<database, session, direct, relay, udpSeen, snapshot>>

\* A datagram goes to every browser, logged in or not, unless the same one came
\* in the last five seconds.
udp_listener(e) ==
  \/ Text(e) \in udpSeen /\ UNCHANGED <<gateway, udpSeen>>
  \/ /\ udpSeen' = udpSeen \cup {Text(e)}
     /\ gateway' = [c \in Client |-> dispatch(gateway[c], UserOf(c), e)]

\* The copies through Redis may come again, and in any order, as well.
ReceiveUdp ==
  /\ \E e \in direct \cup (IF Registered # {} THEN relay ELSE {}) : udp_listener(e)
  /\ UNCHANGED <<database, network, snapshot>>

GatewayNext ==
  \/ Requests
  \/ \E c \in Client : Login(c) \/ Register(c) \/ listen_to_c_server(c)
  \/ ReceiveUdp

-----------------------------------------------------------------------------
(***************************************************************************)
(* Properties                                                              *)
(***************************************************************************)
\* Every event since the login was handled, once and in order.
InOrder(c) ==
  /\ session[c] = "registered"
  /\ ~LoggingIn(c)
  /\ [i \in DOMAIN gateway[c].story |-> gateway[c].story[i].at]
       = [i \in 1 .. clock - snapshot[c] |-> snapshot[c] + i]

\* Users whose request was granted when they were members: it is shown as pending.
InVain(c, r) ==
  {e.user : e \in {f \in ToSet(gateway[c].story) :
                     f.kind = "requested" /\ f.room = r /\ f.user \in f.users}}

\* Whatever the filters let through, handled again or out of order: no list of messages
\* that a browser is shown has one twice.  And as long as they drop no line that is new and
\* let every event through once and in order, the gateway has for each browser what the
\* database has.
GatewayFollows ==
  \A c \in Client :
    LET g == gateway[c]
    IN /\ \A r \in DOMAIN g.messages : IsInjective(g.messages[r])
       /\ InOrder(c) =>
            /\ DOMAIN g.rooms = DOMAIN db.rooms
            /\ \A r \in DOMAIN db.rooms :
                 /\ g.rooms[r].users = db.rooms[r].users
                 /\ g.rooms[r].requests \ InVain(c, r) = db.rooms[r].requests \ InVain(c, r)
                 /\ ToSet(Known(g.messages, r, << >>)) = In(r)

===============================================================================
