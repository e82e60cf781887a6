-------------------------------- MODULE Browser --------------------------------
(***************************************************************************)
(* The page in the browser, frontend_web/static/main.js, together with the *)
(* gateway.  Both directions of the socket between them are in order, but  *)
(* the gateway may emit while a request of the page is on its way.         *)
(***************************************************************************)
EXTENDS WebGateway

CONSTANTS NoRoom,
          HasNickname(_),  \* whether a user is shown under another name
          MaxClicks        \* bound on the rooms that are selected

ASSUME BrowserAssumption == NoRoom \notin Room /\ MaxClicks \in Nat

VARIABLES page,       \* of each browser
          clicks      \* so far

vars == <<database, network, gateway, udpSeen, snapshot, page, clicks>>

\* currentUser, lobbyData (members of each room), activeRoom, the screen with the title
\* and messages of the chat, and the requests on their way to the gateway.
Fresh == [user |-> Nobody, lobby |-> << >>, activeRoom |-> NoRoom, screen |-> "welcome",
          title |-> NoRoom, history |-> << >>, calls |-> << >>]

Init ==
  /\ GatewayInit
  /\ page = [c \in Client |-> Fresh]
  /\ clicks = 0

-----------------------------------------------------------------------------
join_chat_view(p, r) == [p EXCEPT !.activeRoom = r, !.calls = Append(@, r)]

\* A member asks for the chat; others see that the room is private.
selectRoom(p, r) ==
  IF p.user \in p.lobby[r] THEN join_chat_view(p, r)
  ELSE [p EXCEPT !.activeRoom = r, !.screen = "private"]

\* Mutant: the messages are added to those on the screen.
chatViewAppended(p, m) ==
  [p EXCEPT !.activeRoom = m.room, !.screen = "chat", !.title = m.room,
            !.history = @ \o m.history]

chat_view_data(p, m) ==
  [p EXCEPT !.activeRoom = m.room, !.screen = "chat", !.title = m.room,
            !.history = m.history]

new_message(p, m) ==
  IF m.room = p.activeRoom THEN [p EXCEPT !.history = Append(@, m.message)] ELSE p

\* Mutant: a user who was added is taken to the room, which is not listed as theirs.
userJoinedOnly(p, m) == IF m.user = p.user THEN join_chat_view(p, m.room) ELSE p

\* A user who was added to a room is taken there at once.
user_joined(p, m) ==
  LET q == IF m.room \in DOMAIN p.lobby
           THEN [p EXCEPT !.lobby[m.room] = @ \cup {m.user}] ELSE p
  IN IF m.user = p.user THEN join_chat_view(q, m.room) ELSE q

\* Users who left are looked for under their nickname, among user names.
user_left(p, m) ==
  IF HasNickname(m.user) THEN p
  ELSE IF m.room \in DOMAIN p.lobby THEN [p EXCEPT !.lobby[m.room] = @ \ {m.user}] ELSE p

\* Mutant: the chat that was left stays on the screen.
roomLeftOnScreen(p) == [p EXCEPT !.activeRoom = NoRoom]

\* Whichever room it is, the chat is closed, and the room stays in the lobby.
room_left(p) == [p EXCEPT !.activeRoom = NoRoom, !.screen = "welcome"]
room_deleted(p) == [p EXCEPT !.activeRoom = NoRoom, !.screen = "welcome"]

\* Whoever made the room, the user of the gateway is its member and is taken there.
room_created(p, m) ==
  join_chat_view([p EXCEPT !.lobby = IF m.room \in DOMAIN @ THEN @
                                     ELSE With(@, m.room, m.users)],
                 m.room)

On(p, m) ==
  CASE m.kind = "login_success" -> [p EXCEPT !.user = m.user]
    [] m.kind = "lobby_update" -> [p EXCEPT !.lobby = m.rooms]
    [] m.kind = "chat_view_data" -> chat_view_data(p, m)
    [] m.kind = "new_message" -> new_message(p, m)
    [] m.kind = "user_joined" -> user_joined(p, m)
    [] m.kind = "user_left" -> user_left(p, m)
    [] m.kind = "room_left" -> room_left(p)
    [] m.kind = "room_deleted" -> room_deleted(p)
    [] m.kind = "room_created" -> room_created(p, m)
    [] OTHER -> p

-----------------------------------------------------------------------------
Unchanged == UNCHANGED <<database, network, udpSeen, snapshot>>

Receive(c) ==
  /\ gateway[c].emits # << >>
  /\ gateway' = [gateway EXCEPT ![c].emits = Tail(@)]
  /\ page' = [page EXCEPT ![c] = On(@, Head(gateway[c].emits))]
  /\ Unchanged /\ UNCHANGED clicks

Click(c) ==
  /\ clicks < MaxClicks
  /\ clicks' = clicks + 1
  /\ \E r \in DOMAIN page[c].lobby :
       page' = [page EXCEPT ![c] = selectRoom(@, r)]
  /\ Unchanged /\ UNCHANGED gateway

\* The gateway has no answer for a room it does not know.
handle_join_chat_view(c) ==
  LET r == Head(page[c].calls)
      g == gateway[c]
  IN /\ page[c].calls # << >>
     /\ page' = [page EXCEPT ![c].calls = Tail(@)]
     /\ gateway' = IF r \notin DOMAIN g.rooms THEN gateway
                   ELSE [gateway EXCEPT ![c] =
                           Emit(@, [kind |-> "chat_view_data", room |-> r,
                                    history |-> Known(g.messages, r, << >>)])]
     /\ Unchanged /\ UNCHANGED clicks

Next ==
  \/ GatewayNext /\ UNCHANGED <<page, clicks>>
  \/ \E c \in Client : Receive(c) \/ Click(c) \/ handle_join_chat_view(c)

Spec == Init /\ [][Next]_vars

-----------------------------------------------------------------------------
(***************************************************************************)
(* Properties                                                              *)
(***************************************************************************)
\* Nothing is on its way between the page and the gateway.
Settled(c) == gateway[c].emits = << >> /\ page[c].calls = << >>

\* Events that were handled out of their turn: again, as the filters had forgotten them,
\* late, or although the login told of them already.
OutOfTurn(c) ==
  LET story == gateway[c].story
  IN {i \in DOMAIN story : \/ story[i].at <= snapshot[c]
                           \/ \E j \in 1 .. i - 1 : story[j].at >= story[i].at}

\* If no event came during the login, a chat shows the messages that the gateway has of
\* its room, and no others but deleted ones: however the messages of several rooms and
\* the answers to several clicks were mixed.  A message is on the screen twice at
\* most for each event that was handled out of its turn.
ChatShowsItsRoom ==
  \A c \in Client :
    LET p == page[c]
        kept == ToSet(Known(gateway[c].messages, p.title, << >>))
    IN Settled(c) /\ gateway[c].early = {} /\ p.screen = "chat" /\ p.activeRoom = p.title =>
         /\ p.title \in DOMAIN gateway[c].rooms
         /\ kept \subseteq ToSet(p.history)
         /\ ToSet(p.history) \cap DOMAIN db.messages \subseteq In(p.title)
         /\ Len(p.history) - Cardinality(ToSet(p.history)) <= Cardinality(OutOfTurn(c))

\* What is typed goes to the room whose chat is shown, or to one that is gone.
TypingGoesToTheChat ==
  \A c \in Client :
    Settled(c) /\ gateway[c].early = {} /\ page[c].screen = "chat" =>
      page[c].activeRoom \in {page[c].title} \cup (taken \ DOMAIN gateway[c].rooms)

\* A room of which the user is a member is listed as one of the user's.
MyRoomsAreListed ==
  \A c \in Client : \A r \in DOMAIN gateway[c].rooms :
    Settled(c) /\ UserOf(c) \in gateway[c].rooms[r].users =>
      r \in DOMAIN page[c].lobby /\ UserOf(c) \in page[c].lobby[r]

===============================================================================
