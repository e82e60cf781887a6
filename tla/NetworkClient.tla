---------------------------- MODULE NetworkClient ----------------------------
(***************************************************************************)
(* The rooms and messages a desktop client shows, frontend_desktop/        *)
(* network/networkClient.py: a copy in memory of what the database has,    *)
(* filled by the lines of the login (SYNC_START ... SYNC_END) and kept up  *)
(* to date by events.                                                      *)
(*                                                                         *)
(* A client has a thread for TCP and one for UDP.  Both run the same       *)
(* handlers on the same dictionaries, without a lock, so that one may      *)
(* interrupt the other between a check and the write that follows it.      *)
(***************************************************************************)
EXTENDS ChatEvents

CONSTANT MaxTroubles         \* bound on troubles and interruptions together

ASSUME NetworkClientAssumption ==
  /\ \E c \in Client : Client = {c}
  /\ MaxTroubles \in Nat

VARIABLES rooms, messages, syncing,    \* the client
          doing,      \* where each thread is in a handler
          kept,       \* messages handled, and neither deleted nor wiped out since
          troubles,         \* of the copies sent through Redis, so far
          interruptions     \* handlers that started while the other thread was in one

client == <<rooms, messages, syncing, doing, kept>>
vars == <<database, network, client, troubles, interruptions>>

me == CHOOSE c \in Client : TRUE

Thread == {"tcp", "udp"}
Idle == [stage |-> "idle"]
Stopped == [stage |-> "stopped"]

\* A client starts with nothing.
Init ==
  /\ EventsInit({Coordinator})
  /\ rooms = << >>
  /\ messages = << >>
  /\ syncing = FALSE
  /\ doing = [t \in Thread |-> Idle]
  /\ kept = {}
  /\ troubles = 0
  /\ interruptions = 0

-----------------------------------------------------------------------------
(***************************************************************************)
(* The handlers of the client                                              *)
(***************************************************************************)
Goes(t, where) == doing' = [doing EXCEPT ![t] = where]

\* A thread whose list is not in the dictionary any more changes nothing that shows.
Detached(R) ==
  [t \in Thread |->
     IF doing[t].stage \in {"append", "pop"} /\ doing[t].room \in R THEN Idle ELSE doing[t]]

_on_sync_start ==
  /\ rooms' = << >>
  /\ messages' = << >>
  /\ syncing' = TRUE
  /\ kept' = {}
  /\ doing' = [u \in Thread |-> IF doing[u] = Stopped THEN Stopped ELSE Idle]

_on_sync_end ==
  /\ syncing' = FALSE
  /\ UNCHANGED <<rooms, messages, doing, kept>>

\* The coordinator counts as a member, whatever the room says.
_normalize_room(users) == users \cup {Coordinator}

\* What is kept of a room.
RoomOf(e) == [users |-> _normalize_room(e.users), requests |-> e.requests]

\* Mutant: a room that is known keeps its requests.
upsertMembers(e) ==
  /\ rooms' = With(rooms, e.room,
        IF e.room \in DOMAIN rooms THEN [RoomOf(e) EXCEPT !.requests = @ \cup rooms[e.room].requests]
                                  ELSE RoomOf(e))
  /\ messages' = IF e.room \in DOMAIN messages THEN messages
                 ELSE With(messages, e.room, << >>)
  /\ UNCHANGED <<syncing, doing, kept>>

\* A room replaces what was known of it; it has a list of messages from now on.
_upsert_room(e) ==
  /\ rooms' = With(rooms, e.room, RoomOf(e))
  /\ messages' = IF e.room \in DOMAIN messages THEN messages
                 ELSE With(messages, e.room, << >>)
  /\ UNCHANGED <<syncing, doing, kept>>

\* One member less, if the room is known; the coordinator is no exception here.
_on_remove_user_response(e) ==
  /\ rooms' = IF e.room \in DOMAIN rooms THEN [rooms EXCEPT ![e.room].users = @ \ {e.user}]
              ELSE rooms
  /\ UNCHANGED <<messages, syncing, doing, kept>>

\* Mutant: the message is added without a look at the list.
appendMessage(t, e) ==
  /\ messages' = IF e.room \in DOMAIN messages THEN messages
                 ELSE With(messages, e.room, << >>)
  /\ Goes(t, [stage |-> "append", message |-> e.message, room |-> e.room])
  /\ kept' = kept \cup {[message |-> e.message, room |-> e.room]}
  /\ UNCHANGED <<rooms, syncing>>

\* First half: is the message there already?
_append_message_once(t, e) ==
  LET list == IF e.room \in DOMAIN messages THEN messages[e.room] ELSE << >>
  IN /\ messages' = With(messages, e.room, list)
     /\ IF e.message \in ToSet(list) THEN UNCHANGED doing
        ELSE Goes(t, [stage |-> "append", message |-> e.message, room |-> e.room])
     /\ kept' = kept \cup {[message |-> e.message, room |-> e.room]}
     /\ UNCHANGED <<rooms, syncing>>

\* Second half: it is not.
FinishAppend(t) ==
  /\ doing[t].stage = "append"
  /\ messages' = [messages EXCEPT ![doing[t].room] = Append(@, doing[t].message)]
  /\ Goes(t, Idle)
  /\ UNCHANGED <<rooms, syncing, kept>>

\* The handler goes through the lists of all rooms.
_on_delete_message_response(t, e) ==
  /\ Goes(t, [stage |-> "search", message |-> e.message, rooms |-> Cardinality(DOMAIN messages)])
  /\ kept' = {k \in kept : k.message # e.message}
  /\ UNCHANGED <<rooms, messages, syncing>>

\* An exception ends the loop of the thread.  Without the TCP thread the client is not
\* connected any more, and the UDP thread ends soon: it finishes the handler it is in,
\* and how many datagrams it takes before it looks again is left open.
Raise(t) == Goes(t, Stopped)

\* A dictionary that has grown or shrunk may stop the search.
Search(t) ==
  LET m == doing[t].message
      found == {r \in DOMAIN messages : m \in ToSet(messages[r])}
  IN /\ doing[t].stage = "search"
     /\ \/ /\ Cardinality(DOMAIN messages) # doing[t].rooms
           /\ Raise(t)
        \/ \E r \in found :
             Goes(t, [stage |-> "pop", room |-> r,
                      index |-> SelectInSeq(messages[r], LAMBDA x : x = m)])
        \/ found = {} /\ Goes(t, Idle)
     /\ UNCHANGED <<rooms, messages, syncing, kept>>

\* pop(i) takes what is at that place now.
Pop(t) ==
  LET r == doing[t].room
  IN /\ doing[t].stage = "pop"
     /\ IF doing[t].index <= Len(messages[r])
        THEN /\ messages' = [messages EXCEPT ![r] = RemoveAt(@, doing[t].index)]
             /\ Goes(t, Idle)
        ELSE Raise(t) /\ UNCHANGED messages
     /\ UNCHANGED <<rooms, syncing, kept>>

_on_delete_chatroom_response(e) ==
  /\ rooms' = Without(rooms, {e.room})
  /\ messages' = Without(messages, {e.room})
  /\ kept' = {k \in kept : k.room # e.room}
  /\ doing' = Detached({e.room})
  /\ UNCHANGED syncing

Ignore == UNCHANGED client

_dispatch(t, e) ==
  /\ doing[t] = Idle
  /\ CASE e.kind = "auth" -> Ignore
       [] e.kind = "start" -> _on_sync_start
       [] e.kind = "end" -> _on_sync_end
       [] e.kind = "CHATROOM" -> IF syncing THEN _upsert_room(e) ELSE Ignore
       [] e.kind = "MESSAGE" -> IF syncing THEN _append_message_once(t, e) ELSE Ignore
       [] e.kind \in {"created", "added", "requested", "rejected"} -> _upsert_room(e)
       [] e.kind = "removed" -> _on_remove_user_response(e)
       [] e.kind = "message" -> _append_message_once(t, e)
       [] e.kind = "deleted" -> _on_delete_message_response(t, e)
       [] e.kind = "gone" -> _on_delete_chatroom_response(e)

-----------------------------------------------------------------------------
(***************************************************************************)
(* The threads                                                             *)
(***************************************************************************)
Working(t) == doing[t].stage \in {"append", "search", "pop"}

\* A handler that starts while the other thread is in one is an interruption.
Count(t, trouble) ==
  /\ interruptions' = interruptions + Cardinality({u \in Thread \ {t} : Working(u)})
  /\ troubles' = IF trouble THEN troubles + 1 ELSE troubles
  /\ troubles' + interruptions' <= MaxTroubles

_listen_loop ==
  /\ tcp[me] # << >>
  /\ tcp' = [tcp EXCEPT ![me] = Tail(@)]
  /\ _dispatch("tcp", Head(tcp[me]))
  /\ Count("tcp", Late(Head(tcp[me])))
  /\ UNCHANGED <<database, session, direct, relay>>

\* A datagram of the server that handled the request.
ReceiveDirect(e) ==
  /\ _dispatch("udp", e)
  /\ Count("udp", Late(e))
  /\ UNCHANGED <<database, network>>

\* A datagram sent for what Redis published: in trouble if it does not come in order,
\* or during the login.
ReceiveRelay(e) ==
  /\ TakeRelay(e)
  /\ _dispatch("udp", e)
  /\ Count("udp", LoggingIn(me) \/ \E f \in relay : f.at < e.at)
  /\ UNCHANGED <<database, session, tcp, direct>>

\* What was published before the login is not missed by the client.
RelayIsLost(e) ==
  /\ LoseRelay(e)
  /\ troubles' = IF TooEarly(e) THEN troubles ELSE troubles + 1
  /\ troubles' + interruptions <= MaxTroubles
  /\ UNCHANGED <<database, session, tcp, direct, client, interruptions>>

Continue(t) ==
  /\ FinishAppend(t) \/ Search(t) \/ Pop(t)
  /\ UNCHANGED <<database, network, troubles, interruptions>>

Server == handleRequest \/ handleAuth(me) \/ shm_register_user(me)

Next ==
  \/ Server /\ UNCHANGED <<client, troubles, interruptions>>
  \/ _listen_loop
  \/ \E e \in direct : ReceiveDirect(e)
  \/ \E e \in relay : ReceiveRelay(e) \/ RelayIsLost(e)
  \/ \E t \in Thread : Continue(t)

Spec == Init /\ [][Next]_vars

-----------------------------------------------------------------------------
(***************************************************************************)
(* Properties                                                              *)
(***************************************************************************)
\* A room that is shown has a list of messages, lists hold messages, and a thread
\* that is in a list has a place in it to write to.
TypeOK ==
  /\ DOMAIN rooms \subseteq DOMAIN messages
  /\ DOMAIN messages \subseteq Room
  /\ \A r \in DOMAIN rooms : rooms[r] \in [users : SUBSET User, requests : SUBSET User]
  /\ \A r \in DOMAIN messages : messages[r] \in Seq(Message)
  /\ syncing \in BOOLEAN
  /\ kept \subseteq [message : Message, room : Room]
  /\ \A t \in Thread :
       /\ doing[t].stage \in {"idle", "stopped", "append", "search", "pop"}
       /\ doing[t].stage \in {"append", "pop"} => doing[t].room \in DOMAIN messages
  /\ \A e \in direct \cup relay : e.at \in 1 .. clock
  /\ {troubles, interruptions} \subseteq Nat
  /\ troubles + interruptions <= MaxTroubles

\* Where a message is in the list of a room.
Places(k) ==
  IF k.room \in DOMAIN messages THEN {i \in DOMAIN messages[k.room] : messages[k.room][i] = k.message}
  ELSE {}

\* The messages of rooms that should be shown and are not, or more than once, and those
\* that should not be shown and are.
Damaged ==
  {k \in [message : Message, room : Room] :
     IF k \in kept THEN ~\E i \in Places(k) : Places(k) = {i} ELSE Places(k) # {}}

\* Whatever order the copies of events come in, and however many are lost: a message
\* whose event was handled is shown once until an event deletes it, its room or
\* everything.  Only a thread that interrupts the other does damage, to no more than
\* two messages each time: one that is left behind and one that is popped in its place.
DamagePerInterruption ==
  (\A t \in Thread : ~Working(t)) => Cardinality(Damaged) <= 2 * interruptions

Quiet == tcp[me] = << >> /\ relay = {} /\ \A t \in Thread : doing[t] = Idle

\* If the copies through Redis come in order, once the login is over and not before
\* the direct ones, the client shows in the end what the database has, although the
\* direct copies are lost, duplicated and reordered.  The coordinator is shown as a
\* member all the same, or not: that depends on the kind of the last event.
ReplicaConverges ==
  session[me] = "registered" /\ Quiet /\ troubles = 0 /\ interruptions = 0 =>
    /\ DOMAIN rooms = DOMAIN db.rooms
    /\ \A r \in DOMAIN rooms :
         /\ rooms[r].users \in {db.rooms[r].users, _normalize_room(db.rooms[r].users)}
         /\ rooms[r].requests = db.rooms[r].requests
         /\ ToSet(messages[r]) = In(r)

\* "Agrega el mensaje solo si no existe todavia": no list has a message twice.
MessagesAreAddedOnce == \A r \in DOMAIN messages : IsInjective(messages[r])

==============================================================================
