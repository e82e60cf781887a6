---------------------------- MODULE Replica_proofs ----------------------------
(***************************************************************************)
(* Proofs about the replica of a desktop client.  As long as nothing goes  *)
(* wrong, what Redis has yet to deliver and what is left of the login mend *)
(* whatever the direct copies have done to the replica: handled after what *)
(* the client has, they give what the database has.  And whatever goes     *)
(* wrong, a thread that interrupts the other damages two messages at most: *)
(* each thread is about to change one, and all others are as they were.    *)
(***************************************************************************)
EXTENDS NetworkClient, BoundedSets

-----------------------------------------------------------------------------
(***************************************************************************)
(* Types                                                                   *)
(***************************************************************************)
\* Events that tell all of a room.
Whole == {"created", "added", "requested", "rejected"}

RoomRecord == [users : SUBSET User, requests : SUBSET User]

Event ==
  [kind : {"created"}, at : Nat, room : Room, users : SUBSET User, requests : SUBSET User]
  \cup [kind : {"added", "requested", "rejected"}, at : Nat, room : Room, user : User,
        users : SUBSET User, requests : SUBSET User]
  \cup [kind : {"removed"}, at : Nat, room : Room, user : User]
  \cup [kind : {"gone"}, at : Nat, room : Room]
  \cup [kind : {"message"}, at : Nat, message : Message, room : Room]
  \cup [kind : {"deleted"}, at : Nat, message : Message]

LoginLine ==
  [kind : {"auth", "start", "end"}, at : {0}]
  \cup [kind : {"CHATROOM"}, at : {0}, room : Room, users : SUBSET User, requests : SUBSET User]
  \cup [kind : {"MESSAGE"}, at : {0}, message : Message, room : Room]

Step ==
  {Idle}
  \cup [stage : {"append"}, message : Message, room : Room]
  \cup [stage : {"search"}, message : Message, rooms : Nat]
  \cup [stage : {"pop"}, room : Room, index : Nat]

DatabaseTypeOK ==
  /\ db \in [rooms : {db.rooms}, messages : {db.messages}]
  /\ db.rooms \in [DOMAIN db.rooms -> RoomRecord] /\ DOMAIN db.rooms \subseteq Room
  /\ db.messages \in [DOMAIN db.messages -> Room] /\ DOMAIN db.messages \subseteq Message
  /\ \A m \in DOMAIN db.messages : db.messages[m] \in taken
  /\ IsFiniteSet(DOMAIN db.messages)
  /\ clock \in Nat

\* Of events that are yet to come through Redis.
RelayTypeOK(R) ==
  /\ R \subseteq Event
  /\ \A e \in R : e.at \in 1 .. clock
  /\ \A e, f \in R : e.at = f.at => e = f

NetworkTypeOK ==
  /\ session \in [Client -> {"none", "reading", "registered"}]
  /\ tcp \in [Client -> Seq(Event \cup LoginLine)]
  /\ direct \subseteq Event
  /\ \A e \in direct : e.at # 0
  /\ \A i \in DOMAIN tcp[me] : tcp[me][i] \in Event => tcp[me][i].at # 0

\* Both threads run, one at a time is in a handler, and what it has in hand is there.
ClientTypeOK ==
  /\ doing \in [Thread -> Step]
  /\ DOMAIN rooms \subseteq DOMAIN messages /\ DOMAIN messages \subseteq Room
  /\ rooms \in [DOMAIN rooms -> RoomRecord]
  /\ messages \in [DOMAIN messages -> Seq(Message)]
  /\ \A r \in DOMAIN messages : IsInjective(messages[r])
  /\ \A t, u \in Thread : Working(t) /\ Working(u) => t = u
  /\ \A t \in Thread :
       /\ doing[t].stage = "append" =>
            /\ doing[t].room \in DOMAIN messages
            /\ doing[t].message \notin ToSet(messages[doing[t].room])
       /\ doing[t].stage = "search" => doing[t].rooms = Cardinality(DOMAIN messages)
       /\ doing[t].stage = "pop" =>
            /\ doing[t].room \in DOMAIN messages
            /\ doing[t].index \in DOMAIN messages[doing[t].room]

-----------------------------------------------------------------------------
(***************************************************************************)
(* The inductive invariant                                                 *)
(***************************************************************************)
\* What is in R of a room.
Wholes(R, r) == {e \in R : e.kind \in Whole /\ e.room = r}
Removed(R, r, n) ==
  {u \in User : \E e \in R : e.kind = "removed" /\ e.room = r /\ e.user = u /\ e.at > n}
WillGo(R, r) == \E e \in R : e.kind = "gone" /\ e.room = r

\* The events of a room in R lead to what the database has of it.
RoomIsTold(R, r) ==
  /\ r \in DOMAIN db.rooms \/ WillGo(R, r) => r \in taken
  /\ ~(r \in DOMAIN db.rooms /\ WillGo(R, r))
  /\ \A g \in R, e \in Wholes(R, r) : g.kind = "gone" /\ g.room = r => e.at < g.at
  /\ r \notin DOMAIN db.rooms => Wholes(R, r) = {} \/ WillGo(R, r)
  /\ r \in DOMAIN db.rooms =>
       /\ \A e \in Wholes(R, r) : (\A f \in Wholes(R, r) : f.at <= e.at) =>
            /\ db.rooms[r].requests = e.requests
            /\ db.rooms[r].users = e.users \ Removed(R, r, e.at)
       /\ Wholes(R, r) = {} => db.rooms[r].users \cap Removed(R, r, 0) = {}

Made(R, m) == {e \in R : e.kind = "message" /\ e.message = m}
WillBeDeleted(R, m) == \E e \in R : e.kind = "deleted" /\ e.message = m

\* And so do those of a message.
MessageIsTold(R, m) ==
  /\ WillBeDeleted(R, m) => m \in taken
  /\ ~(m \in DOMAIN db.messages /\ WillBeDeleted(R, m))
  /\ \A d \in R, e \in Made(R, m) : d.kind = "deleted" /\ d.message = m => e.at < d.at
  /\ m \notin DOMAIN db.messages => Made(R, m) = {} \/ WillBeDeleted(R, m)

\* What is left of the login.
Lines == {l \in ToSet(tcp[me]) : l.at = 0}
Comes(kind) == \E l \in Lines : l.kind = kind
ComingRoom(r) == {l \in Lines : l.kind = "CHATROOM" /\ l.room = r}
ComingMessage(m, r) == \E l \in Lines : l.kind = "MESSAGE" /\ l.message = m /\ l.room = r

InOrder(q) ==
  \A i, j \in DOMAIN q : i < j =>
    /\ q[i].at # 0 => q[j].at # 0
    /\ q[i].kind = "end" => q[j].at # 0
    /\ q[j].kind = "start" => q[i].kind = "auth"

LoginIsWhole ==
  /\ InOrder(tcp[me])
  /\ Lines # {} => Comes("end")
  /\ Comes("end") /\ ~Comes("start") => syncing
  /\ session[me] = "none" =>
       /\ tcp[me] = << >> /\ direct = {}
       /\ rooms = << >> /\ messages = << >> /\ doing = [t \in Thread |-> Idle]

\* What the client has of a message, once the handlers that run are over.
Deleting(m) ==
  \E t \in Thread :
    \/ doing[t].stage = "search" /\ doing[t].message = m
    \/ doing[t].stage = "pop" /\ messages[doing[t].room][doing[t].index] = m
Appending(m, r) ==
  \E t \in Thread : doing[t].stage = "append" /\ doing[t].message = m /\ doing[t].room = r
Listed(m, r) == r \in DOMAIN messages /\ m \in ToSet(messages[r])
Has(m, r) == Appending(m, r) \/ (Listed(m, r) /\ ~Deleting(m))

\* A message is never of two rooms.
Place(R, m, r) ==
  \/ m \in DOMAIN db.messages /\ db.messages[m] = r
  \/ \E e \in Made(R, m) : e.room = r
  \/ ComingMessage(m, r)
  \/ Listed(m, r)
  \/ Appending(m, r)
OnePlace(R) ==
  \A m \in Message : \A r, s \in Room :
    /\ Place(R, m, r) => m \in taken
    /\ Place(R, m, r) /\ Place(R, m, s) => r = s

\* No event in R tells all of the room: what the client has, or the line that it is to
\* get, is right but for users whose removal is yet to come.
Fits(R, x, r) ==
  /\ x.requests = db.rooms[r].requests
  /\ x.users \ Removed(R, r, 0) \in {db.rooms[r].users, _normalize_room(db.rooms[r].users)}
RoomComes(R, r) ==
  /\ r \in DOMAIN db.rooms /\ Wholes(R, r) = {} /\ session[me] # "none" =>
       /\ \A l \in ComingRoom(r) : Fits(R, RoomOf(l), r)
       /\ ComingRoom(r) = {} => ~Comes("start") /\ r \in DOMAIN rooms /\ Fits(R, rooms[r], r)
  /\ r \notin DOMAIN db.rooms /\ (ComingRoom(r) # {} \/ (~Comes("start") /\ r \in DOMAIN rooms))
       => WillGo(R, r)

\* The client has, or will have after the login.
WillHave(m, r) == ComingMessage(m, r) \/ (~Comes("start") /\ Has(m, r))
MessageComes(R, m, r) ==
  /\ /\ r \in DOMAIN db.rooms /\ m \in DOMAIN db.messages /\ db.messages[m] = r
     /\ session[me] # "none" /\ Made(R, m) = {}
     => WillHave(m, r)
  /\ m \notin DOMAIN db.messages /\ WillHave(m, r) => WillBeDeleted(R, m)

ReplicaInv(R) ==
  /\ DatabaseTypeOK /\ RelayTypeOK(R) /\ NetworkTypeOK /\ ClientTypeOK
  /\ \A r \in Room : RoomIsTold(R, r)
  /\ \A m \in Message : MessageIsTold(R, m)
  /\ LoginIsWhole
  /\ OnePlace(R)
  /\ \A r \in Room : RoomComes(R, r)
  /\ \A m \in Message, r \in Room : MessageComes(R, m, r)

Calm == troubles = 0 /\ interruptions = 0
CalmInv ==
  /\ troubles \in Nat /\ interruptions \in Nat
  /\ Calm => ReplicaInv(relay)

-----------------------------------------------------------------------------
(***************************************************************************)
(* Small facts                                                             *)
(***************************************************************************)
LEMMA Me == me \in Client /\ Client = {me}
  BY NetworkClientAssumption DEF me

LEMMA EventKinds ==
  ASSUME NEW e \in Event
  PROVE  /\ e.at \in Nat
         /\ e.kind \in Whole \cup {"removed", "gone", "message", "deleted"}
         /\ e.kind \in Whole => /\ e.room \in Room
                                /\ e.users \in SUBSET User /\ e.requests \in SUBSET User
         /\ e.kind = "removed" => e.room \in Room /\ e.user \in User
         /\ e.kind = "gone" => e.room \in Room
         /\ e.kind = "message" => e.room \in Room /\ e.message \in Message
         /\ e.kind = "deleted" => e.message \in Message
  BY DEF Event, Whole

LEMMA LineKinds ==
  ASSUME NEW l \in LoginLine
  PROVE  /\ l.at = 0
         /\ l.kind \in {"auth", "start", "end", "CHATROOM", "MESSAGE"}
         /\ l.kind = "CHATROOM" => /\ l.room \in Room
                                   /\ l.users \in SUBSET User /\ l.requests \in SUBSET User
         /\ l.kind = "MESSAGE" => l.room \in Room /\ l.message \in Message
  BY DEF LoginLine

LEMMA Steps ==
  ASSUME NEW s \in Step
  PROVE  /\ s.stage \in {"idle", "append", "search", "pop"}
         /\ s.stage = "idle" => s = Idle
         /\ s.stage = "append" => s.message \in Message /\ s.room \in Room
         /\ s.stage = "search" => s.message \in Message
         /\ s.stage = "pop" => s.room \in Room /\ s.index \in Nat
  BY DEF Step, Idle

\* What one event more changes of what is in R of a room, and of a message.
LEMMA NoMoreOfRoom ==
  ASSUME NEW R, NEW e, NEW Q, Q = R \cup {e}, NEW r,
         e.kind \in Whole \cup {"removed", "gone"} => e.room # r
  PROVE  /\ Wholes(Q, r) = Wholes(R, r)
         /\ WillGo(Q, r) <=> WillGo(R, r)
         /\ \A n : Removed(Q, r, n) = Removed(R, r, n)
<1>1. Wholes(Q, r) = Wholes(R, r)
  BY DEF Wholes
<1>2. WillGo(Q, r) <=> WillGo(R, r)
  BY DEF WillGo
<1>3. \A n : Removed(Q, r, n) = Removed(R, r, n)
  BY DEF Removed
<1> QED
  BY <1>1, <1>2, <1>3

LEMMA WholeMore ==
  ASSUME NEW R, NEW e, NEW Q, Q = R \cup {e}, NEW r, e.kind \in Whole, r = e.room
  PROVE  /\ Wholes(Q, r) = Wholes(R, r) \cup {e}
         /\ WillGo(Q, r) <=> WillGo(R, r)
         /\ \A n : Removed(Q, r, n) = Removed(R, r, n)
<1>1. Wholes(Q, r) = Wholes(R, r) \cup {e}
  BY DEF Wholes
<1>2. WillGo(Q, r) <=> WillGo(R, r)
  BY DEF WillGo, Whole
<1>3. \A n : Removed(Q, r, n) = Removed(R, r, n)
  BY DEF Removed, Whole
<1> QED
  BY <1>1, <1>2, <1>3

LEMMA RemovalMore ==
  ASSUME NEW R, NEW e \in Event, NEW Q, Q = R \cup {e}, NEW r, e.kind = "removed", e.room = r
  PROVE  /\ Wholes(Q, r) = Wholes(R, r)
         /\ WillGo(Q, r) <=> WillGo(R, r)
         /\ \A n : e.at > n => Removed(Q, r, n) = Removed(R, r, n) \cup {e.user}
<1>1. Wholes(Q, r) = Wholes(R, r)
  BY DEF Wholes, Whole
<1>2. WillGo(Q, r) <=> WillGo(R, r)
  BY DEF WillGo
<1>3. \A n : e.at > n => Removed(Q, r, n) = Removed(R, r, n) \cup {e.user}
  BY EventKinds DEF Removed
<1> QED
  BY <1>1, <1>2, <1>3

LEMMA GoneMore ==
  ASSUME NEW R, NEW e, NEW Q, Q = R \cup {e}, NEW r, e.kind = "gone", e.room = r
  PROVE  Wholes(Q, r) = Wholes(R, r) /\ WillGo(Q, r)
<1>1. Wholes(Q, r) = Wholes(R, r)
  BY DEF Wholes, Whole
<1>2. WillGo(Q, r)
  BY DEF WillGo
<1> QED
  BY <1>1, <1>2

LEMMA NoMoreOfMessage ==
  ASSUME NEW R, NEW e, NEW Q, Q = R \cup {e}, NEW m,
         e.kind \in {"message", "deleted"} => e.message # m
  PROVE  /\ Made(Q, m) = Made(R, m)
         /\ WillBeDeleted(Q, m) <=> WillBeDeleted(R, m)
<1>1. Made(Q, m) = Made(R, m)
  BY DEF Made
<1>2. WillBeDeleted(Q, m) <=> WillBeDeleted(R, m)
  BY DEF WillBeDeleted
<1> QED
  BY <1>1, <1>2

LEMMA DeletionMore ==
  ASSUME NEW R, NEW e, NEW Q, Q = R \cup {e}, NEW m, e.kind = "deleted", m = e.message
  PROVE  Made(Q, m) = Made(R, m) /\ WillBeDeleted(Q, m)
<1>1. Made(Q, m) = Made(R, m)
  BY DEF Made
<1>2. WillBeDeleted(Q, m)
  BY DEF WillBeDeleted
<1> QED
  BY <1>1, <1>2

-----------------------------------------------------------------------------
(***************************************************************************)
(* Requests that are granted                                               *)
(***************************************************************************)

\* Rooms of which the event says nothing that counts.
LEMMA OtherRoomsStayTold ==
  ASSUME NEW R, NEW e, NEW Q, Q = R \cup {e}, NEW r \in Room, RoomIsTold(R, r),
         e.kind \in Whole \cup {"removed", "gone"} => e.room # r,
         r \in DOMAIN db.rooms' <=> r \in DOMAIN db.rooms,
         r \in DOMAIN db.rooms => db.rooms'[r] = db.rooms[r],
         r \in taken => r \in taken'
  PROVE  RoomIsTold(Q, r)'
<1>1. /\ Wholes(Q, r) = Wholes(R, r)
      /\ WillGo(Q, r) <=> WillGo(R, r)
      /\ \A n : Removed(Q, r, n) = Removed(R, r, n)
  BY NoMoreOfRoom
<1>2. \A g \in Q : g.kind = "gone" /\ g.room = r => g \in R
  OBVIOUS
<1> QED
  BY <1>1, <1>2 DEF RoomIsTold

\* An event that tells all of a room.
LEMMA WholeRoomIsTold ==
  ASSUME NEW R, RelayTypeOK(R), clock \in Nat,
         NEW e \in Event, e.at = clock + 1, e.kind \in Whole, NEW Q, Q = R \cup {e},
         NEW r \in Room, r = e.room, RoomIsTold(R, r),
         r \in DOMAIN db.rooms \/ r \notin taken,
         r \in DOMAIN db.rooms', r \in taken',
         db.rooms'[r].users = e.users, db.rooms'[r].requests = e.requests
  PROVE  RoomIsTold(Q, r)'
<1>1. /\ Wholes(Q, r) = Wholes(R, r) \cup {e}
      /\ WillGo(Q, r) <=> WillGo(R, r)
      /\ \A n : Removed(Q, r, n) = Removed(R, r, n)
  <2>1. e.room = r
    OBVIOUS
  <2> QED
    BY <2>1, WholeMore
<1>2. \A f \in R : f.at \in Nat /\ f.at < e.at
  BY DEF RelayTypeOK
<1>3. Wholes(R, r) \subseteq R
  BY DEF Wholes
<1>4. ~WillGo(Q, r)
  BY <1>1 DEF RoomIsTold
<1>5. Removed(R, r, e.at) = {}
  BY <1>2 DEF Removed
<1>6. e.at \in Nat /\ e \in Wholes(Q, r)
  BY <1>1, SMTT(30)
<1>7. \A f \in Wholes(Q, r) : (\A g \in Wholes(Q, r) : g.at <= f.at) => f = e
  <2> SUFFICES ASSUME NEW f \in Wholes(Q, r), \A g \in Wholes(Q, r) : g.at <= f.at
               PROVE  f = e
    OBVIOUS
  <2>1. e.at <= f.at
    BY <1>6
  <2>2. f \in R => f.at \in Nat /\ f.at < e.at
    BY <1>2
  <2>3. f \in Wholes(R, r) \/ f = e
    BY <1>1
  <2>4. f \in R => FALSE
    BY <1>6, <2>1, <2>2
  <2> QED
    BY <1>3, <2>3, <2>4
<1>8. \A g \in Q : ~(g.kind = "gone" /\ g.room = r)
  BY <1>4 DEF WillGo
<1>9. \A f \in Wholes(Q, r) : (\A g \in Wholes(Q, r) : g.at <= f.at) =>
        /\ db.rooms'[r].requests = f.requests
        /\ db.rooms'[r].users = f.users \ Removed(Q, r, f.at)
  BY <1>1, <1>5, <1>7
<1> QED
  BY <1>1, <1>4, <1>6, <1>8, <1>9 DEF RoomIsTold

LEMMA RemovalIsTold ==
  ASSUME NEW R, RelayTypeOK(R), clock \in Nat,
         NEW e \in Event, e.at = clock + 1, e.kind = "removed", NEW Q, Q = R \cup {e},
         NEW r \in Room, r = e.room, RoomIsTold(R, r),
         r \in DOMAIN db.rooms, r \in DOMAIN db.rooms', taken' = taken,
         db.rooms'[r].users = db.rooms[r].users \ {e.user},
         db.rooms'[r].requests = db.rooms[r].requests
  PROVE  RoomIsTold(Q, r)'
<1>1. /\ Wholes(Q, r) = Wholes(R, r)
      /\ WillGo(Q, r) <=> WillGo(R, r)
      /\ \A n : e.at > n => Removed(Q, r, n) = Removed(R, r, n) \cup {e.user}
  BY RemovalMore, SMTT(30)
<1>2. \A f \in R : f.at \in Nat /\ e.at > f.at
  BY DEF RelayTypeOK
<1>3. Wholes(R, r) \subseteq R
  BY DEF Wholes
<1>4. \A f \in R : Removed(Q, r, f.at) = Removed(R, r, f.at) \cup {e.user}
  BY <1>1, <1>2
<1>5. Removed(Q, r, 0) = Removed(R, r, 0) \cup {e.user}
  <2>1. e.at > 0
    OBVIOUS
  <2> QED
    BY <1>1, <2>1
<1>6. \A g \in Q : g.kind = "gone" /\ g.room = r => g \in R
  OBVIOUS
<1>7. \A f \in Wholes(R, r) : (\A g \in Wholes(R, r) : g.at <= f.at) =>
        /\ db.rooms'[r].requests = f.requests
        /\ db.rooms'[r].users = f.users \ Removed(Q, r, f.at)
  <2> SUFFICES ASSUME NEW f \in Wholes(R, r), \A g \in Wholes(R, r) : g.at <= f.at
               PROVE  /\ db.rooms'[r].requests = f.requests
                      /\ db.rooms'[r].users = f.users \ Removed(Q, r, f.at)
    OBVIOUS
  <2>1. /\ db.rooms[r].requests = f.requests
        /\ db.rooms[r].users = f.users \ Removed(R, r, f.at)
    BY DEF RoomIsTold
  <2>2. Removed(Q, r, f.at) = Removed(R, r, f.at) \cup {e.user}
    BY <1>3, <1>4
  <2> QED
    BY <2>1, <2>2
<1>8. Wholes(R, r) = {} => db.rooms'[r].users \cap Removed(Q, r, 0) = {}
  BY <1>5 DEF RoomIsTold
<1>9. \A g \in Q, f \in Wholes(Q, r) : g.kind = "gone" /\ g.room = r => f.at < g.at
  BY <1>1, <1>6 DEF RoomIsTold
<1>10. r \in taken' /\ ~WillGo(Q, r)
  BY <1>1 DEF RoomIsTold
<1> QED
  BY <1>1, <1>7, <1>8, <1>9, <1>10 DEF RoomIsTold

LEMMA GoneIsTold ==
  ASSUME NEW R, RelayTypeOK(R), clock \in Nat,
         NEW e \in Event, e.at = clock + 1, e.kind = "gone", NEW Q, Q = R \cup {e},
         NEW r \in Room, r = e.room, RoomIsTold(R, r),
         r \in DOMAIN db.rooms, r \notin DOMAIN db.rooms', taken' = taken
  PROVE  RoomIsTold(Q, r)'
<1>1. /\ Wholes(Q, r) = Wholes(R, r)
      /\ WillGo(Q, r)
  BY GoneMore
<1>2. \A f \in R : f.at \in Nat /\ f.at < e.at
  BY DEF RelayTypeOK
<1>3. Wholes(R, r) \subseteq R
  BY DEF Wholes
<1>4. \A g \in Q : g.kind = "gone" /\ g.room = r => g = e
  BY DEF WillGo, RoomIsTold
<1>5. \A g \in Q, f \in Wholes(Q, r) : g.kind = "gone" /\ g.room = r => f.at < g.at
  BY <1>1, <1>2, <1>3, <1>4
<1>6. r \in taken'
  BY DEF RoomIsTold
<1> QED
  BY <1>1, <1>5, <1>6 DEF RoomIsTold

\* Messages of which the event says nothing.
LEMMA OtherMessagesStayTold ==
  ASSUME NEW R, NEW e, NEW Q, Q = R \cup {e}, NEW m \in Message, MessageIsTold(R, m),
         e.kind \in {"message", "deleted"} => e.message # m,
         m \in DOMAIN db.messages' <=> m \in DOMAIN db.messages,
         m \in taken => m \in taken'
  PROVE  MessageIsTold(Q, m)'
<1>1. /\ Made(Q, m) = Made(R, m)
      /\ WillBeDeleted(Q, m) <=> WillBeDeleted(R, m)
  BY NoMoreOfMessage
<1>2. \A d \in Q : d.kind = "deleted" /\ d.message = m => d \in R
  OBVIOUS
<1> QED
  BY <1>1, <1>2 DEF MessageIsTold

LEMMA NewMessageIsTold ==
  ASSUME NEW R, NEW e, NEW Q, Q = R \cup {e}, NEW m \in Message, MessageIsTold(R, m),
         e.kind = "message", m = e.message, m \notin taken,
         m \in DOMAIN db.messages', m \in taken'
  PROVE  MessageIsTold(Q, m)'
<1>1. ~WillBeDeleted(R, m)
  BY DEF MessageIsTold
<1>2. ~WillBeDeleted(Q, m)
  BY <1>1 DEF WillBeDeleted
<1>3. \A d \in Q : ~(d.kind = "deleted" /\ d.message = m)
  BY <1>2 DEF WillBeDeleted
<1> QED
  BY <1>2, <1>3 DEF MessageIsTold

LEMMA DeletionIsTold ==
  ASSUME NEW R, RelayTypeOK(R), clock \in Nat,
         NEW e \in Event, e.at = clock + 1, e.kind = "deleted", NEW Q, Q = R \cup {e},
         NEW m \in Message, m = e.message, MessageIsTold(R, m),
         m \in DOMAIN db.messages, m \in taken, m \notin DOMAIN db.messages', taken' = taken
  PROVE  MessageIsTold(Q, m)'
<1>1. /\ Made(Q, m) = Made(R, m)
      /\ WillBeDeleted(Q, m)
  BY DeletionMore
<1>2. \A f \in R : f.at \in Nat /\ f.at < e.at
  BY DEF RelayTypeOK
<1>3. Made(R, m) \subseteq R
  BY DEF Made
<1>4. \A d \in Q : d.kind = "deleted" /\ d.message = m => d = e
  BY DEF WillBeDeleted, MessageIsTold
<1>5. \A d \in Q, f \in Made(Q, m) : d.kind = "deleted" /\ d.message = m => f.at < d.at
  BY <1>1, <1>2, <1>3, <1>4
<1> QED
  BY <1>1, <1>5 DEF MessageIsTold

\* What is left of the login, by kinds.
LEMMA SameLines ==
  ASSUME Lines' = Lines
  PROVE  /\ \A k : Comes(k)' <=> Comes(k)
         /\ \A r : ComingRoom(r)' = ComingRoom(r)
         /\ \A m, r : ComingMessage(m, r)' <=> ComingMessage(m, r)
<1>1. \A k : Comes(k)' <=> Comes(k)
  BY DEF Comes
<1>2. \A r : ComingRoom(r)' = ComingRoom(r)
  BY DEF ComingRoom
<1>3. \A m, r : ComingMessage(m, r)' <=> ComingMessage(m, r)
  BY DEF ComingMessage
<1> QED
  BY <1>1, <1>2, <1>3

\* Rooms of which the event says nothing that counts.
LEMMA OtherRoomsStillCome ==
  ASSUME NEW R, NEW e, NEW Q, Q = R \cup {e}, NEW r \in Room, RoomComes(R, r),
         e.kind \in Whole \cup {"removed", "gone"} => e.room # r,
         r \in DOMAIN db.rooms' <=> r \in DOMAIN db.rooms,
         r \in DOMAIN db.rooms => db.rooms'[r] = db.rooms[r],
         rooms' = rooms, session' = session, Lines' = Lines
  PROVE  RoomComes(Q, r)'
<1>1. /\ Wholes(Q, r) = Wholes(R, r)
      /\ WillGo(Q, r) <=> WillGo(R, r)
      /\ \A n : Removed(Q, r, n) = Removed(R, r, n)
  BY NoMoreOfRoom
<1>2. Comes("start")' <=> Comes("start")
  BY SameLines
<1>3. ComingRoom(r)' = ComingRoom(r)
  BY SameLines
<1>4. \A x : r \in DOMAIN db.rooms => (Fits(Q, x, r)' <=> Fits(R, x, r))
  BY <1>1 DEF Fits, _normalize_room
<1>5. \A l : RoomOf(l)' = RoomOf(l)
  BY DEF RoomOf, _normalize_room
<1> QED
  BY <1>1, <1>2, <1>3, <1>4, <1>5 DEF RoomComes

LEMMA RemovalStillComes ==
  ASSUME NEW R, NEW e \in Event, NEW Q, Q = R \cup {e}, NEW r \in Room, RoomComes(R, r),
         e.kind = "removed", r = e.room, e.at > 0,
         r \in DOMAIN db.rooms, r \in DOMAIN db.rooms',
         db.rooms'[r].users = db.rooms[r].users \ {e.user},
         db.rooms'[r].requests = db.rooms[r].requests,
         rooms' = rooms, session' = session, Lines' = Lines
  PROVE  RoomComes(Q, r)'
<1>1. /\ Wholes(Q, r) = Wholes(R, r)
      /\ Removed(Q, r, 0) = Removed(R, r, 0) \cup {e.user}
  BY RemovalMore
<1>2. Comes("start")' <=> Comes("start")
  BY SameLines
<1>3. ComingRoom(r)' = ComingRoom(r)
  BY SameLines
<1>4. ASSUME NEW x, Fits(R, x, r)
      PROVE  Fits(Q, x, r)'
  <2>1. x.requests = db.rooms'[r].requests
    BY <1>4 DEF Fits
  <2>2. \/ x.users \ Removed(R, r, 0) = db.rooms[r].users
        \/ x.users \ Removed(R, r, 0) = db.rooms[r].users \cup {Coordinator}
    BY <1>4 DEF Fits, _normalize_room
  <2>3. x.users \ Removed(Q, r, 0) = (x.users \ Removed(R, r, 0)) \ {e.user}
    BY <1>1
  <2>4. \/ x.users \ Removed(Q, r, 0) = db.rooms'[r].users
        \/ x.users \ Removed(Q, r, 0) = db.rooms'[r].users \cup {Coordinator}
    BY <2>2, <2>3
  <2> QED
    BY <2>1, <2>4 DEF Fits, _normalize_room
<1>5. \A l : RoomOf(l)' = RoomOf(l)
  BY DEF RoomOf, _normalize_room
<1> QED
  BY <1>1, <1>2, <1>3, <1>4, <1>5 DEF RoomComes

\* Messages of which the event says nothing.
LEMMA OtherMessagesStillCome ==
  ASSUME NEW R, NEW e, NEW Q, Q = R \cup {e}, NEW m \in Message, NEW r \in Room,
         MessageComes(R, m, r),
         e.kind \in {"message", "deleted"} => e.message # m,
         m \in DOMAIN db.messages' <=> m \in DOMAIN db.messages,
         m \in DOMAIN db.messages => db.messages'[m] = db.messages[m],
         r \in DOMAIN db.rooms' /\ m \in DOMAIN db.messages /\ db.messages[m] = r
           => r \in DOMAIN db.rooms,
         messages' = messages, doing' = doing, session' = session, Lines' = Lines
  PROVE  MessageComes(Q, m, r)'
<1>1. /\ Made(Q, m) = Made(R, m)
      /\ WillBeDeleted(Q, m) <=> WillBeDeleted(R, m)
  BY NoMoreOfMessage
<1>2. WillHave(m, r)' <=> WillHave(m, r)
  <2>1. Comes("start")' <=> Comes("start")
    BY SameLines
  <2>2. ComingMessage(m, r)' <=> ComingMessage(m, r)
    BY SameLines
  <2>3. Has(m, r)' <=> Has(m, r)
    BY DEF Has, Listed, Appending, Deleting
  <2> QED
    BY <2>1, <2>2, <2>3 DEF WillHave
<1> QED
  BY <1>1, <1>2 DEF MessageComes

\* Messages stay where they are.
LEMMA SamePlaces ==
  ASSUME NEW R, NEW e, NEW Q, Q = R \cup {e}, NEW m \in Message, NEW s \in Room,
         e.kind = "message" => e.message # m,
         m \in DOMAIN db.messages' => m \in DOMAIN db.messages /\ db.messages'[m] = db.messages[m],
         messages' = messages, doing' = doing, Lines' = Lines, Place(Q, m, s)'
  PROVE  Place(R, m, s)
<1>1. Made(Q, m) = Made(R, m)
  BY DEF Made
<1>2. ComingMessage(m, s)' <=> ComingMessage(m, s)
  BY SameLines
<1>3. Listed(m, s)' <=> Listed(m, s)
  BY DEF Listed
<1>4. Appending(m, s)' <=> Appending(m, s)
  BY DEF Appending
<1> QED
  BY <1>1, <1>2, <1>3, <1>4 DEF Place

\* An event goes to the end of the queue.
LEMMA OrderOfAppend ==
  ASSUME NEW q \in Seq(Event \cup LoginLine), NEW e \in Event, e.at # 0, InOrder(q),
         \A i \in DOMAIN q : q[i] \in Event => q[i].at # 0
  PROVE  /\ InOrder(Append(q, e))
         /\ \A i \in DOMAIN Append(q, e) : Append(q, e)[i] \in Event => Append(q, e)[i].at # 0
         /\ Append(q, e) \in Seq(Event \cup LoginLine)
         /\ {l \in ToSet(Append(q, e)) : l.at = 0} = {l \in ToSet(q) : l.at = 0}
<1> DEFINE p == Append(q, e)
<1>1. /\ p \in Seq(Event \cup LoginLine) /\ Len(p) = Len(q) + 1
      /\ DOMAIN p = 1 .. Len(p) /\ DOMAIN q = 1 .. Len(q) /\ Len(q) \in Nat
      /\ \A i \in 1 .. Len(q) : p[i] = q[i]
      /\ p[Len(p)] = e
  OBVIOUS
<1> HIDE DEF p
<1>2. \A i \in DOMAIN p : i \in DOMAIN q \/ i = Len(p)
  BY <1>1
<1>3. \A i \in DOMAIN p : p[i] \in Event => p[i].at # 0
  BY <1>1, <1>2
<1>4. e.kind # "start" /\ e.kind # "end"
  BY EventKinds DEF Whole
<1>5. InOrder(p)
  <2> SUFFICES ASSUME NEW i \in DOMAIN p, NEW j \in DOMAIN p, i < j
               PROVE  /\ p[i].at # 0 => p[j].at # 0
                      /\ p[i].kind = "end" => p[j].at # 0
                      /\ p[j].kind = "start" => p[i].kind = "auth"
    BY DEF InOrder
  <2>1. i \in DOMAIN q /\ p[i] = q[i]
    BY <1>1
  <2>2. CASE j = Len(p)
    BY <1>1, <1>4, <2>2
  <2>3. CASE j \in DOMAIN q
    <3>1. p[j] = q[j]
      BY <1>1, <2>3
    <3> QED
      BY <2>1, <2>3, <3>1 DEF InOrder
  <2> QED
    BY <1>2, <2>2, <2>3
<1>6. \A l : l \in ToSet(p) <=> l \in ToSet(q) \/ l = e
  <2>1. \A l : l \in ToSet(p) <=> \E i \in DOMAIN p : p[i] = l
    BY DEF ToSet
  <2>2. \A l : l \in ToSet(q) <=> \E i \in DOMAIN q : q[i] = l
    BY DEF ToSet
  <2>3. \A i \in DOMAIN q : i \in DOMAIN p /\ p[i] = q[i]
    BY <1>1
  <2>4. Len(p) \in DOMAIN p
    BY <1>1
  <2> QED
    BY <1>1, <1>2, <2>1, <2>2, <2>3, <2>4
<1>7. {l \in ToSet(p) : l.at = 0} = {l \in ToSet(q) : l.at = 0}
  BY <1>6
<1> QED
  BY <1>1, <1>3, <1>5, <1>7 DEF p

\* What a request that is granted does to what is on its way.
LEMMA WhatAGrantSends ==
  ASSUME NEW e \in Event, e.at = clock + 1, clock \in Nat, NetworkTypeOK, LoginIsWhole,
         on_data_change(e)
  PROVE  /\ session' = session /\ direct' \in {direct, direct \cup {e}}
         /\ tcp' = tcp \/ (session[me] # "none" /\ tcp' = [tcp EXCEPT ![me] = Append(@, e)])
         /\ session[me] = "none" => direct' = direct
<1>1. \A c \in Client : c = me
  BY Me
<1>2. session[me] = "none" => Registered = {} /\ ~\E c \in Client : session[c] # "none"
  BY <1>1 DEF Registered
<1>3. session' = session
  BY DEF on_data_change
<1>4. direct' \in {direct, direct \cup {e}}
  BY DEF on_data_change
<1>5. tcp' = tcp \/ (session[me] # "none" /\ tcp' = [tcp EXCEPT ![me] = Append(@, e)])
  <2>1. \A c \in Registered : c = me /\ session[me] # "none"
    BY <1>1 DEF Registered
  <2> QED
    BY <2>1 DEF on_data_change
<1>6. session[me] = "none" => direct' = direct
  BY <1>2 DEF on_data_change
<1> QED
  BY <1>3, <1>4, <1>5, <1>6

LEMMA GrantsKeepTheLogin ==
  ASSUME NEW e \in Event, e.at = clock + 1, clock \in Nat, NetworkTypeOK, LoginIsWhole,
         ClientTypeOK, on_data_change(e), UNCHANGED client
  PROVE  /\ NetworkTypeOK' /\ LoginIsWhole' /\ ClientTypeOK'
         /\ Lines' = Lines /\ session' = session
<1>1. /\ session' = session /\ direct' \in {direct, direct \cup {e}}
      /\ tcp' = tcp \/ (session[me] # "none" /\ tcp' = [tcp EXCEPT ![me] = Append(@, e)])
      /\ session[me] = "none" => direct' = direct
  BY WhatAGrantSends
<1>2. /\ rooms' = rooms /\ messages' = messages /\ syncing' = syncing /\ doing' = doing
  BY DEF client
<1>3. e.at # 0 /\ me \in Client
  BY Me
<1>4. PICK q \in Seq(Event \cup LoginLine) : q = tcp[me]
  BY <1>3 DEF NetworkTypeOK
<1>5. PICK p : p = Append(q, e)
  OBVIOUS
<1>6. InOrder(q) /\ \A i \in DOMAIN q : q[i] \in Event => q[i].at # 0
  BY <1>4 DEF LoginIsWhole, NetworkTypeOK
<1>7. /\ InOrder(p) /\ \A i \in DOMAIN p : p[i] \in Event => p[i].at # 0
      /\ p \in Seq(Event \cup LoginLine)
      /\ {l \in ToSet(p) : l.at = 0} = {l \in ToSet(q) : l.at = 0}
  BY <1>3, <1>5, <1>6, OrderOfAppend
<1>8. tcp' = tcp \/ (session[me] # "none" /\ tcp' = [tcp EXCEPT ![me] = p])
  BY <1>1, <1>4, <1>5
<1>9. /\ tcp' \in [Client -> Seq(Event \cup LoginLine)]
      /\ tcp'[me] = q \/ (session[me] # "none" /\ tcp'[me] = p)
  BY <1>3, <1>4, <1>7, <1>8 DEF NetworkTypeOK
<1>10. \A i \in DOMAIN tcp'[me] : tcp'[me][i] \in Event => tcp'[me][i].at # 0
  BY <1>6, <1>7, <1>9
<1>11. NetworkTypeOK'
  BY <1>1, <1>3, <1>9, <1>10 DEF NetworkTypeOK
<1>12. Lines' = Lines
  <2>1. Lines' = {l \in ToSet(tcp'[me]) : l.at = 0} /\ Lines = {l \in ToSet(q) : l.at = 0}
    BY <1>4 DEF Lines, me
  <2> QED
    BY <1>7, <1>9, <2>1
<1>13. \A k : Comes(k)' <=> Comes(k)
  BY <1>12, SameLines
<1>14. InOrder(tcp'[me])
  BY <1>6, <1>7, <1>9
<1>15. session[me] = "none" => tcp'[me] = << >> /\ direct' = {}
  BY <1>1, <1>4, <1>9 DEF LoginIsWhole
<1>16. LoginIsWhole'
  BY <1>1, <1>2, <1>12, <1>13, <1>14, <1>15 DEF LoginIsWhole, me
<1>17. ClientTypeOK'
  BY <1>2 DEF ClientTypeOK, Working
<1> QED
  BY <1>1, <1>11, <1>12, <1>16, <1>17

LEMMA GrantsKeepTheRelay ==
  ASSUME NEW R, RelayTypeOK(R), clock \in Nat, NEW e \in Event, e.at = clock + 1,
         clock' = clock + 1, NEW Q, Q = R \cup {e}
  PROVE  RelayTypeOK(Q)'
<1>1. R \subseteq Event /\ (\A f \in R : f.at \in 1 .. clock)
      /\ \A f, g \in R : f.at = g.at => f = g
  BY DEF RelayTypeOK
<1>2. \A f \in Q : f.at \in 1 .. clock'
  BY <1>1
<1>3. \A f \in R : f.at # e.at
  BY <1>1
<1>4. \A f, g \in Q : f.at = g.at => f = g
  BY <1>1, <1>3
<1> QED
  BY <1>1, <1>2, <1>4 DEF RelayTypeOK

\* A granted request that is about a room.
LEMMA RoomEventKeepsInv ==
  ASSUME NEW R, ReplicaInv(R), NEW e \in Event, e.at = clock + 1, NEW Q, Q = R \cup {e},
         e.kind \in Whole \cup {"removed", "gone"}, on_data_change(e), UNCHANGED client,
         NEW r \in Room, r = e.room, r \in DOMAIN db.rooms \/ r \notin taken,
         DatabaseTypeOK', db.messages' = db.messages, taken \subseteq taken',
         \A s \in Room \ {r} : /\ s \in DOMAIN db.rooms' <=> s \in DOMAIN db.rooms
                               /\ s \in DOMAIN db.rooms => db.rooms'[s] = db.rooms[s],
         RoomIsTold(Q, r)', RoomComes(Q, r)'
  PROVE  ReplicaInv(Q)'
<1>1. /\ DatabaseTypeOK /\ RelayTypeOK(R) /\ NetworkTypeOK /\ ClientTypeOK /\ LoginIsWhole
      /\ clock \in Nat /\ clock' = clock + 1 /\ e.at > 0
  BY DEF ReplicaInv, DatabaseTypeOK, on_data_change
<1>2. /\ NetworkTypeOK' /\ LoginIsWhole' /\ ClientTypeOK'
      /\ Lines' = Lines /\ session' = session
  BY <1>1, GrantsKeepTheLogin
<1>3. RelayTypeOK(Q)'
  BY <1>1, GrantsKeepTheRelay
<1>4. rooms' = rooms /\ messages' = messages /\ doing' = doing
  BY DEF client
<1>5. e.kind \notin {"message", "deleted"}
  BY DEF Whole
<1>6. ASSUME NEW s \in Room
      PROVE  RoomIsTold(Q, s)'
  <2>1. CASE s = r
    BY <2>1
  <2>2. CASE s # r
    <3>1. RoomIsTold(R, s)
      BY DEF ReplicaInv
    <3>2. e.room # s /\ (s \in taken => s \in taken')
      BY <2>2
    <3>3. /\ s \in DOMAIN db.rooms' <=> s \in DOMAIN db.rooms
          /\ s \in DOMAIN db.rooms => db.rooms'[s] = db.rooms[s]
      BY <2>2
    <3> QED
      BY <3>1, <3>2, <3>3, OtherRoomsStayTold
  <2> QED
    BY <2>1, <2>2
<1>7. ASSUME NEW m \in Message
      PROVE  MessageIsTold(Q, m)'
  <2>1. MessageIsTold(R, m)
    BY DEF ReplicaInv
  <2>2. m \in taken => m \in taken'
    OBVIOUS
  <2> QED
    BY <1>5, <2>1, <2>2, OtherMessagesStayTold
<1>8. OnePlace(Q)'
  <2>1. ASSUME NEW m \in Message, NEW s \in Room, Place(Q, m, s)'
        PROVE  Place(R, m, s)
    BY <1>2, <1>4, <1>5, <2>1, SamePlaces
  <2>2. \A m \in Message : \A s, t \in Room :
          /\ Place(R, m, s) => m \in taken
          /\ Place(R, m, s) /\ Place(R, m, t) => s = t
    BY DEF ReplicaInv, OnePlace
  <2>3. \A m \in Message : \A s, t \in Room :
          /\ Place(Q, m, s)' => m \in taken'
          /\ Place(Q, m, s)' /\ Place(Q, m, t)' => s = t
    BY <2>1, <2>2
  <2> QED
    BY <2>3 DEF OnePlace
<1>9. ASSUME NEW s \in Room
      PROVE  RoomComes(Q, s)'
  <2>1. CASE s = r
    BY <2>1
  <2>2. CASE s # r
    <3>1. RoomComes(R, s)
      BY DEF ReplicaInv
    <3>2. e.room # s
      BY <2>2
    <3>3. /\ s \in DOMAIN db.rooms' <=> s \in DOMAIN db.rooms
          /\ s \in DOMAIN db.rooms => db.rooms'[s] = db.rooms[s]
      BY <2>2
    <3> QED
      BY <1>2, <1>4, <3>1, <3>2, <3>3, OtherRoomsStillCome
  <2> QED
    BY <2>1, <2>2
<1>10. ASSUME NEW m \in Message, NEW s \in Room
       PROVE  MessageComes(Q, m, s)'
  <2>1. MessageComes(R, m, s)
    BY DEF ReplicaInv
  <2>2. s \in DOMAIN db.rooms' /\ m \in DOMAIN db.messages /\ db.messages[m] = s
          => s \in DOMAIN db.rooms
    BY <1>1 DEF DatabaseTypeOK
  <2> QED
    BY <1>2, <1>4, <1>5, <2>1, <2>2, OtherMessagesStillCome
<1> QED
  BY <1>2, <1>3, <1>6, <1>7, <1>8, <1>9, <1>10 DEF ReplicaInv

\* A granted request that is about a message.
LEMMA MessageEventKeepsInv ==
  ASSUME NEW R, ReplicaInv(R), NEW e \in Event, e.at = clock + 1, NEW Q, Q = R \cup {e},
         e.kind \in {"message", "deleted"}, on_data_change(e), UNCHANGED client,
         NEW m \in Message, m = e.message,
         DatabaseTypeOK', db.rooms' = db.rooms, taken \subseteq taken',
         \A n \in Message \ {m} :
           /\ n \in DOMAIN db.messages' <=> n \in DOMAIN db.messages
           /\ n \in DOMAIN db.messages => db.messages'[n] = db.messages[n],
         MessageIsTold(Q, m)', \A r \in Room : MessageComes(Q, m, r)',
         \A r, s \in Room : /\ Place(Q, m, r)' => m \in taken'
                            /\ Place(Q, m, r)' /\ Place(Q, m, s)' => r = s
  PROVE  ReplicaInv(Q)'
<1>1. /\ DatabaseTypeOK /\ RelayTypeOK(R) /\ NetworkTypeOK /\ ClientTypeOK /\ LoginIsWhole
      /\ clock \in Nat /\ clock' = clock + 1 /\ e.at > 0
  BY DEF ReplicaInv, DatabaseTypeOK, on_data_change
<1>2. /\ NetworkTypeOK' /\ LoginIsWhole' /\ ClientTypeOK'
      /\ Lines' = Lines /\ session' = session
  BY <1>1, GrantsKeepTheLogin
<1>3. RelayTypeOK(Q)'
  BY <1>1, GrantsKeepTheRelay
<1>4. rooms' = rooms /\ messages' = messages /\ doing' = doing
  BY DEF client
<1>5. e.kind \notin Whole \cup {"removed", "gone"}
  BY DEF Whole
<1>6. ASSUME NEW s \in Room
      PROVE  RoomIsTold(Q, s)'
  <2>1. RoomIsTold(R, s)
    BY DEF ReplicaInv
  <2>2. s \in taken => s \in taken'
    OBVIOUS
  <2> QED
    BY <1>5, <2>1, <2>2, OtherRoomsStayTold
<1>7. ASSUME NEW n \in Message
      PROVE  MessageIsTold(Q, n)'
  <2>1. CASE n = m
    BY <2>1
  <2>2. CASE n # m
    <3>1. MessageIsTold(R, n)
      BY DEF ReplicaInv
    <3>2. e.message # n /\ (n \in taken => n \in taken')
      BY <2>2
    <3>3. n \in DOMAIN db.messages' <=> n \in DOMAIN db.messages
      BY <2>2
    <3> QED
      BY <3>1, <3>2, <3>3, OtherMessagesStayTold
  <2> QED
    BY <2>1, <2>2
<1>8. OnePlace(Q)'
  <2>1. ASSUME NEW n \in Message, n # m, NEW s \in Room, Place(Q, n, s)'
        PROVE  Place(R, n, s)
    <3>1. e.message # n
      BY <2>1
    <3>2. n \in DOMAIN db.messages' => n \in DOMAIN db.messages /\ db.messages'[n] = db.messages[n]
      BY <2>1
    <3> QED
      BY <1>2, <1>4, <2>1, <3>1, <3>2, SamePlaces
  <2>2. \A n \in Message : \A s, t \in Room :
          /\ Place(R, n, s) => n \in taken
          /\ Place(R, n, s) /\ Place(R, n, t) => s = t
    BY DEF ReplicaInv, OnePlace
  <2>3. \A n \in Message : \A s, t \in Room :
          /\ Place(Q, n, s)' => n \in taken'
          /\ Place(Q, n, s)' /\ Place(Q, n, t)' => s = t
    BY <2>1, <2>2
  <2> QED
    BY <2>3 DEF OnePlace
<1>9. ASSUME NEW s \in Room
      PROVE  RoomComes(Q, s)'
  <2>1. RoomComes(R, s)
    BY DEF ReplicaInv
  <2> QED
    BY <1>2, <1>4, <1>5, <2>1, OtherRoomsStillCome
<1>10. ASSUME NEW n \in Message, NEW s \in Room
       PROVE  MessageComes(Q, n, s)'
  <2>1. CASE n = m
    BY <2>1
  <2>2. CASE n # m
    <3>1. MessageComes(R, n, s)
      BY DEF ReplicaInv
    <3>2. e.message # n
      BY <2>2
    <3>3. /\ n \in DOMAIN db.messages' <=> n \in DOMAIN db.messages
          /\ n \in DOMAIN db.messages => db.messages'[n] = db.messages[n]
      BY <2>2
    <3> QED
      BY <1>2, <1>4, <3>1, <3>2, <3>3, OtherMessagesStillCome
  <2> QED
    BY <2>1, <2>2
<1> QED
  BY <1>2, <1>3, <1>6, <1>7, <1>8, <1>9, <1>10 DEF ReplicaInv

\* A request that is answered with the whole room.
LEMMA WholeRequest ==
  ASSUME NEW R, R = relay, ReplicaInv(R), NEW Q, Q = relay', UNCHANGED client,
         NEW e \in Event, e.at = clock + 1, e.kind \in Whole, on_data_change(e),
         NEW r \in Room, r = e.room, r \in DOMAIN db.rooms \/ r \notin taken,
         taken \subseteq taken', r \in taken',
         NEW F \in [DOMAIN db.rooms \cup {r} -> RoomRecord], db' = [db EXCEPT !.rooms = F],
         F[r] = [users |-> e.users, requests |-> e.requests],
         \A s \in DOMAIN db.rooms \ {r} : F[s] = db.rooms[s]
  PROVE  ReplicaInv(Q)'
<1>1. DatabaseTypeOK /\ RelayTypeOK(R) /\ RoomIsTold(R, r)
  BY DEF ReplicaInv
<1>2. db.rooms' = F /\ db.messages' = db.messages /\ db' = [rooms |-> F, messages |-> db.messages]
  BY <1>1 DEF DatabaseTypeOK
<1>3. Q = R \cup {e} /\ clock' = clock + 1
  BY DEF on_data_change
<1>4. DOMAIN F = DOMAIN db.rooms \cup {r}
  OBVIOUS
<1>5. DatabaseTypeOK'
  BY <1>1, <1>2, <1>3, <1>4 DEF DatabaseTypeOK
<1>6. \A s \in Room \ {r} : /\ s \in DOMAIN db.rooms' <=> s \in DOMAIN db.rooms
                            /\ s \in DOMAIN db.rooms => db.rooms'[s] = db.rooms[s]
  BY <1>2, <1>4
<1>7. /\ r \in DOMAIN db.rooms'
      /\ db.rooms'[r].users = e.users /\ db.rooms'[r].requests = e.requests
  BY <1>2, <1>4
<1>8. clock \in Nat
  BY <1>1 DEF DatabaseTypeOK
<1>9. RoomIsTold(Q, r)'
  BY <1>1, <1>3, <1>7, <1>8, WholeRoomIsTold
<1>10. RoomComes(Q, r)'
  <2>1. Wholes(Q, r) # {}
    BY <1>3 DEF Wholes
  <2> QED
    BY <1>7, <2>1 DEF RoomComes
<1> QED
  BY <1>2, <1>3, <1>5, <1>6, <1>9, <1>10, RoomEventKeepsInv

LEMMA NewRoomKeepsInv ==
  ASSUME NEW R, R = relay, ReplicaInv(R), NEW Q, Q = relay', UNCHANGED client,
         NEW r \in Room, NewRoom(r)
  PROVE  ReplicaInv(Q)'
<1>1. PICK e : e = [kind |-> "created", at |-> clock + 1, room |-> r,
                    users |-> {Coordinator}, requests |-> {}]
  OBVIOUS
<1>2. PICK x : x = [users |-> {Coordinator}, requests |-> {}]
  OBVIOUS
<1>3. clock \in Nat /\ Coordinator \in User
  BY ChatEventsAssumption DEF ReplicaInv, DatabaseTypeOK
<1>4. e \in Event
  BY <1>1, <1>3 DEF Event
<1>5. /\ e.at = clock + 1 /\ e.kind \in Whole /\ r = e.room
      /\ x = [users |-> e.users, requests |-> e.requests] /\ x \in RoomRecord
  BY <1>1, <1>2, <1>3 DEF Whole, RoomRecord
<1>6. r \notin taken /\ taken' = taken \cup {r} /\ on_data_change(e)
  BY <1>1 DEF NewRoom
<1>7. PICK F : F = With(db.rooms, r, x)
  OBVIOUS
<1>8. db' = [db EXCEPT !.rooms = F]
  BY <1>2, <1>7 DEF NewRoom
<1>9. db.rooms \in [DOMAIN db.rooms -> RoomRecord]
  BY DEF ReplicaInv, DatabaseTypeOK
<1>10. /\ F \in [DOMAIN db.rooms \cup {r} -> RoomRecord] /\ F[r] = x
       /\ \A s \in DOMAIN db.rooms \ {r} : F[s] = db.rooms[s]
  BY <1>5, <1>7, <1>9 DEF With
<1> QED
  BY <1>4, <1>5, <1>6, <1>8, <1>10, WholeRequest

LEMMA ChangeRoomKeepsInv ==
  ASSUME NEW R, R = relay, ReplicaInv(R), NEW Q, Q = relay', UNCHANGED client,
         NEW kind \in {"added", "requested", "rejected"}, NEW r \in Room, NEW u \in User,
         NEW x \in RoomRecord, r \in DOMAIN db.rooms, ChangeRoom(kind, r, u, x)
  PROVE  ReplicaInv(Q)'
<1>1. PICK e : e = [kind |-> kind, at |-> clock + 1, room |-> r, user |-> u,
                    users |-> x.users, requests |-> x.requests]
  OBVIOUS
<1>3. clock \in Nat
  BY DEF ReplicaInv, DatabaseTypeOK
<1>4. e \in Event
  BY <1>1, <1>3 DEF Event, RoomRecord
<1>5. /\ e.at = clock + 1 /\ e.kind \in Whole /\ r = e.room
      /\ x = [users |-> e.users, requests |-> e.requests]
  BY <1>1, <1>3 DEF Whole, RoomRecord
<1>6. taken' = taken /\ on_data_change(e)
  BY <1>1 DEF ChangeRoom
<1>7. PICK F : F = [db.rooms EXCEPT ![r] = x]
  OBVIOUS
<1>8. db' = [db EXCEPT !.rooms = F]
  BY <1>7 DEF ChangeRoom
<1>9. db.rooms \in [DOMAIN db.rooms -> RoomRecord]
  BY DEF ReplicaInv, DatabaseTypeOK
<1>10. /\ F \in [DOMAIN db.rooms \cup {r} -> RoomRecord] /\ F[r] = x
       /\ \A s \in DOMAIN db.rooms \ {r} : F[s] = db.rooms[s]
  BY <1>5, <1>7, <1>9
<1>11. r \in taken'
  BY <1>6 DEF ReplicaInv, RoomIsTold
<1> QED
  BY <1>4, <1>5, <1>6, <1>8, <1>10, <1>11, WholeRequest

LEMMA RemoveUserKeepsInv ==
  ASSUME NEW R, R = relay, ReplicaInv(R), NEW Q, Q = relay', UNCHANGED client,
         NEW r \in Room, NEW u \in User, RemoveUser(r, u)
  PROVE  ReplicaInv(Q)'
<1>1. PICK e : e = [kind |-> "removed", at |-> clock + 1, room |-> r, user |-> u]
  OBVIOUS
<1>2. DatabaseTypeOK /\ RelayTypeOK(R) /\ RoomIsTold(R, r) /\ RoomComes(R, r) /\ clock \in Nat
      /\ ClientTypeOK /\ LoginIsWhole /\ NetworkTypeOK
  BY DEF ReplicaInv, DatabaseTypeOK
<1>3. e \in Event
  BY <1>1, <1>2 DEF Event
<1>4. /\ e.at = clock + 1 /\ e.kind = "removed" /\ r = e.room /\ u = e.user /\ e.at > 0
  BY <1>1, <1>2
<1>5. on_data_change(e) /\ r \in DOMAIN db.rooms /\ taken' = taken
  BY <1>1 DEF RemoveUser
<1>6. PICK x : x = [db.rooms[r] EXCEPT !.users = @ \ {u}]
  OBVIOUS
<1>7. PICK F : F = [db.rooms EXCEPT ![r] = x]
  OBVIOUS
<1>8. db.rooms \in [DOMAIN db.rooms -> RoomRecord] /\ db.rooms[r] \in RoomRecord
  BY <1>2, <1>5 DEF DatabaseTypeOK
<1>9. x \in RoomRecord /\ x.users = db.rooms[r].users \ {u} /\ x.requests = db.rooms[r].requests
  BY <1>6, <1>8 DEF RoomRecord
<1>10. db' = [rooms |-> F, messages |-> db.messages]
  BY <1>2, <1>6, <1>7 DEF RemoveUser, DatabaseTypeOK
<1>11. /\ F \in [DOMAIN db.rooms -> RoomRecord] /\ F[r] = x
       /\ \A s \in DOMAIN db.rooms \ {r} : F[s] = db.rooms[s]
  BY <1>5, <1>7, <1>8, <1>9
<1>12. db.rooms' = F /\ db.messages' = db.messages
  BY <1>10
<1>13. Q = R \cup {e} /\ clock' = clock + 1
  BY <1>5 DEF on_data_change
<1>14. DatabaseTypeOK'
  BY <1>2, <1>5, <1>10, <1>11, <1>12, <1>13 DEF DatabaseTypeOK
<1>15. \A s \in Room \ {r} : /\ s \in DOMAIN db.rooms' <=> s \in DOMAIN db.rooms
                             /\ s \in DOMAIN db.rooms => db.rooms'[s] = db.rooms[s]
  BY <1>11, <1>12
<1>16. /\ r \in DOMAIN db.rooms' /\ db.rooms'[r].users = db.rooms[r].users \ {e.user}
       /\ db.rooms'[r].requests = db.rooms[r].requests
  BY <1>4, <1>5, <1>9, <1>11, <1>12
<1>17. RoomIsTold(Q, r)'
  BY <1>2, <1>3, <1>4, <1>5, <1>13, <1>16, RemovalIsTold
<1>18. Lines' = Lines /\ session' = session
  BY <1>2, <1>3, <1>4, <1>5, GrantsKeepTheLogin
<1>19. RoomComes(Q, r)'
  <2>1. rooms' = rooms
    BY DEF client
  <2> QED
    BY <1>2, <1>3, <1>4, <1>5, <1>13, <1>16, <1>18, <2>1, RemovalStillComes
<1>20. taken \subseteq taken' /\ e.kind \in Whole \cup {"removed", "gone"}
  BY <1>4, <1>5
<1> QED
  BY <1>3, <1>4, <1>5, <1>12, <1>13, <1>14, <1>15, <1>17, <1>19, <1>20, RoomEventKeepsInv

LEMMA DeleteRoomKeepsInv ==
  ASSUME NEW R, R = relay, ReplicaInv(R), NEW Q, Q = relay', UNCHANGED client,
         NEW r \in Room, DeleteRoom(r)
  PROVE  ReplicaInv(Q)'
<1>1. PICK e : e = [kind |-> "gone", at |-> clock + 1, room |-> r]
  OBVIOUS
<1>2. DatabaseTypeOK /\ RelayTypeOK(R) /\ RoomIsTold(R, r) /\ clock \in Nat
  BY DEF ReplicaInv, DatabaseTypeOK
<1>3. e \in Event
  BY <1>1, <1>2 DEF Event
<1>4. e.at = clock + 1 /\ e.kind = "gone" /\ r = e.room
  BY <1>1, <1>2
<1>5. on_data_change(e) /\ r \in DOMAIN db.rooms /\ taken' = taken
  BY <1>1 DEF DeleteRoom
<1>6. PICK F : F = Without(db.rooms, {r})
  OBVIOUS
<1>7. db.rooms \in [DOMAIN db.rooms -> RoomRecord]
  BY <1>2 DEF DatabaseTypeOK
<1>8. db' = [rooms |-> F, messages |-> db.messages]
  BY <1>2, <1>6 DEF DeleteRoom, DatabaseTypeOK
<1>9. /\ F \in [DOMAIN F -> RoomRecord] /\ DOMAIN F = DOMAIN db.rooms \ {r}
      /\ \A s \in DOMAIN db.rooms \ {r} : F[s] = db.rooms[s]
  BY <1>6, <1>7 DEF Without
<1>10. db.rooms' = F /\ db.messages' = db.messages
  BY <1>8
<1>11. Q = R \cup {e} /\ clock' = clock + 1
  BY <1>5 DEF on_data_change
<1>12. DatabaseTypeOK'
  BY <1>2, <1>5, <1>8, <1>9, <1>10, <1>11 DEF DatabaseTypeOK
<1>13. \A s \in Room \ {r} : /\ s \in DOMAIN db.rooms' <=> s \in DOMAIN db.rooms
                             /\ s \in DOMAIN db.rooms => db.rooms'[s] = db.rooms[s]
  BY <1>9, <1>10
<1>14. r \notin DOMAIN db.rooms'
  BY <1>9, <1>10
<1>15. RoomIsTold(Q, r)'
  BY <1>2, <1>3, <1>4, <1>5, <1>11, <1>14, GoneIsTold
<1>16. RoomComes(Q, r)'
  <2>1. WillGo(Q, r)
    BY <1>4, <1>11 DEF WillGo
  <2> QED
    BY <1>14, <2>1 DEF RoomComes
<1>17. taken \subseteq taken' /\ e.kind \in Whole \cup {"removed", "gone"}
  BY <1>4, <1>5
<1> QED
  BY <1>3, <1>4, <1>5, <1>10, <1>11, <1>12, <1>13, <1>15, <1>16, <1>17, RoomEventKeepsInv

LEMMA NewMessageKeepsInv ==
  ASSUME NEW R, R = relay, ReplicaInv(R), NEW Q, Q = relay', UNCHANGED client,
         NEW m \in Message, NEW r \in Room, NewMessage(m, r)
  PROVE  ReplicaInv(Q)'
<1>1. PICK e : e = [kind |-> "message", at |-> clock + 1, message |-> m, room |-> r]
  OBVIOUS
<1>2. /\ DatabaseTypeOK /\ RelayTypeOK(R) /\ MessageIsTold(R, m) /\ clock \in Nat
      /\ ClientTypeOK /\ LoginIsWhole /\ NetworkTypeOK
  BY DEF ReplicaInv, DatabaseTypeOK
<1>3. e \in Event
  BY <1>1, <1>2 DEF Event
<1>4. e.at = clock + 1 /\ e.kind = "message" /\ m = e.message /\ e.room = r
  BY <1>1, <1>2
<1>5. /\ on_data_change(e) /\ r \in DOMAIN db.rooms /\ m \notin taken
      /\ taken' = taken \cup {m}
  BY <1>1 DEF NewMessage
<1>6. PICK F : F = With(db.messages, m, r)
  OBVIOUS
<1>7. /\ db.messages \in [DOMAIN db.messages -> Room] /\ DOMAIN db.messages \subseteq Message
      /\ r \in taken
  BY <1>2, <1>5 DEF DatabaseTypeOK, ReplicaInv, RoomIsTold
<1>8. db' = [rooms |-> db.rooms, messages |-> F]
  BY <1>2, <1>6 DEF NewMessage, DatabaseTypeOK
<1>9. /\ F \in [DOMAIN F -> Room] /\ DOMAIN F = DOMAIN db.messages \cup {m} /\ F[m] = r
      /\ \A n \in DOMAIN db.messages \ {m} : F[n] = db.messages[n]
  BY <1>6, <1>7 DEF With
<1>10. db.rooms' = db.rooms /\ db.messages' = F
  BY <1>8
<1>11. Q = R \cup {e} /\ clock' = clock + 1
  BY <1>5 DEF on_data_change
<1>12. DatabaseTypeOK'
  <2>1. IsFiniteSet(DOMAIN F)
    BY <1>2, <1>9, FS_AddElement DEF DatabaseTypeOK
  <2>2. \A n \in DOMAIN F : F[n] \in taken'
    BY <1>2, <1>5, <1>7, <1>9 DEF DatabaseTypeOK
  <2>3. DOMAIN F \subseteq Message
    BY <1>7, <1>9
  <2>4. clock' \in Nat
    BY <1>2, <1>11
  <2> QED
    BY <1>2, <1>8, <1>9, <1>10, <2>1, <2>2, <2>3, <2>4 DEF DatabaseTypeOK
<1>13. \A n \in Message \ {m} :
         /\ n \in DOMAIN db.messages' <=> n \in DOMAIN db.messages
         /\ n \in DOMAIN db.messages => db.messages'[n] = db.messages[n]
  BY <1>9, <1>10
<1>14. m \in DOMAIN db.messages' /\ m \in taken'
  BY <1>5, <1>9, <1>10
<1>15. MessageIsTold(Q, m)'
  BY <1>2, <1>4, <1>5, <1>11, <1>14, NewMessageIsTold
<1>16. Made(Q, m) # {}
  BY <1>4, <1>11 DEF Made
<1>17. \A s \in Room : MessageComes(Q, m, s)'
  BY <1>14, <1>16 DEF MessageComes
<1>18. Lines' = Lines
  BY <1>2, <1>3, <1>4, <1>5, GrantsKeepTheLogin
<1>19. ASSUME NEW s \in Room, Place(Q, m, s)'
       PROVE  s = r
  <2>1. ~Place(R, m, s)
    BY <1>5 DEF ReplicaInv, OnePlace
  <2>2. /\ ComingMessage(m, s)' <=> ComingMessage(m, s)
    BY <1>18, SameLines
  <2>3. Listed(m, s)' <=> Listed(m, s)
    BY DEF Listed, client
  <2>4. Appending(m, s)' <=> Appending(m, s)
    BY DEF Appending, client
  <2>5. ~ComingMessage(m, s)' /\ ~Listed(m, s)' /\ ~Appending(m, s)'
    BY <2>1, <2>2, <2>3, <2>4 DEF Place
  <2>6. CASE m \in DOMAIN db.messages' /\ db.messages'[m] = s
    BY <1>9, <1>10, <2>6
  <2>7. CASE \E f \in Made(Q, m) : f.room = s
    <3>1. \A f \in Made(R, m) : f.room # s
      BY <2>1 DEF Place
    <3>2. \A f \in Made(Q, m) : f \in Made(R, m) \/ f = e
      BY <1>11 DEF Made
    <3> QED
      BY <1>4, <2>7, <3>1, <3>2
  <2> QED
    BY <1>19, <2>5, <2>6, <2>7 DEF Place
<1>20. \A s, t \in Room : /\ Place(Q, m, s)' => m \in taken'
                          /\ Place(Q, m, s)' /\ Place(Q, m, t)' => s = t
  BY <1>14, <1>19
<1>21. taken \subseteq taken' /\ e.kind \in {"message", "deleted"}
  BY <1>4, <1>5
<1> QED
  BY <1>3, <1>4, <1>5, <1>10, <1>11, <1>12, <1>13, <1>15, <1>17, <1>20, <1>21,
     MessageEventKeepsInv, ZenonT(40)

LEMMA DeleteMessageKeepsInv ==
  ASSUME NEW R, R = relay, ReplicaInv(R), NEW Q, Q = relay', UNCHANGED client,
         NEW m \in Message, DeleteMessage(m)
  PROVE  ReplicaInv(Q)'
<1>1. PICK e : e = [kind |-> "deleted", at |-> clock + 1, message |-> m]
  OBVIOUS
<1>2. /\ DatabaseTypeOK /\ RelayTypeOK(R) /\ MessageIsTold(R, m) /\ clock \in Nat
      /\ ClientTypeOK /\ LoginIsWhole /\ NetworkTypeOK
  BY DEF ReplicaInv, DatabaseTypeOK
<1>3. e \in Event
  BY <1>1, <1>2 DEF Event
<1>4. e.at = clock + 1 /\ e.kind = "deleted" /\ m = e.message
  BY <1>1, <1>2
<1>5. on_data_change(e) /\ m \in DOMAIN db.messages /\ taken' = taken
  BY <1>1 DEF DeleteMessage
<1>6. PICK F : F = Without(db.messages, {m})
  OBVIOUS
<1>7. /\ db.messages \in [DOMAIN db.messages -> Room] /\ DOMAIN db.messages \subseteq Message
  BY <1>2 DEF DatabaseTypeOK
<1>8. db' = [rooms |-> db.rooms, messages |-> F]
  BY <1>2, <1>6 DEF DeleteMessage, DatabaseTypeOK
<1>9. /\ F \in [DOMAIN F -> Room] /\ DOMAIN F = DOMAIN db.messages \ {m}
      /\ \A n \in DOMAIN db.messages \ {m} : F[n] = db.messages[n]
  BY <1>6, <1>7 DEF Without
<1>10. db.rooms' = db.rooms /\ db.messages' = F
  BY <1>8
<1>11. Q = R \cup {e} /\ clock' = clock + 1
  BY <1>5 DEF on_data_change
<1>12. DatabaseTypeOK'
  <2>1. IsFiniteSet(DOMAIN F)
    BY <1>2, <1>9, FS_RemoveElement DEF DatabaseTypeOK
  <2>2. \A n \in DOMAIN F : F[n] \in taken'
    BY <1>2, <1>5, <1>7, <1>9 DEF DatabaseTypeOK
  <2>3. DOMAIN F \subseteq Message
    BY <1>7, <1>9
  <2>4. clock' \in Nat
    BY <1>2, <1>11
  <2> QED
    BY <1>2, <1>8, <1>9, <1>10, <2>1, <2>2, <2>3, <2>4 DEF DatabaseTypeOK
<1>13. \A n \in Message \ {m} :
         /\ n \in DOMAIN db.messages' <=> n \in DOMAIN db.messages
         /\ n \in DOMAIN db.messages => db.messages'[n] = db.messages[n]
  BY <1>9, <1>10
<1>14. m \notin DOMAIN db.messages'
  BY <1>9, <1>10
<1>15. m \in taken
  <2>1. Place(R, m, db.messages[m]) /\ db.messages[m] \in Room
    BY <1>5, <1>7 DEF Place
  <2> QED
    BY <2>1 DEF ReplicaInv, OnePlace
<1>16. MessageIsTold(Q, m)'
  BY <1>2, <1>3, <1>4, <1>5, <1>11, <1>14, <1>15, DeletionIsTold
<1>17. \A s \in Room : MessageComes(Q, m, s)'
  <2>1. WillBeDeleted(Q, m)
    BY <1>4, <1>11 DEF WillBeDeleted
  <2> QED
    BY <1>14, <2>1 DEF MessageComes
<1>18. Lines' = Lines
  BY <1>2, <1>3, <1>4, <1>5, GrantsKeepTheLogin
<1>19. ASSUME NEW s \in Room, Place(Q, m, s)'
       PROVE  Place(R, m, s)
  <2>1. messages' = messages /\ doing' = doing
    BY DEF client
  <2> QED
    BY <1>4, <1>11, <1>14, <1>18, <1>19, <2>1, SamePlaces
<1>20. \A s, t \in Room : /\ Place(Q, m, s)' => m \in taken'
                          /\ Place(Q, m, s)' /\ Place(Q, m, t)' => s = t
  BY <1>5, <1>15, <1>19 DEF ReplicaInv, OnePlace
<1>21. taken \subseteq taken' /\ e.kind \in {"message", "deleted"}
  BY <1>4, <1>5
<1> QED
  BY <1>3, <1>4, <1>5, <1>10, <1>11, <1>12, <1>13, <1>16, <1>17, <1>20, <1>21,
     MessageEventKeepsInv

LEMMA RequestsKeepInv ==
  ASSUME NEW R, R = relay, ReplicaInv(R), NEW Q, Q = relay', UNCHANGED client, handleRequest
  PROVE  ReplicaInv(Q)'
<1>1. db.rooms \in [DOMAIN db.rooms -> RoomRecord]
  BY DEF ReplicaInv, DatabaseTypeOK
<1>2. ASSUME NEW r \in Room, NewRoom(r)
      PROVE  ReplicaInv(Q)'
  BY <1>2, NewRoomKeepsInv
<1>3. ASSUME NEW r \in Room, DeleteRoom(r)
      PROVE  ReplicaInv(Q)'
  BY <1>3, DeleteRoomKeepsInv
<1>4. ASSUME NEW r \in Room, NEW u \in User, AddUser(r, u)
      PROVE  ReplicaInv(Q)'
  <2>1. PICK x : x = [users |-> db.rooms[r].users \cup {u}, requests |-> db.rooms[r].requests \ {u}]
    OBVIOUS
  <2>2. r \in DOMAIN db.rooms /\ ChangeRoom("added", r, u, x)
    BY <1>4, <2>1 DEF AddUser
  <2>3. x \in RoomRecord
    BY <1>1, <2>1, <2>2 DEF RoomRecord
  <2> QED
    BY <2>2, <2>3, ChangeRoomKeepsInv
<1>5. ASSUME NEW r \in Room, NEW u \in User, RemoveUser(r, u)
      PROVE  ReplicaInv(Q)'
  BY <1>5, RemoveUserKeepsInv
<1>6. ASSUME NEW r \in Room, NEW u \in User, Request(r, u)
      PROVE  ReplicaInv(Q)'
  <2>1. PICK x : x = [db.rooms[r] EXCEPT !.requests = @ \cup ({u} \ db.rooms[r].users)]
    OBVIOUS
  <2>2. r \in DOMAIN db.rooms /\ ChangeRoom("requested", r, u, x)
    BY <1>6, <2>1 DEF Request
  <2>3. x \in RoomRecord
    BY <1>1, <2>1, <2>2 DEF RoomRecord
  <2> QED
    BY <2>2, <2>3, ChangeRoomKeepsInv
<1>7. ASSUME NEW r \in Room, NEW u \in User, DeleteRequest(r, u)
      PROVE  ReplicaInv(Q)'
  <2>1. PICK x : x = [db.rooms[r] EXCEPT !.requests = @ \ {u}]
    OBVIOUS
  <2>2. r \in DOMAIN db.rooms /\ ChangeRoom("rejected", r, u, x)
    BY <1>7, <2>1 DEF DeleteRequest
  <2>3. x \in RoomRecord
    BY <1>1, <2>1, <2>2 DEF RoomRecord
  <2> QED
    BY <2>2, <2>3, ChangeRoomKeepsInv
<1>8. ASSUME NEW m \in Message, NEW r \in Room, NewMessage(m, r)
      PROVE  ReplicaInv(Q)'
  BY <1>8, NewMessageKeepsInv
<1>9. ASSUME NEW m \in Message, DeleteMessage(m)
      PROVE  ReplicaInv(Q)'
  BY <1>9, DeleteMessageKeepsInv
<1> QED
  BY <1>2, <1>3, <1>4, <1>5, <1>6, <1>7, <1>8, <1>9 DEF handleRequest

-----------------------------------------------------------------------------
(***************************************************************************)
(* The login                                                               *)
(***************************************************************************)
\* A list of all elements of a set has them all.
LEMMA ListsOfASet ==
  ASSUME NEW S, IsFiniteSet(S), NEW q \in SetToSeqs(S)
  PROVE  q \in Seq(S) /\ \A x : x \in ToSet(q) <=> x \in S
<1>1. PICK n \in Nat : n = Cardinality(S)
  BY FS_CardinalityType
<1>2. q \in [1 .. n -> S] /\ \A i, j \in 1 .. n : i # j => q[i] # q[j]
  BY <1>1 DEF SetToSeqs
<1>3. q \in Injection(1 .. n, S)
  BY <1>2 DEF Injection, IsInjective
<1>4. Cardinality(1 .. n) = n
  <2>1. 1 \in Int /\ n \in Int
    BY <1>1
  <2>2. Cardinality(1 .. n) = IF 1 > n THEN 0 ELSE n - 1 + 1
    BY <2>1, FS_Interval
  <2> QED
    BY <1>1, <2>2
<1>5. q \in Surjection(1 .. n, S)
  BY <1>1, <1>3, <1>4, FS_Injection
<1>6. \A x \in S : \E i \in 1 .. n : q[i] = x
  BY <1>5 DEF Surjection
<1>7. q \in Seq(S)
  BY <1>2
<1>8. \A x : x \in ToSet(q) <=> \E i \in 1 .. n : q[i] = x
  BY <1>2 DEF ToSet
<1> QED
  BY <1>2, <1>6, <1>7, <1>8

LEMMA TwoLists ==
  ASSUME NEW T, NEW A \in Seq(T), NEW M \in Seq(T), NEW p, p = A \o M
  PROVE  /\ p \in Seq(T) /\ Len(p) = Len(A) + Len(M)
         /\ Len(A) \in Nat /\ Len(M) \in Nat
         /\ \A i \in 1 .. Len(A) : p[i] = A[i]
         /\ \A i \in 1 .. Len(M) : p[Len(A) + i] = M[i]
<1>1. p \in Seq(T)
  OBVIOUS
<1>2. Len(p) = Len(A) + Len(M) /\ Len(A) \in Nat /\ Len(M) \in Nat
  OBVIOUS
<1>3. \A i \in 1 .. Len(A) : p[i] = A[i]
  OBVIOUS
<1>4. \A i \in 1 .. Len(M) : p[Len(A) + i] = M[i]
  OBVIOUS
<1> QED
  BY <1>1, <1>2, <1>3, <1>4

\* So many lines, and which.
Login(a, s, A, M, z) == <<a, s>> \o A \o M \o <<z>>

AllThere(q, a, s, A, M, z) ==
  /\ Len(q) > 2
  /\ q[1] = a /\ q[2] = s /\ q[Len(q)] = z
  /\ \A i \in 3 .. Len(q) - 1 : q[i] \in ToSet(A) \cup ToSet(M)
  /\ \A x \in ToSet(A) \cup ToSet(M) : \E i \in 3 .. Len(q) - 1 : q[i] = x

LEMMA LinesOfALogin ==
  ASSUME NEW T, NEW a \in T, NEW s \in T, NEW z \in T, NEW A \in Seq(T), NEW M \in Seq(T),
         NEW q, q = Login(a, s, A, M, z)
  PROVE  q \in Seq(T) /\ AllThere(q, a, s, A, M, z)
<1>1. PICK p : p = A \o M
  OBVIOUS
<1>2. /\ p \in Seq(T) /\ Len(p) = Len(A) + Len(M) /\ Len(A) \in Nat /\ Len(M) \in Nat /\ Len(p) \in Nat
      /\ DOMAIN A = 1 .. Len(A) /\ DOMAIN M = 1 .. Len(M)
      /\ \A i \in 1 .. Len(A) : p[i] = A[i]
      /\ \A i \in 1 .. Len(M) : p[Len(A) + i] = M[i]
  BY <1>1
<1>3. \A i \in 1 .. Len(p) : p[i] \in ToSet(A) \cup ToSet(M)
  <2> SUFFICES ASSUME NEW i \in 1 .. Len(p)
               PROVE  p[i] \in ToSet(A) \cup ToSet(M)
    OBVIOUS
  <2>1. CASE i <= Len(A)
    <3>1. i \in DOMAIN A /\ p[i] = A[i]
      BY <1>2, <2>1
    <3> QED
      BY <3>1 DEF ToSet
  <2>2. CASE i > Len(A)
    <3>1. i - Len(A) \in 1 .. Len(M) /\ i = Len(A) + (i - Len(A))
      BY <1>2, <2>2
    <3>2. p[i] = M[i - Len(A)]
      BY <1>2, <3>1
    <3> QED
      BY <1>2, <3>1, <3>2 DEF ToSet
  <2> QED
    BY <1>2, <2>1, <2>2
<1>4. \A x \in ToSet(A) \cup ToSet(M) : \E i \in 1 .. Len(p) : p[i] = x
  <2>1. ASSUME NEW i \in 1 .. Len(A)
        PROVE  \E j \in 1 .. Len(p) : p[j] = A[i]
    BY <1>2
  <2>2. ASSUME NEW i \in 1 .. Len(M)
        PROVE  \E j \in 1 .. Len(p) : p[j] = M[i]
    <3>1. Len(A) + i \in 1 .. Len(p) /\ p[Len(A) + i] = M[i]
      BY <1>2
    <3> QED
      BY <3>1
  <2> QED
    BY <1>2, <2>1, <2>2 DEF ToSet
<1>5. q = <<a, s>> \o p \o <<z>>
  BY <1>1 DEF Login
<1>6. PICK b : b = <<a, s>> \o p
  OBVIOUS
<1> DEFINE h == <<a, s>>
<1>h. h \in Seq(T) /\ Len(h) = 2 /\ h[1] = a /\ h[2] = s
  OBVIOUS
<1> DEFINE k == <<z>>
<1>k. k \in Seq(T) /\ Len(k) = 1 /\ k[1] = z
  OBVIOUS
<1>b. b = h \o p /\ q = b \o k
  BY <1>5, <1>6
<1> HIDE DEF h, k
<1>7. /\ b \in Seq(T) /\ Len(b) = Len(p) + 2 /\ b[1] = a /\ b[2] = s
      /\ \A i \in 1 .. Len(p) : b[2 + i] = p[i]
  <2>1. /\ b \in Seq(T) /\ Len(b) = Len(h) + Len(p)
        /\ \A i \in 1 .. Len(h) : b[i] = h[i]
        /\ \A i \in 1 .. Len(p) : b[Len(h) + i] = p[i]
    <3>1. h \in Seq(T) /\ p \in Seq(T) /\ b = h \o p
      BY <1>2, <1>h, <1>b
    <3> QED
      BY <3>1, TwoLists
  <2> QED
    BY <1>2, <1>h, <2>1
<1>9. /\ q \in Seq(T) /\ Len(q) = Len(b) + 1 /\ q[Len(b) + 1] = z
      /\ \A i \in 1 .. Len(b) : q[i] = b[i]
  <2>1. /\ q \in Seq(T) /\ Len(q) = Len(b) + Len(k)
        /\ \A i \in 1 .. Len(b) : q[i] = b[i]
        /\ \A i \in 1 .. Len(k) : q[Len(b) + i] = k[i]
    <3>1. PICK c : c = b \o k
      OBVIOUS
    <3>2. b \in Seq(T) /\ k \in Seq(T)
      BY <1>7, <1>k
    <3>3. /\ c \in Seq(T) /\ Len(c) = Len(b) + Len(k)
          /\ \A i \in 1 .. Len(b) : c[i] = b[i]
          /\ \A i \in 1 .. Len(k) : c[Len(b) + i] = k[i]
      BY <3>1, <3>2, TwoLists
    <3>4. q = c
      BY <1>b, <3>1
    <3> QED
      BY <3>3, <3>4
  <2> QED
    BY <1>k, <2>1
<1>10. \A i \in 3 .. Len(q) - 1 : i - 2 \in 1 .. Len(p) /\ q[i] = p[i - 2]
  BY <1>2, <1>7, <1>9
<1>11. \A i \in 1 .. Len(p) : i + 2 \in 3 .. Len(q) - 1 /\ q[i + 2] = p[i]
  BY <1>2, <1>7, <1>9
<1>12. \A i \in 3 .. Len(q) - 1 : q[i] \in ToSet(A) \cup ToSet(M)
  BY <1>3, <1>10
<1>13. \A x \in ToSet(A) \cup ToSet(M) : \E i \in 3 .. Len(q) - 1 : q[i] = x
  BY <1>4, <1>11
<1>14. Len(q) > 2 /\ q[1] = a /\ q[2] = s /\ q[Len(q)] = z
  BY <1>2, <1>7, <1>9
<1> QED
  BY <1>9, <1>12, <1>13, <1>14 DEF AllThere

\* The lines of the login tell all that the database has.
LEMMA WhatALoginSends ==
  ASSUME DatabaseTypeOK, handleAuth(me)
  PROVE  \E q \in Seq(LoginLine) :
           /\ tcp' = [tcp EXCEPT ![me] = q]
           /\ InOrder(q)
           /\ \A l : l \in ToSet(q) <=>
                \/ l \in {Line("auth"), Line("start"), Line("end")}
                \/ \E r \in DOMAIN db.rooms : l = RoomLine(r)
                \/ \E m \in DOMAIN db.messages : l = MessageLine(m)
<1>1. PICK S : S = {RoomLine(r) : r \in DOMAIN db.rooms}
  OBVIOUS
<1>2. PICK T : T = {MessageLine(m) : m \in DOMAIN db.messages}
  OBVIOUS
<1>3. IsFiniteSet(S)
  <2>1. PICK f : f = [r \in DOMAIN db.rooms |-> RoomLine(r)]
    OBVIOUS
  <2>2. PICK D : D = DOMAIN db.rooms
    OBVIOUS
  <2>3. f \in [D -> S] /\ \A x \in S : \E r \in D : f[r] = x
    BY <1>1, <2>1, <2>2
  <2>4. f \in Surjection(D, S)
    BY <2>3 DEF Surjection
  <2>5. IsFiniteSet(D)
    BY <2>2, ChatEventsAssumption, FS_Subset DEF DatabaseTypeOK
  <2> QED
    BY <2>4, <2>5, FS_Surjection
<1>4. IsFiniteSet(T)
  <2>1. PICK f : f = [m \in DOMAIN db.messages |-> MessageLine(m)]
    OBVIOUS
  <2>2. PICK D : D = DOMAIN db.messages
    OBVIOUS
  <2>3. f \in [D -> T] /\ \A x \in T : \E r \in D : f[r] = x
    BY <1>2, <2>1, <2>2
  <2>4. f \in Surjection(D, T)
    BY <2>3 DEF Surjection
  <2>5. IsFiniteSet(D)
    BY <2>2 DEF DatabaseTypeOK
  <2> QED
    BY <2>4, <2>5, FS_Surjection
<1>5. PICK A \in SetToSeqs(S), M \in SetToSeqs(T) :
        tcp' = [tcp EXCEPT ![me] = <<Line("auth"), Line("start")>> \o A \o M \o <<Line("end")>>]
  BY <1>1, <1>2 DEF handleAuth
<1>6. A \in Seq(S) /\ \A x : x \in ToSet(A) <=> x \in S
  BY <1>3, ListsOfASet
<1>7. M \in Seq(T) /\ \A x : x \in ToSet(M) <=> x \in T
  BY <1>4, ListsOfASet
<1>8. ASSUME NEW r \in DOMAIN db.rooms
      PROVE  RoomLine(r) \in LoginLine /\ RoomLine(r).kind = "CHATROOM"
  <2>1. r \in Room /\ db.rooms[r] \in RoomRecord
    BY DEF DatabaseTypeOK
  <2> QED
    BY <2>1 DEF RoomLine, LoginLine, RoomRecord
<1>9. ASSUME NEW m \in DOMAIN db.messages
      PROVE  MessageLine(m) \in LoginLine /\ MessageLine(m).kind = "MESSAGE"
  <2>1. m \in Message /\ db.messages[m] \in Room
    BY DEF DatabaseTypeOK
  <2> QED
    BY <2>1 DEF MessageLine, LoginLine
<1>10. \A x \in S \cup T : x \in LoginLine /\ x.kind \in {"CHATROOM", "MESSAGE"}
  BY <1>1, <1>2, <1>8, <1>9
<1>11. A \in Seq(LoginLine) /\ M \in Seq(LoginLine)
  BY <1>6, <1>7, <1>10
<1>12. PICK a, s, z \in LoginLine :
         /\ a = Line("auth") /\ s = Line("start") /\ z = Line("end")
         /\ a.kind = "auth" /\ s.kind = "start" /\ z.kind = "end"
  <2>1. /\ Line("auth") \in LoginLine /\ Line("start") \in LoginLine /\ Line("end") \in LoginLine
        /\ Line("auth").kind = "auth" /\ Line("start").kind = "start" /\ Line("end").kind = "end"
    BY DEF Line, LoginLine
  <2> QED
    BY <2>1
<1>13. PICK q : q = <<a, s>> \o A \o M \o <<z>>
  OBVIOUS
<1>14. /\ q \in Seq(LoginLine) /\ Len(q) > 2
       /\ q[1] = a /\ q[2] = s /\ q[Len(q)] = z
       /\ \A i \in 3 .. Len(q) - 1 : q[i] \in ToSet(A) \cup ToSet(M)
       /\ \A x \in ToSet(A) \cup ToSet(M) : \E i \in 3 .. Len(q) - 1 : q[i] = x
  <2>1. q = Login(a, s, A, M, z)
    BY <1>13 DEF Login
  <2>2. q \in Seq(LoginLine) /\ AllThere(q, a, s, A, M, z)
    BY <2>1, <1>11, LinesOfALogin
  <2> QED
    BY <2>2 DEF AllThere
<1>15. Len(q) \in Nat /\ DOMAIN q = 1 .. Len(q)
  BY <1>14
<1>16. tcp' = [tcp EXCEPT ![me] = q]
  BY <1>5, <1>12, <1>13
<1>17. \A i \in 3 .. Len(q) - 1 : q[i] \in S \cup T /\ q[i].kind \in {"CHATROOM", "MESSAGE"}
  BY <1>6, <1>7, <1>10, <1>14
<1>18. \A i \in DOMAIN q : i = 1 \/ i = 2 \/ i = Len(q) \/ i \in 3 .. Len(q) - 1
  BY <1>14, <1>15
<1>19. InOrder(q)
  <2> SUFFICES ASSUME NEW i \in DOMAIN q, NEW j \in DOMAIN q, i < j
               PROVE  /\ q[i].at # 0 => q[j].at # 0
                      /\ q[i].kind = "end" => q[j].at # 0
                      /\ q[j].kind = "start" => q[i].kind = "auth"
    BY DEF InOrder
  <2>1. q[i].at = 0
    BY <1>14, <1>15, LineKinds
  <2>2. i # Len(q) /\ j # 1
    BY <1>15
  <2>3. q[i].kind # "end"
    BY <1>12, <1>14, <1>17, <1>18, <2>2
  <2>4. q[j].kind = "start" => j = 2
    BY <1>12, <1>14, <1>17, <1>18, <2>2
  <2>5. j = 2 => i = 1
    BY <1>15
  <2>6. q[j].kind = "start" => q[i].kind = "auth"
    BY <1>12, <1>14, <2>4, <2>5
  <2> QED
    BY <2>1, <2>3, <2>6
<1>20. ASSUME NEW l
       PROVE  l \in ToSet(q) <=>
                \/ l \in {Line("auth"), Line("start"), Line("end")}
                \/ \E r \in DOMAIN db.rooms : l = RoomLine(r)
                \/ \E m \in DOMAIN db.messages : l = MessageLine(m)
  <2>1. l \in ToSet(q) <=> \E i \in DOMAIN q : q[i] = l
    BY DEF ToSet
  <2>2. l \in S \cup T <=> \/ \E r \in DOMAIN db.rooms : l = RoomLine(r)
                           \/ \E m \in DOMAIN db.messages : l = MessageLine(m)
    BY <1>1, <1>2
  <2>3. l \in ToSet(q) => l \in {a, s, z} \/ l \in S \cup T
    BY <1>14, <1>17, <1>18, <2>1
  <2>4. l \in {a, s, z} => l \in ToSet(q)
    <3>1. 1 \in DOMAIN q /\ 2 \in DOMAIN q /\ Len(q) \in DOMAIN q
      BY <1>14, <1>15
    <3> QED
      BY <1>14, <2>1, <3>1
  <2>5. l \in S \cup T => l \in ToSet(q)
    <3>1. \A i \in 3 .. Len(q) - 1 : i \in DOMAIN q
      BY <1>15
    <3>2. l \in S \cup T => l \in ToSet(A) \cup ToSet(M)
      BY <1>6, <1>7
    <3> QED
      BY <1>14, <2>1, <3>1, <3>2
  <2> QED
    BY <1>12, <2>2, <2>3, <2>4, <2>5
<1> QED
  BY <1>14, <1>16, <1>19, <1>20

\* The lines that come then, by kinds.
LEMMA WhatComesThen ==
  ASSUME NEW q, tcp'[me] = q,
         \A l : l \in ToSet(q) <=>
           \/ l \in {Line("auth"), Line("start"), Line("end")}
           \/ \E r \in DOMAIN db.rooms : l = RoomLine(r)
           \/ \E m \in DOMAIN db.messages : l = MessageLine(m)
  PROVE  /\ Comes("start")' /\ Comes("end")'
         /\ \A r \in DOMAIN db.rooms : \A l : l \in ComingRoom(r)' <=> l = RoomLine(r)
         /\ \A r : r \notin DOMAIN db.rooms => ComingRoom(r)' = {}
         /\ \A m, r : ComingMessage(m, r)' <=> m \in DOMAIN db.messages /\ db.messages[m] = r
<1>1. /\ \A k : Line(k).at = 0 /\ Line(k).kind = k
      /\ \A r : RoomLine(r).at = 0 /\ RoomLine(r).kind = "CHATROOM" /\ RoomLine(r).room = r
      /\ \A m : /\ MessageLine(m).at = 0 /\ MessageLine(m).kind = "MESSAGE"
                /\ MessageLine(m).message = m /\ MessageLine(m).room = db.messages[m]
  BY DEF Line, RoomLine, MessageLine
<1>2. \A l : l \in Lines' <=> l \in ToSet(q) /\ l.at = 0
  BY DEF Lines, me
<1>3. \A l : l \in ToSet(q) => l.at = 0
  BY <1>1
<1>4. \A l : l \in Lines' <=> l \in ToSet(q)
  BY <1>2, <1>3
<1>5. Comes("start")' /\ Comes("end")'
  BY <1>1, <1>4 DEF Comes
<1>6. \A r, l : l \in ComingRoom(r)' <=> l \in ToSet(q) /\ l.kind = "CHATROOM" /\ l.room = r
  BY <1>4 DEF ComingRoom
<1>7. \A r \in DOMAIN db.rooms : \A l : l \in ComingRoom(r)' <=> l = RoomLine(r)
  BY <1>1, <1>6
<1>8. \A r : r \notin DOMAIN db.rooms => \A l : l \notin ComingRoom(r)'
  BY <1>1, <1>6
<1>9. \A m, r : ComingMessage(m, r)' <=>
        \E l \in ToSet(q) : l.kind = "MESSAGE" /\ l.message = m /\ l.room = r
  BY <1>4 DEF ComingMessage
<1>10. \A m, r : ComingMessage(m, r)' <=> m \in DOMAIN db.messages /\ db.messages[m] = r
  <2> SUFFICES ASSUME NEW m, NEW r
               PROVE  ComingMessage(m, r)' <=> m \in DOMAIN db.messages /\ db.messages[m] = r
    OBVIOUS
  <2>1. ASSUME ComingMessage(m, r)'
        PROVE  m \in DOMAIN db.messages /\ db.messages[m] = r
    <3>1. PICK l \in ToSet(q) : l.kind = "MESSAGE" /\ l.message = m /\ l.room = r
      BY <1>9, <2>1
    <3>2. PICK n \in DOMAIN db.messages : l = MessageLine(n)
      BY <1>1, <3>1
    <3> QED
      BY <1>1, <3>1, <3>2
  <2>2. ASSUME m \in DOMAIN db.messages, db.messages[m] = r
        PROVE  ComingMessage(m, r)'
    <3>1. MessageLine(m) \in ToSet(q)
      BY <2>2
    <3> QED
      BY <1>1, <1>9, <2>2, <3>1
  <2> QED
    BY <2>1, <2>2
<1> QED
  BY <1>5, <1>7, <1>8, <1>10

LEMMA LoginKeepsInv ==
  ASSUME NEW R, ReplicaInv(R), handleAuth(me), UNCHANGED client
  PROVE  ReplicaInv(R)'
<1>1. /\ DatabaseTypeOK /\ RelayTypeOK(R) /\ NetworkTypeOK /\ ClientTypeOK /\ LoginIsWhole
  BY DEF ReplicaInv
<1>2. PICK q \in Seq(LoginLine) :
        /\ tcp' = [tcp EXCEPT ![me] = q]
        /\ InOrder(q)
        /\ \A l : l \in ToSet(q) <=>
             \/ l \in {Line("auth"), Line("start"), Line("end")}
             \/ \E r \in DOMAIN db.rooms : l = RoomLine(r)
             \/ \E m \in DOMAIN db.messages : l = MessageLine(m)
  BY <1>1, WhatALoginSends
<1>3. me \in Client
  BY Me
<1>4. /\ db' = db /\ taken' = taken /\ clock' = clock /\ direct' = direct
      /\ session[me] = "none" /\ session' = [session EXCEPT ![me] = "reading"]
  BY DEF handleAuth, database
<1>5. rooms' = rooms /\ messages' = messages /\ syncing' = syncing /\ doing' = doing
  BY DEF client
<1>6. tcp'[me] = q /\ session'[me] = "reading"
  BY <1>1, <1>2, <1>3, <1>4 DEF NetworkTypeOK
<1>7. /\ Comes("start")' /\ Comes("end")'
      /\ \A r \in DOMAIN db.rooms : \A l : l \in ComingRoom(r)' <=> l = RoomLine(r)
      /\ \A r : r \notin DOMAIN db.rooms => ComingRoom(r)' = {}
      /\ \A m, r : ComingMessage(m, r)' <=> m \in DOMAIN db.messages /\ db.messages[m] = r
  BY <1>2, <1>6, WhatComesThen
<1>8. DatabaseTypeOK' /\ RelayTypeOK(R)'
  BY <1>1, <1>4 DEF DatabaseTypeOK, RelayTypeOK
<1>9. NetworkTypeOK'
  <2>1. q \in Seq(Event \cup LoginLine)
    OBVIOUS
  <2>2. tcp' \in [Client -> Seq(Event \cup LoginLine)]
    BY <1>1, <1>2, <2>1 DEF NetworkTypeOK
  <2>3. session' \in [Client -> {"none", "reading", "registered"}]
    BY <1>1, <1>4 DEF NetworkTypeOK
  <2>4. \A i \in DOMAIN q : ~(q[i] \in Event)
    <3>1. \A i \in DOMAIN q : q[i] \in LoginLine
      OBVIOUS
    <3>2. \A l \in LoginLine : l \notin Event
      <4> SUFFICES ASSUME NEW l \in LoginLine, l \in Event
                   PROVE  FALSE
        OBVIOUS
      <4>1. l.kind \in {"auth", "start", "end", "CHATROOM", "MESSAGE"}
        BY LineKinds
      <4>2. l.kind \in {"created", "added", "requested", "rejected", "removed", "gone", "message",
                        "deleted"}
        BY EventKinds DEF Whole
      <4> QED
        BY <4>1, <4>2
    <3> QED
      BY <3>1, <3>2
  <2> QED
    BY <1>1, <1>4, <1>6, <2>2, <2>3, <2>4 DEF NetworkTypeOK, me
<1>10. ClientTypeOK'
  BY <1>1, <1>5 DEF ClientTypeOK, Working
<1>11. \A r \in Room : RoomIsTold(R, r)'
  BY <1>4 DEF ReplicaInv, RoomIsTold
<1>12. \A m \in Message : MessageIsTold(R, m)'
  BY <1>4 DEF ReplicaInv, MessageIsTold
<1>13. LoginIsWhole'
  BY <1>2, <1>6, <1>7 DEF LoginIsWhole, me
<1>14. OnePlace(R)'
  <2>1. ASSUME NEW m \in Message, NEW r \in Room, Place(R, m, r)'
        PROVE  Place(R, m, r)
    <3>1. ComingMessage(m, r)' => m \in DOMAIN db.messages /\ db.messages[m] = r
      BY <1>7
    <3>2. Listed(m, r)' <=> Listed(m, r)
      BY <1>5 DEF Listed
    <3>3. Appending(m, r)' <=> Appending(m, r)
      BY <1>5 DEF Appending
    <3> QED
      BY <1>4, <2>1, <3>1, <3>2, <3>3 DEF Place
  <2>2. \A m \in Message : \A s, t \in Room :
          /\ Place(R, m, s) => m \in taken
          /\ Place(R, m, s) /\ Place(R, m, t) => s = t
    BY DEF ReplicaInv, OnePlace
  <2>3. \A m \in Message : \A s, t \in Room :
          /\ Place(R, m, s)' => m \in taken'
          /\ Place(R, m, s)' /\ Place(R, m, t)' => s = t
    BY <1>4, <2>1, <2>2
  <2> QED
    BY <2>3 DEF OnePlace
<1>15. ASSUME NEW r \in Room
       PROVE  RoomComes(R, r)'
  <2>1. CASE r \notin DOMAIN db.rooms
    BY <1>4, <1>7, <2>1 DEF RoomComes
  <2>2. CASE r \in DOMAIN db.rooms
    <3>1. ComingRoom(r)' # {}
      BY <1>7, <2>2
    <3>2. ASSUME Wholes(R, r) = {}
          PROVE  Fits(R, RoomOf(RoomLine(r)), r)'
      <4>1. PICK x : x = RoomOf(RoomLine(r))
        OBVIOUS
      <4>2. /\ x.users = db.rooms[r].users \cup {Coordinator}
            /\ x.requests = db.rooms[r].requests
        BY <4>1 DEF RoomOf, RoomLine, _normalize_room
      <4>3. db.rooms[r].users \cap Removed(R, r, 0) = {}
        BY <2>2, <3>2 DEF ReplicaInv, RoomIsTold
      <4>4. \/ x.users \ Removed(R, r, 0) = db.rooms[r].users
            \/ x.users \ Removed(R, r, 0) = db.rooms[r].users \cup {Coordinator}
        BY <4>2, <4>3
      <4>5. Fits(R, x, r)'
        BY <1>4, <4>2, <4>4 DEF Fits, _normalize_room
      <4>6. RoomOf(RoomLine(r))' = x
        BY <1>4, <4>1 DEF RoomOf, RoomLine, _normalize_room
      <4> QED
        BY <4>5, <4>6 DEF Fits, _normalize_room
    <3>3. RoomLine(r)' = RoomLine(r)
      BY <1>4 DEF RoomLine
    <3>4. \A l \in ComingRoom(r)' : l = RoomLine(r)
      BY <1>7, <2>2
    <3>5. Wholes(R, r) = {} => \A l \in ComingRoom(r)' : Fits(R, RoomOf(l), r)'
      BY <3>2, <3>3, <3>4 DEF Fits, RoomOf, _normalize_room
    <3> QED
      BY <1>4, <2>2, <3>1, <3>5 DEF RoomComes
  <2> QED
    BY <2>1, <2>2
<1>16. ASSUME NEW m \in Message, NEW r \in Room
       PROVE  MessageComes(R, m, r)'
  <2>1. WillHave(m, r)' <=> m \in DOMAIN db.messages /\ db.messages[m] = r
    BY <1>7 DEF WillHave
  <2> QED
    BY <1>4, <2>1 DEF MessageComes
<1> QED
  BY <1>8, <1>9, <1>10, <1>11, <1>12, <1>13, <1>14, <1>15, <1>16 DEF ReplicaInv

LEMMA RegistrationKeepsInv ==
  ASSUME NEW R, ReplicaInv(R), shm_register_user(me), UNCHANGED client
  PROVE  ReplicaInv(R)'
<1>1. /\ DatabaseTypeOK /\ RelayTypeOK(R) /\ NetworkTypeOK /\ ClientTypeOK /\ LoginIsWhole
  BY DEF ReplicaInv
<1>2. me \in Client
  BY Me
<1>3. /\ db' = db /\ taken' = taken /\ clock' = clock /\ direct' = direct /\ tcp' = tcp
      /\ session[me] = "reading" /\ session' = [session EXCEPT ![me] = "registered"]
  BY DEF shm_register_user, database
<1>4. rooms' = rooms /\ messages' = messages /\ syncing' = syncing /\ doing' = doing
  BY DEF client
<1>5. session'[me] = "registered" /\ session' \in [Client -> {"none", "reading", "registered"}]
  BY <1>1, <1>2, <1>3 DEF NetworkTypeOK
<1>6. Lines' = Lines
  BY <1>3 DEF Lines, me
<1>7. DatabaseTypeOK' /\ RelayTypeOK(R)'
  BY <1>1, <1>3 DEF DatabaseTypeOK, RelayTypeOK
<1>8. NetworkTypeOK'
  BY <1>1, <1>3, <1>5 DEF NetworkTypeOK, me
<1>9. ClientTypeOK'
  BY <1>1, <1>4 DEF ClientTypeOK, Working
<1>10. \A r \in Room : RoomIsTold(R, r)'
  BY <1>3 DEF ReplicaInv, RoomIsTold
<1>11. \A m \in Message : MessageIsTold(R, m)'
  BY <1>3 DEF ReplicaInv, MessageIsTold
<1>12. \A k : Comes(k)' <=> Comes(k)
  BY <1>6, SameLines
<1>13. \A r : ComingRoom(r)' = ComingRoom(r)
  BY <1>6, SameLines
<1>14. \A m, r : ComingMessage(m, r)' <=> ComingMessage(m, r)
  BY <1>6, SameLines
<1>15. LoginIsWhole'
  BY <1>1, <1>3, <1>4, <1>5, <1>6, <1>12 DEF LoginIsWhole, me
<1>16. \A m, r : (Listed(m, r)' <=> Listed(m, r)) /\ (Appending(m, r)' <=> Appending(m, r))
  BY <1>4 DEF Listed, Appending
<1>17. \A m, r : Place(R, m, r)' <=> Place(R, m, r)
  BY <1>3, <1>14, <1>16 DEF Place
<1>18. OnePlace(R)'
  BY <1>3, <1>17 DEF OnePlace, ReplicaInv
<1>19. \A m, r : WillHave(m, r)' <=> WillHave(m, r)
  BY <1>4, <1>12, <1>14, <1>16 DEF WillHave, Has, Deleting
<1>20. ASSUME NEW r \in Room
       PROVE  RoomComes(R, r)'
  <2>1. \A x : Fits(R, x, r)' <=> Fits(R, x, r)
    BY <1>3 DEF Fits, _normalize_room
  <2>2. RoomComes(R, r)
    BY DEF ReplicaInv
  <2>3. \A l : RoomOf(l)' = RoomOf(l)
    BY DEF RoomOf, _normalize_room
  <2> QED
    BY <1>3, <1>4, <1>5, <1>12, <1>13, <2>1, <2>2, <2>3 DEF RoomComes
<1>21. ASSUME NEW m \in Message, NEW r \in Room
       PROVE  MessageComes(R, m, r)'
  <2>1. MessageComes(R, m, r)
    BY DEF ReplicaInv
  <2> QED
    BY <1>3, <1>5, <1>19, <2>1 DEF MessageComes
<1> QED
  BY <1>7, <1>8, <1>9, <1>10, <1>11, <1>15, <1>18, <1>20, <1>21 DEF ReplicaInv

-----------------------------------------------------------------------------
(***************************************************************************)
(* What the handlers of the client do to what it has                       *)
(***************************************************************************)
Still == \A t \in Thread : doing[t] = Idle

\* What the client has is what its lists have, unless a handler is running.
LEMMA WhatIsHad ==
  ASSUME Still
  PROVE  /\ \A t \in Thread : ~Working(t)
         /\ \A m : ~Deleting(m)
         /\ \A m, r : ~Appending(m, r)
         /\ \A m, r : Has(m, r) <=> Listed(m, r)
<1>1. \A t \in Thread : doing[t].stage = "idle"
  BY DEF Still, Idle
<1>2. \A t \in Thread : ~Working(t)
  BY <1>1 DEF Working
<1>3. \A m : ~Deleting(m)
  BY <1>1 DEF Deleting
<1>4. \A m, r : ~Appending(m, r)
  BY <1>1 DEF Appending
<1> QED
  BY <1>2, <1>3, <1>4 DEF Has

\* So it is after a step that leaves the threads still.
LEMMA WhatIsHadThen ==
  ASSUME Still'
  PROVE  /\ \A t \in Thread : ~Working(t)'
         /\ \A m : ~Deleting(m)'
         /\ \A m, r : ~Appending(m, r)'
         /\ \A m, r : Has(m, r)' <=> Listed(m, r)'
<1>1. \A t \in Thread : doing'[t].stage = "idle"
  BY DEF Still, Idle
<1>2. \A t \in Thread : ~Working(t)'
  BY <1>1 DEF Working
<1>3. \A m : ~Deleting(m)'
  BY <1>1 DEF Deleting
<1>4. \A m, r : ~Appending(m, r)'
  BY <1>1 DEF Appending
<1> QED
  BY <1>2, <1>3, <1>4 DEF Has

LEMMA EmptyList == << >> \in Seq(Message) /\ ToSet(<< >>) = {} /\ IsInjective(<< >>)
<1>1. << >> \in Seq(Message)
  OBVIOUS
<1>2. DOMAIN << >> = {}
  OBVIOUS
<1> QED
  BY <1>1, <1>2 DEF ToSet, IsInjective

\* Client types when no thread has anything in hand.
LEMMA StillTypes ==
  ASSUME Still', doing' \in [Thread -> Step],
         DOMAIN rooms' \subseteq DOMAIN messages', DOMAIN messages' \subseteq Room,
         rooms' \in [DOMAIN rooms' -> RoomRecord],
         messages' \in [DOMAIN messages' -> Seq(Message)],
         \A r \in DOMAIN messages' : IsInjective(messages'[r])
  PROVE  ClientTypeOK'
<1>1. \A t \in Thread : doing'[t].stage = "idle"
  BY DEF Still, Idle
<1>2. \A t \in Thread : ~Working(t)'
  BY WhatIsHadThen
<1> QED
  BY <1>1, <1>2 DEF ClientTypeOK

LEMMA UpsertHandled ==
  ASSUME ClientTypeOK, Still, NEW e, NEW r \in Room, r = e.room,
         e.users \in SUBSET User, e.requests \in SUBSET User, _upsert_room(e)
  PROVE  /\ ClientTypeOK' /\ syncing' = syncing
         /\ DOMAIN rooms' = DOMAIN rooms \cup {r} /\ rooms'[r] = RoomOf(e)
         /\ \A s \in DOMAIN rooms \ {r} : rooms'[s] = rooms[s]
         /\ \A m, s : /\ Listed(m, s)' <=> Listed(m, s)
                      /\ ~Appending(m, s)'
                      /\ Has(m, s)' <=> Has(m, s)
<1>1. PICK x : x = RoomOf(e)
  OBVIOUS
<1>2. x \in RoomRecord
  BY <1>1, ChatEventsAssumption DEF RoomOf, _normalize_room, RoomRecord
<1>3. /\ rooms' = With(rooms, r, x) /\ syncing' = syncing /\ doing' = doing
      /\ r \in DOMAIN messages => messages' = messages
      /\ r \notin DOMAIN messages => messages' = With(messages, r, << >>)
  BY <1>1 DEF _upsert_room
<1>4. /\ DOMAIN rooms' = DOMAIN rooms \cup {r} /\ rooms'[r] = x
      /\ \A s \in DOMAIN rooms \ {r} : rooms'[s] = rooms[s]
      /\ rooms' \in [DOMAIN rooms' -> RoomRecord]
  BY <1>2, <1>3 DEF With, ClientTypeOK
<1>5. /\ DOMAIN messages' = DOMAIN messages \cup {r}
      /\ \A s \in DOMAIN messages : messages'[s] = messages[s]
      /\ r \notin DOMAIN messages => messages'[r] = << >>
      /\ messages' \in [DOMAIN messages' -> Seq(Message)]
  <2>1. CASE r \in DOMAIN messages
    BY <1>3, <2>1 DEF ClientTypeOK
  <2>2. CASE r \notin DOMAIN messages
    BY <1>3, <2>2, EmptyList DEF With, ClientTypeOK
  <2> QED
    BY <2>1, <2>2
<1>6. \A s \in DOMAIN messages' : IsInjective(messages'[s])
  BY <1>5, EmptyList DEF ClientTypeOK
<1>7. Still'
  BY <1>3 DEF Still
<1>8. DOMAIN rooms' \subseteq DOMAIN messages' /\ DOMAIN messages' \subseteq Room
  BY <1>4, <1>5 DEF ClientTypeOK
<1>9. ClientTypeOK'
  <2>1. doing' \in [Thread -> Step]
    BY <1>3 DEF ClientTypeOK
  <2> QED
    BY <1>4, <1>5, <1>6, <1>7, <1>8, <2>1, StillTypes
<1>10. \A m, s : Listed(m, s)' <=> Listed(m, s)
  BY <1>5, EmptyList DEF Listed
<1>11. \A m, s : ~Appending(m, s)' /\ (Has(m, s)' <=> Has(m, s))
  BY <1>7, <1>10, WhatIsHad, WhatIsHadThen
<1> QED
  BY <1>1, <1>3, <1>4, <1>9, <1>10, <1>11

LEMMA RemovalHandled ==
  ASSUME ClientTypeOK, Still, NEW e, NEW r \in Room, r = e.room, _on_remove_user_response(e)
  PROVE  /\ ClientTypeOK' /\ syncing' = syncing /\ messages' = messages /\ doing' = doing
         /\ DOMAIN rooms' = DOMAIN rooms
         /\ \A s \in DOMAIN rooms \ {r} : rooms'[s] = rooms[s]
         /\ r \in DOMAIN rooms => /\ rooms'[r].users = rooms[r].users \ {e.user}
                                  /\ rooms'[r].requests = rooms[r].requests
<1>1. messages' = messages /\ syncing' = syncing /\ doing' = doing
  BY DEF _on_remove_user_response
<1>2. Still'
  BY <1>1 DEF Still
<1>3. /\ DOMAIN rooms' = DOMAIN rooms
      /\ \A s \in DOMAIN rooms \ {r} : rooms'[s] = rooms[s]
      /\ r \in DOMAIN rooms => /\ rooms'[r].users = rooms[r].users \ {e.user}
                               /\ rooms'[r].requests = rooms[r].requests
      /\ rooms' \in [DOMAIN rooms' -> RoomRecord]
  <2>1. CASE r \notin DOMAIN rooms
    <3>1. rooms' = rooms
      BY <2>1 DEF _on_remove_user_response
    <3> QED
      BY <2>1, <3>1 DEF ClientTypeOK
  <2>2. CASE r \in DOMAIN rooms
    <3>1. PICK x : x = [rooms[r] EXCEPT !.users = @ \ {e.user}]
      OBVIOUS
    <3>2. rooms[r] \in RoomRecord /\ rooms \in [DOMAIN rooms -> RoomRecord]
      BY <2>2 DEF ClientTypeOK
    <3>3. x \in RoomRecord /\ x.users = rooms[r].users \ {e.user} /\ x.requests = rooms[r].requests
      BY <3>1, <3>2 DEF RoomRecord
    <3>4. rooms' = [rooms EXCEPT ![r] = x]
      BY <2>2, <3>1 DEF _on_remove_user_response
    <3>5. /\ DOMAIN rooms' = DOMAIN rooms /\ rooms'[r] = x
          /\ \A s \in DOMAIN rooms \ {r} : rooms'[s] = rooms[s]
          /\ rooms' \in [DOMAIN rooms' -> RoomRecord]
      BY <2>2, <3>2, <3>3, <3>4
    <3> QED
      BY <3>3, <3>5
  <2> QED
    BY <2>1, <2>2
<1>4. ClientTypeOK'
  <2>1. /\ DOMAIN rooms' \subseteq DOMAIN messages' /\ DOMAIN messages' \subseteq Room
        /\ messages' \in [DOMAIN messages' -> Seq(Message)]
        /\ doing' \in [Thread -> Step]
    BY <1>1, <1>3 DEF ClientTypeOK
  <2>2. \A s \in DOMAIN messages' : IsInjective(messages'[s])
    BY <1>1 DEF ClientTypeOK
  <2> QED
    BY <1>2, <1>3, <2>1, <2>2, StillTypes
<1> QED
  BY <1>1, <1>3, <1>4

LEMMA GoneHandled ==
  ASSUME ClientTypeOK, Still, NEW e, NEW r \in Room, r = e.room, _on_delete_chatroom_response(e)
  PROVE  /\ ClientTypeOK' /\ syncing' = syncing
         /\ DOMAIN rooms' = DOMAIN rooms \ {r}
         /\ \A s \in DOMAIN rooms \ {r} : rooms'[s] = rooms[s]
         /\ \A m, s : /\ Listed(m, s)' <=> Listed(m, s) /\ s # r
                      /\ ~Appending(m, s)'
                      /\ Has(m, s)' <=> Has(m, s) /\ s # r
<1>1. /\ rooms' = Without(rooms, {r}) /\ messages' = Without(messages, {r})
      /\ syncing' = syncing /\ doing' = Detached({r})
  BY DEF _on_delete_chatroom_response
<1>2. Still' /\ doing' \in [Thread -> Step]
  <2>1. \A t \in Thread : doing'[t] = Idle
    BY <1>1 DEF Still, Detached
  <2>2. doing' = [t \in Thread |-> Idle]
    BY <1>1, <2>1 DEF Detached
  <2> QED
    BY <2>1, <2>2 DEF Still, Step
<1>3. /\ DOMAIN rooms' = DOMAIN rooms \ {r}
      /\ \A s \in DOMAIN rooms \ {r} : rooms'[s] = rooms[s]
      /\ rooms' \in [DOMAIN rooms' -> RoomRecord]
  BY <1>1 DEF Without, ClientTypeOK
<1>4. /\ DOMAIN messages' = DOMAIN messages \ {r}
      /\ \A s \in DOMAIN messages \ {r} : messages'[s] = messages[s]
      /\ messages' \in [DOMAIN messages' -> Seq(Message)]
  BY <1>1 DEF Without, ClientTypeOK
<1>5. ClientTypeOK'
  <2>1. DOMAIN rooms' \subseteq DOMAIN messages' /\ DOMAIN messages' \subseteq Room
    BY <1>3, <1>4 DEF ClientTypeOK
  <2>2. \A s \in DOMAIN messages' : IsInjective(messages'[s])
    BY <1>4 DEF ClientTypeOK
  <2> QED
    BY <1>2, <1>3, <1>4, <2>1, <2>2, StillTypes
<1>6. \A m, s : Listed(m, s)' <=> Listed(m, s) /\ s # r
  BY <1>4 DEF Listed
<1>7. \A m, s : ~Appending(m, s)' /\ (Has(m, s)' <=> Has(m, s) /\ s # r)
  BY <1>2, <1>6, WhatIsHad, WhatIsHadThen
<1> QED
  BY <1>1, <1>3, <1>5, <1>6, <1>7

LEMMA StartHandled ==
  ASSUME Still, _on_sync_start
  PROVE  /\ ClientTypeOK' /\ syncing' /\ rooms' = << >>
         /\ \A m, s : ~Listed(m, s)' /\ ~Appending(m, s)' /\ ~Has(m, s)'
<1>1. /\ rooms' = << >> /\ messages' = << >> /\ syncing' = TRUE
      /\ doing' = [u \in Thread |-> IF doing[u] = Stopped THEN Stopped ELSE Idle]
  BY DEF _on_sync_start
<1>2. Idle # Stopped
  BY DEF Idle, Stopped
<1>3. Still' /\ doing' \in [Thread -> Step]
  <2>1. \A t \in Thread : doing'[t] = Idle
    BY <1>1, <1>2 DEF Still
  <2>2. doing' = [t \in Thread |-> Idle]
    BY <1>1, <2>1
  <2> QED
    BY <2>1, <2>2 DEF Still, Step
<1>4. DOMAIN rooms' = {} /\ DOMAIN messages' = {}
  BY <1>1
<1>5. rooms' \in [DOMAIN rooms' -> RoomRecord] /\ messages' \in [DOMAIN messages' -> Seq(Message)]
  BY <1>1, <1>4
<1>6. ClientTypeOK'
  BY <1>3, <1>4, <1>5, StillTypes
<1>7. \A m, s : ~Listed(m, s)'
  BY <1>4 DEF Listed
<1> QED
  BY <1>1, <1>3, <1>6, <1>7, WhatIsHadThen

\* Where a message that is in a list is.
LEMMA PlaceInList ==
  ASSUME NEW q \in Seq(Message), IsInjective(q), NEW m \in ToSet(q)
  PROVE  /\ SelectInSeq(q, LAMBDA x : x = m) \in DOMAIN q
         /\ q[SelectInSeq(q, LAMBDA x : x = m)] = m
<1> DEFINE I == {i \in 1 .. Len(q) : q[i] = m}
<1>1. DOMAIN q = 1 .. Len(q) /\ Len(q) \in Nat
  OBVIOUS
<1>2. PICK i \in 1 .. Len(q) : q[i] = m
  BY <1>1 DEF ToSet
<1>3. \A j \in I : j = i
  BY <1>1, <1>2 DEF IsInjective
<1>4. i \in I /\ i <= i
  BY <1>1, <1>2
<1>5. Min(I) \in I
  <2>1. \E x \in I : \A y \in I : x <= y
    BY <1>3, <1>4
  <2> HIDE DEF I
  <2> QED
    BY <2>1 DEF Min
<1>6. SelectInSeq(q, LAMBDA x : x = m) = IF I # {} THEN Min(I) ELSE 0
  BY DEF SelectInSeq
<1>7. SelectInSeq(q, LAMBDA x : x = m) \in I
  BY <1>4, <1>5, <1>6
<1> QED
  BY <1>1, <1>7

\* What was behind the place that is taken away moves up.
LEMMA PlacesOfRest ==
  ASSUME NEW q \in Seq(Message), NEW i \in DOMAIN q, NEW p, p = RemoveAt(q, i)
  PROVE  /\ p \in Seq(Message)
         /\ \A j \in DOMAIN p : /\ j \in Nat
                                /\ j < i => j \in DOMAIN q /\ p[j] = q[j]
                                /\ j >= i => j + 1 \in DOMAIN q /\ p[j] = q[j + 1]
         /\ \A j \in DOMAIN q : /\ j \in Nat
                                /\ j < i => j \in DOMAIN p
                                /\ j > i => j - 1 \in DOMAIN p
<1>1. DOMAIN q = 1 .. Len(q) /\ Len(q) \in Nat /\ i \in 1 .. Len(q)
  OBVIOUS
<1>2. PICK a : a = SubSeq(q, 1, i - 1)
  OBVIOUS
<1>3. PICK b : b = SubSeq(q, i + 1, Len(q))
  OBVIOUS
<1>4. /\ a \in Seq(Message) /\ Len(a) = i - 1
      /\ \A j \in 1 .. i - 1 : a[j] = q[j]
  BY <1>1, <1>2
<1>5. /\ b \in Seq(Message) /\ Len(b) = Len(q) - i
      /\ \A j \in 1 .. Len(q) - i : b[j] = q[i + j]
  BY <1>1, <1>3
<1>6. p = a \o b
  BY <1>2, <1>3 DEF RemoveAt
<1>7. /\ p \in Seq(Message) /\ Len(p) = Len(a) + Len(b)
      /\ \A j \in 1 .. Len(a) : p[j] = a[j]
      /\ \A j \in 1 .. Len(b) : p[Len(a) + j] = b[j]
  <2>1. a \in Seq(Message) /\ b \in Seq(Message)
    BY <1>4, <1>5
  <2> QED
    BY <1>6, <2>1, TwoLists
<1>8. /\ Len(p) = Len(q) - 1 /\ DOMAIN p = 1 .. Len(p)
      /\ \A j \in 1 .. i - 1 : p[j] = q[j]
      /\ \A j \in 1 .. Len(q) - i : p[i - 1 + j] = q[i + j]
  BY <1>1, <1>4, <1>5, <1>7, SMTT(30)
<1>9. \A j \in i .. Len(q) - 1 : p[j] = q[j + 1]
  <2> SUFFICES ASSUME NEW j \in i .. Len(q) - 1
               PROVE  p[j] = q[j + 1]
    OBVIOUS
  <2>1. j - i + 1 \in 1 .. Len(q) - i /\ i - 1 + (j - i + 1) = j /\ i + (j - i + 1) = j + 1
    BY <1>1
  <2> QED
    BY <1>8, <2>1
<1> QED
  BY <1>1, <1>7, <1>8, <1>9

\* A list without what was at a place.
LEMMA RestOfList ==
  ASSUME NEW q \in Seq(Message), IsInjective(q), NEW i \in DOMAIN q
  PROVE  /\ RemoveAt(q, i) \in Seq(Message) /\ IsInjective(RemoveAt(q, i))
         /\ \A x : x \in ToSet(RemoveAt(q, i)) <=> x \in ToSet(q) /\ x # q[i]
<1>1. PICK p : p = RemoveAt(q, i)
  OBVIOUS
<1>2. /\ p \in Seq(Message) /\ i \in Nat
      /\ \A j \in DOMAIN p : /\ j \in Nat
                             /\ j < i => j \in DOMAIN q /\ p[j] = q[j]
                             /\ j >= i => j + 1 \in DOMAIN q /\ p[j] = q[j + 1]
      /\ \A j \in DOMAIN q : /\ j \in Nat
                             /\ j < i => j \in DOMAIN p
                             /\ j > i => j - 1 \in DOMAIN p
  BY <1>1, PlacesOfRest
<1>3. \A x, y \in DOMAIN q : q[x] = q[y] => x = y
  BY DEF IsInjective
<1>4. IsInjective(p)
  <2> SUFFICES ASSUME NEW j \in DOMAIN p, NEW k \in DOMAIN p, p[j] = p[k]
               PROVE  j = k
    BY DEF IsInjective
  <2> QED
    BY <1>2, <1>3
<1>5. ASSUME NEW x
      PROVE  x \in ToSet(p) <=> x \in ToSet(q) /\ x # q[i]
  <2>1. ASSUME NEW j \in DOMAIN p, p[j] = x
        PROVE  \E k \in DOMAIN q : q[k] = x /\ k # i
    BY <1>2, <2>1
  <2>2. ASSUME NEW k \in DOMAIN q, q[k] = x, k # i
        PROVE  \E j \in DOMAIN p : p[j] = x
    <3>1. CASE k < i
      BY <1>2, <2>2, <3>1
    <3>2. CASE k > i
      <4>1. k - 1 \in DOMAIN p /\ k - 1 >= i /\ k - 1 + 1 = k
        BY <1>2, <3>2
      <4>2. p[k - 1] = q[k]
        BY <1>2, <4>1
      <4> QED
        BY <2>2, <4>1, <4>2
    <3> QED
      BY <1>2, <2>2, <3>1, <3>2
  <2>3. x \in ToSet(p) <=> \E j \in DOMAIN p : p[j] = x
    BY DEF ToSet
  <2>4. x \in ToSet(q) <=> \E j \in DOMAIN q : q[j] = x
    BY DEF ToSet
  <2> QED
    BY <1>3, <2>1, <2>2, <2>3, <2>4
<1> QED
  BY <1>1, <1>2, <1>4, <1>5

LEMMA LongerList ==
  ASSUME NEW q \in Seq(Message), IsInjective(q), NEW m \in Message, m \notin ToSet(q)
  PROVE  /\ Append(q, m) \in Seq(Message) /\ IsInjective(Append(q, m))
         /\ \A x : x \in ToSet(Append(q, m)) <=> x \in ToSet(q) \/ x = m
<1>1. PICK p : p = Append(q, m)
  OBVIOUS
<1>2. /\ p \in Seq(Message) /\ Len(p) = Len(q) + 1 /\ DOMAIN p = 1 .. Len(p)
      /\ DOMAIN q = 1 .. Len(q) /\ Len(q) \in Nat
      /\ \A j \in 1 .. Len(q) : p[j] = q[j]
      /\ p[Len(q) + 1] = m
  BY <1>1
<1>3. \A j \in DOMAIN q : q[j] # m
  BY DEF ToSet
<1>4. IsInjective(p)
  BY <1>2, <1>3 DEF IsInjective
<1>5. ASSUME NEW x
      PROVE  x \in ToSet(p) <=> x \in ToSet(q) \/ x = m
  <2>1. x \in ToSet(p) <=> \E j \in DOMAIN p : p[j] = x
    BY DEF ToSet
  <2>2. x \in ToSet(q) <=> \E j \in DOMAIN q : q[j] = x
    BY DEF ToSet
  <2>3. \A j \in DOMAIN q : j \in DOMAIN p /\ p[j] = q[j]
    BY <1>2
  <2>4. \A j \in DOMAIN p : j \in DOMAIN q \/ j = Len(q) + 1
    BY <1>2
  <2>5. Len(q) + 1 \in DOMAIN p
    BY <1>2
  <2> QED
    BY <1>2, <2>1, <2>2, <2>3, <2>4, <2>5
<1> QED
  BY <1>1, <1>2, <1>4, <1>5

LEMMA MessageHandled ==
  ASSUME ClientTypeOK, Still, NEW t \in Thread, NEW e,
         NEW r \in Room, r = e.room, NEW m \in Message, m = e.message,
         _append_message_once(t, e)
  PROVE  /\ ClientTypeOK' /\ syncing' = syncing /\ rooms' = rooms
         /\ \A n, s : /\ Listed(n, s)' <=> Listed(n, s)
                      /\ Appending(n, s)' => n = m /\ s = r
                      /\ Has(n, s)' <=> Has(n, s) \/ (n = m /\ s = r)
<1>1. PICK q : q = IF r \in DOMAIN messages THEN messages[r] ELSE << >>
  OBVIOUS
<1>2. /\ q \in Seq(Message) /\ IsInjective(q)
      /\ r \in DOMAIN messages => q = messages[r]
      /\ r \notin DOMAIN messages => ToSet(q) = {}
  BY <1>1, EmptyList DEF ClientTypeOK
<1>3. PICK x : x = [stage |-> "append", message |-> m, room |-> r]
  OBVIOUS
<1>4. /\ messages' = With(messages, r, q)
      /\ m \in ToSet(q) => doing' = doing
      /\ m \notin ToSet(q) => doing' = [doing EXCEPT ![t] = x]
      /\ rooms' = rooms /\ syncing' = syncing
  BY <1>1, <1>3 DEF _append_message_once, Goes
<1>5. /\ DOMAIN messages' = DOMAIN messages \cup {r} /\ messages'[r] = q
      /\ \A s \in DOMAIN messages : messages'[s] = messages[s]
      /\ messages' \in [DOMAIN messages' -> Seq(Message)]
  BY <1>2, <1>4 DEF With, ClientTypeOK
<1>6. \A s \in DOMAIN messages' : IsInjective(messages'[s])
  BY <1>2, <1>5 DEF ClientTypeOK
<1>7. /\ DOMAIN rooms' \subseteq DOMAIN messages' /\ DOMAIN messages' \subseteq Room
      /\ rooms' \in [DOMAIN rooms' -> RoomRecord]
  BY <1>4, <1>5 DEF ClientTypeOK
<1>8. \A n, s : Listed(n, s)' <=> Listed(n, s)
  BY <1>2, <1>5 DEF Listed
<1>9. /\ \A n : ~Deleting(n)
      /\ \A n, s : ~Appending(n, s)
      /\ \A n, s : Has(n, s) <=> Listed(n, s)
  BY WhatIsHad
<1>10. CASE m \in ToSet(q)
  <2>1. Still'
    BY <1>4, <1>10 DEF Still
  <2>2. doing' \in [Thread -> Step]
    BY <1>4, <1>10 DEF ClientTypeOK
  <2>3. ClientTypeOK'
    BY <1>5, <1>6, <1>7, <2>1, <2>2, StillTypes
  <2>4. Listed(m, r)
    BY <1>2, <1>10 DEF Listed
  <2>5. \A n, s : ~Appending(n, s)' /\ (Has(n, s)' <=> Listed(n, s)')
    BY <2>1, WhatIsHadThen
  <2> QED
    BY <1>4, <1>8, <1>9, <2>3, <2>4, <2>5
<1>11. CASE m \notin ToSet(q)
  <2>1. /\ x \in Step /\ x.stage = "append" /\ x.message = m /\ x.room = r
    BY <1>3 DEF Step
  <2>2. /\ doing' \in [Thread -> Step] /\ doing'[t] = x
        /\ \A u \in Thread \ {t} : doing'[u].stage = "idle"
    BY <1>4, <1>11, <2>1 DEF ClientTypeOK, Still, Idle
  <2>3. \A u \in Thread : Working(u)' => u = t
    BY <2>2 DEF Working
  <2>4. \A u \in Thread :
          /\ doing'[u].stage = "append" =>
               /\ doing'[u].room \in DOMAIN messages'
               /\ doing'[u].message \notin ToSet(messages'[doing'[u].room])
          /\ doing'[u].stage = "search" => doing'[u].rooms = Cardinality(DOMAIN messages')
          /\ doing'[u].stage = "pop" =>
               /\ doing'[u].room \in DOMAIN messages'
               /\ doing'[u].index \in DOMAIN messages'[doing'[u].room]
    BY <1>5, <1>11, <2>1, <2>2
  <2>5. ClientTypeOK'
    BY <1>5, <1>6, <1>7, <2>2, <2>3, <2>4 DEF ClientTypeOK
  <2>6. \A n, s : Appending(n, s)' <=> n = m /\ s = r
    BY <2>1, <2>2 DEF Appending
  <2>7. \A n : ~Deleting(n)'
    BY <2>1, <2>2 DEF Deleting
  <2>8. \A n, s : Has(n, s)' <=> Listed(n, s)' \/ (n = m /\ s = r)
    BY <2>6, <2>7 DEF Has
  <2> QED
    BY <1>4, <1>8, <1>9, <2>5, <2>6, <2>8
<1> QED
  BY <1>10, <1>11

LEMMA DeletionHandled ==
  ASSUME ClientTypeOK, Still, NEW t \in Thread, NEW e, NEW m \in Message, m = e.message,
         IsFiniteSet(DOMAIN messages), _on_delete_message_response(t, e)
  PROVE  /\ ClientTypeOK' /\ syncing' = syncing /\ rooms' = rooms
         /\ \A n, s : /\ Listed(n, s)' <=> Listed(n, s)
                      /\ ~Appending(n, s)'
                      /\ Has(n, s)' <=> Has(n, s) /\ n # m
<1>1. PICK x : x = [stage |-> "search", message |-> m, rooms |-> Cardinality(DOMAIN messages)]
  OBVIOUS
<1>2. /\ doing' = [doing EXCEPT ![t] = x]
      /\ rooms' = rooms /\ syncing' = syncing /\ messages' = messages
  BY <1>1 DEF _on_delete_message_response, Goes
<1>3. Cardinality(DOMAIN messages) \in Nat
  BY FS_CardinalityType
<1>4. /\ x \in Step /\ x.stage = "search" /\ x.message = m
      /\ x.rooms = Cardinality(DOMAIN messages)
  BY <1>1, <1>3 DEF Step
<1>5. /\ doing' \in [Thread -> Step] /\ doing'[t] = x
      /\ \A u \in Thread \ {t} : doing'[u].stage = "idle"
  BY <1>2, <1>4 DEF ClientTypeOK, Still, Idle
<1>6. \A u \in Thread : Working(u)' => u = t
  BY <1>5 DEF Working
<1>7. \A u \in Thread :
        /\ doing'[u].stage = "append" =>
             /\ doing'[u].room \in DOMAIN messages'
             /\ doing'[u].message \notin ToSet(messages'[doing'[u].room])
        /\ doing'[u].stage = "search" => doing'[u].rooms = Cardinality(DOMAIN messages')
        /\ doing'[u].stage = "pop" =>
             /\ doing'[u].room \in DOMAIN messages'
             /\ doing'[u].index \in DOMAIN messages'[doing'[u].room]
  BY <1>2, <1>4, <1>5
<1>8. ClientTypeOK'
  BY <1>2, <1>5, <1>6, <1>7 DEF ClientTypeOK
<1>9. \A n, s : Listed(n, s)' <=> Listed(n, s)
  BY <1>2 DEF Listed
<1>10. \A n, s : ~Appending(n, s)'
  BY <1>4, <1>5 DEF Appending
<1>11. \A n : Deleting(n)' <=> n = m
  BY <1>4, <1>5 DEF Deleting
<1>12. \A n, s : Has(n, s)' <=> Listed(n, s) /\ n # m
  BY <1>9, <1>10, <1>11 DEF Has
<1> QED
  BY <1>2, <1>8, <1>9, <1>10, <1>12, WhatIsHad

\* A thread that is in a handler is alone, and the other one is still.
LEMMA Alone ==
  ASSUME ClientTypeOK, NEW t \in Thread, Working(t)
  PROVE  \A u \in Thread \ {t} : doing[u] = Idle
<1> SUFFICES ASSUME NEW u \in Thread \ {t}
             PROVE  doing[u] = Idle
  OBVIOUS
<1>1. ~Working(u)
  BY DEF ClientTypeOK
<1>2. doing[u] \in Step
  BY DEF ClientTypeOK
<1> QED
  BY <1>1, <1>2, Steps DEF Working

LEMMA AppendFinished ==
  ASSUME ClientTypeOK, NEW t \in Thread, FinishAppend(t)
  PROVE  /\ ClientTypeOK' /\ syncing' = syncing /\ rooms' = rooms
         /\ \A n, s : /\ Listed(n, s)' => Listed(n, s) \/ Appending(n, s)
                      /\ ~Appending(n, s)'
                      /\ Has(n, s)' <=> Has(n, s)
<1>1. PICK x : x = doing[t]
  OBVIOUS
<1>2. x \in Step /\ x.stage = "append" /\ Working(t)
  BY <1>1 DEF FinishAppend, ClientTypeOK, Working
<1>3. PICK m \in Message, r \in Room : m = x.message /\ r = x.room
  BY <1>2, Steps
<1>4. /\ r \in DOMAIN messages /\ messages[r] \in Seq(Message) /\ IsInjective(messages[r])
      /\ m \notin ToSet(messages[r])
  BY <1>1, <1>2, <1>3 DEF ClientTypeOK
<1>5. PICK p : p = Append(messages[r], m)
  OBVIOUS
<1>6. /\ p \in Seq(Message) /\ IsInjective(p)
      /\ \A n : n \in ToSet(p) <=> n \in ToSet(messages[r]) \/ n = m
  BY <1>4, <1>5, LongerList
<1>7. /\ messages' = [messages EXCEPT ![r] = p] /\ doing' = [doing EXCEPT ![t] = Idle]
      /\ rooms' = rooms /\ syncing' = syncing
  BY <1>1, <1>3, <1>5 DEF FinishAppend, Goes
<1>8. /\ DOMAIN messages' = DOMAIN messages /\ messages'[r] = p
      /\ \A s \in DOMAIN messages \ {r} : messages'[s] = messages[s]
      /\ messages' \in [DOMAIN messages' -> Seq(Message)]
  BY <1>4, <1>6, <1>7 DEF ClientTypeOK
<1>9. \A u \in Thread \ {t} : doing[u] = Idle
  BY <1>2, Alone
<1>10. Still' /\ doing' \in [Thread -> Step]
  BY <1>7, <1>9 DEF Still, ClientTypeOK, Step
<1>11. ClientTypeOK'
  <2>1. \A s \in DOMAIN messages' : IsInjective(messages'[s])
    BY <1>6, <1>8 DEF ClientTypeOK
  <2>2. /\ DOMAIN rooms' \subseteq DOMAIN messages' /\ DOMAIN messages' \subseteq Room
        /\ rooms' \in [DOMAIN rooms' -> RoomRecord]
    BY <1>7, <1>8 DEF ClientTypeOK
  <2> QED
    BY <1>8, <1>10, <2>1, <2>2, StillTypes
<1>12. \A n, s : Listed(n, s)' <=> Listed(n, s) \/ (n = m /\ s = r)
  BY <1>4, <1>6, <1>8 DEF Listed
<1>13. \A n, s : Appending(n, s) <=> n = m /\ s = r
  BY <1>1, <1>2, <1>3, <1>9 DEF Appending, Idle
<1>14. \A n : ~Deleting(n)
  BY <1>1, <1>2, <1>9 DEF Deleting, Idle
<1>15. \A n, s : Has(n, s) <=> Listed(n, s) \/ (n = m /\ s = r)
  BY <1>13, <1>14 DEF Has
<1>16. \A n, s : ~Appending(n, s)' /\ (Has(n, s)' <=> Listed(n, s)')
  BY <1>10, WhatIsHadThen
<1> QED
  BY <1>7, <1>11, <1>12, <1>13, <1>15, <1>16

LEMMA Searched ==
  ASSUME ClientTypeOK, NEW t \in Thread, Search(t)
  PROVE  /\ ClientTypeOK' /\ syncing' = syncing /\ rooms' = rooms
         /\ \A n, s : /\ Listed(n, s)' <=> Listed(n, s)
                      /\ ~Appending(n, s)'
                      /\ n \in Message /\ s \in Room => (Has(n, s)' <=> Has(n, s))
<1>1. PICK x : x = doing[t]
  OBVIOUS
<1>2. x \in Step /\ x.stage = "search" /\ Working(t)
  BY <1>1 DEF Search, ClientTypeOK, Working
<1>3. PICK m \in Message : m = x.message
  BY <1>2, Steps
<1>4. x.rooms = Cardinality(DOMAIN messages)
  BY <1>1, <1>2 DEF ClientTypeOK
<1>5. messages' = messages /\ rooms' = rooms /\ syncing' = syncing
  BY DEF Search
<1>6. \A u \in Thread \ {t} : doing[u] = Idle
  BY <1>2, Alone
<1>7. \A n, s : Listed(n, s)' <=> Listed(n, s)
  BY <1>5 DEF Listed
<1>8. \A n, s : ~Appending(n, s)
  BY <1>1, <1>2, <1>6 DEF Appending, Idle
<1>9. \A n : Deleting(n) <=> n = m
  BY <1>1, <1>2, <1>3, <1>6 DEF Deleting, Idle
<1>10. \A n, s : Has(n, s) <=> Listed(n, s) /\ n # m
  BY <1>8, <1>9 DEF Has
<1>11. \/ \E r \in DOMAIN messages :
            /\ doing[t].message \in ToSet(messages[r])
            /\ doing' = [doing EXCEPT ![t] =
                 [stage |-> "pop", room |-> r,
                  index |-> SelectInSeq(messages[r], LAMBDA y : y = doing[t].message)]]
       \/ /\ \A r \in DOMAIN messages : doing[t].message \notin ToSet(messages[r])
          /\ doing' = [doing EXCEPT ![t] = Idle]
  BY <1>1, <1>4 DEF Search, Goes
<1>12. CASE \E r \in DOMAIN messages :
              /\ doing[t].message \in ToSet(messages[r])
              /\ doing' = [doing EXCEPT ![t] =
                   [stage |-> "pop", room |-> r,
                    index |-> SelectInSeq(messages[r], LAMBDA y : y = doing[t].message)]]
  <2>1. PICK r \in DOMAIN messages :
          /\ doing[t].message \in ToSet(messages[r])
          /\ doing' = [doing EXCEPT ![t] =
               [stage |-> "pop", room |-> r,
                index |-> SelectInSeq(messages[r], LAMBDA y : y = doing[t].message)]]
    BY <1>12
  <2>2. PICK i : i = SelectInSeq(messages[r], LAMBDA y : y = doing[t].message)
    OBVIOUS
  <2>3. messages[r] \in Seq(Message) /\ IsInjective(messages[r]) /\ r \in Room
    BY DEF ClientTypeOK
  <2>4. i \in DOMAIN messages[r] /\ messages[r][i] = m
    <3>1. i \in DOMAIN messages[r] /\ messages[r][i] = doing[t].message
      BY <2>1, <2>2, <2>3, PlaceInList
    <3> QED
      BY <1>1, <1>3, <3>1
  <2>5. PICK z : z = [stage |-> "pop", room |-> r, index |-> i]
    OBVIOUS
  <2>6. i \in Nat
    BY <2>3, <2>4
  <2>7. z \in Step /\ z.stage = "pop" /\ z.room = r /\ z.index = i
    BY <2>3, <2>5, <2>6 DEF Step
  <2>8. doing' = [doing EXCEPT ![t] = z]
    BY <2>1, <2>2, <2>5
  <2>9. /\ doing' \in [Thread -> Step] /\ doing'[t] = z
        /\ \A u \in Thread \ {t} : doing'[u].stage = "idle"
    BY <1>6, <2>7, <2>8 DEF ClientTypeOK, Idle
  <2>10. \A u \in Thread : Working(u)' => u = t
    BY <2>9 DEF Working
  <2>11. \A u \in Thread :
           /\ doing'[u].stage = "append" =>
                /\ doing'[u].room \in DOMAIN messages'
                /\ doing'[u].message \notin ToSet(messages'[doing'[u].room])
           /\ doing'[u].stage = "search" => doing'[u].rooms = Cardinality(DOMAIN messages')
           /\ doing'[u].stage = "pop" =>
                /\ doing'[u].room \in DOMAIN messages'
                /\ doing'[u].index \in DOMAIN messages'[doing'[u].room]
    BY <1>5, <2>4, <2>7, <2>9
  <2>12. ClientTypeOK'
    BY <1>5, <2>9, <2>10, <2>11 DEF ClientTypeOK
  <2>13. \A n, s : ~Appending(n, s)'
    BY <2>7, <2>9 DEF Appending
  <2>14. \A n : Deleting(n)' <=> n = m
    BY <1>5, <2>4, <2>7, <2>9 DEF Deleting
  <2>15. \A n, s : Has(n, s)' <=> Listed(n, s) /\ n # m
    BY <1>7, <2>13, <2>14 DEF Has
  <2> QED
    BY <1>5, <1>7, <1>10, <2>12, <2>13, <2>15
<1>13. CASE /\ \A r \in DOMAIN messages : doing[t].message \notin ToSet(messages[r])
            /\ doing' = [doing EXCEPT ![t] = Idle]
  <2>1. Still' /\ doing' \in [Thread -> Step]
    BY <1>6, <1>13 DEF Still, ClientTypeOK, Step
  <2>2. /\ DOMAIN rooms' \subseteq DOMAIN messages' /\ DOMAIN messages' \subseteq Room
        /\ rooms' \in [DOMAIN rooms' -> RoomRecord]
        /\ messages' \in [DOMAIN messages' -> Seq(Message)]
    BY <1>5 DEF ClientTypeOK
  <2>3. \A s \in DOMAIN messages' : IsInjective(messages'[s])
    BY <1>5 DEF ClientTypeOK
  <2>4. ClientTypeOK'
    BY <2>1, <2>2, <2>3, StillTypes
  <2>5. \A s : ~Listed(m, s)
    BY <1>1, <1>3, <1>13 DEF Listed
  <2>6. \A n, s : ~Appending(n, s)' /\ (Has(n, s)' <=> Listed(n, s)')
    BY <2>1, WhatIsHadThen
  <2> QED
    BY <1>5, <1>7, <1>10, <2>4, <2>5, <2>6
<1> QED
  BY <1>11, <1>12, <1>13

LEMMA Popped ==
  ASSUME ClientTypeOK, NEW t \in Thread, Pop(t),
         \A n, s, u : Listed(n, s) /\ Listed(n, u) => s = u
  PROVE  /\ ClientTypeOK' /\ syncing' = syncing /\ rooms' = rooms
         /\ \A n, s : /\ Listed(n, s)' => Listed(n, s)
                      /\ ~Appending(n, s)'
                      /\ Has(n, s)' <=> Has(n, s)
<1>1. PICK x : x = doing[t]
  OBVIOUS
<1>2. x \in Step /\ x.stage = "pop" /\ Working(t)
  BY <1>1 DEF Pop, ClientTypeOK, Working
<1>3. PICK r \in Room, i \in Nat : r = x.room /\ i = x.index
  BY <1>2, Steps
<1>4. /\ r \in DOMAIN messages /\ messages[r] \in Seq(Message) /\ IsInjective(messages[r])
      /\ i \in DOMAIN messages[r] /\ i <= Len(messages[r])
  BY <1>1, <1>2, <1>3 DEF ClientTypeOK
<1>5. PICK m : m = messages[r][i]
  OBVIOUS
<1>6. PICK p : p = RemoveAt(messages[r], i)
  OBVIOUS
<1>7. /\ p \in Seq(Message) /\ IsInjective(p)
      /\ \A n : n \in ToSet(p) <=> n \in ToSet(messages[r]) /\ n # m
  BY <1>4, <1>5, <1>6, RestOfList
<1>8. /\ messages' = [messages EXCEPT ![r] = p] /\ doing' = [doing EXCEPT ![t] = Idle]
      /\ rooms' = rooms /\ syncing' = syncing
  BY <1>1, <1>3, <1>4, <1>6 DEF Pop, Goes
<1>9. /\ DOMAIN messages' = DOMAIN messages /\ messages'[r] = p
      /\ \A s \in DOMAIN messages \ {r} : messages'[s] = messages[s]
      /\ messages' \in [DOMAIN messages' -> Seq(Message)]
  BY <1>4, <1>7, <1>8 DEF ClientTypeOK
<1>10. \A u \in Thread \ {t} : doing[u] = Idle
  BY <1>2, Alone
<1>11. Still' /\ doing' \in [Thread -> Step]
  BY <1>8, <1>10 DEF Still, ClientTypeOK, Step
<1>12. ClientTypeOK'
  <2>1. \A s \in DOMAIN messages' : IsInjective(messages'[s])
    BY <1>7, <1>9 DEF ClientTypeOK
  <2>2. /\ DOMAIN rooms' \subseteq DOMAIN messages' /\ DOMAIN messages' \subseteq Room
        /\ rooms' \in [DOMAIN rooms' -> RoomRecord]
    BY <1>8, <1>9 DEF ClientTypeOK
  <2> QED
    BY <1>9, <1>11, <2>1, <2>2, StillTypes
<1>13. \A n, s : Listed(n, s)' <=> Listed(n, s) /\ ~(n = m /\ s = r)
  BY <1>4, <1>7, <1>9 DEF Listed
<1>14. \A n, s : ~Appending(n, s)
  BY <1>1, <1>2, <1>10 DEF Appending, Idle
<1>15. \A n : Deleting(n) <=> n = m
  BY <1>1, <1>2, <1>3, <1>5, <1>10 DEF Deleting, Idle
<1>16. \A n, s : Has(n, s) <=> Listed(n, s) /\ n # m
  BY <1>14, <1>15 DEF Has
<1>17. Listed(m, r)
  BY <1>4, <1>5 DEF Listed, ToSet
<1>18. \A s : Listed(m, s) => s = r
  BY <1>17
<1>19. \A n, s : ~Appending(n, s)' /\ (Has(n, s)' <=> Listed(n, s)')
  BY <1>11, WhatIsHadThen
<1> QED
  BY <1>8, <1>12, <1>13, <1>16, <1>18, <1>19

-----------------------------------------------------------------------------
(***************************************************************************)
(* What a handler keeps                                                    *)
(***************************************************************************)
\* What a handler is called with decides what it does.
LEMMA Dispatched ==
  ASSUME NEW t \in Thread, NEW e, _dispatch(t, e)
  PROVE  /\ doing[t] = Idle
         /\ e.kind \in Whole => _upsert_room(e)
         /\ e.kind = "removed" => _on_remove_user_response(e)
         /\ e.kind = "gone" => _on_delete_chatroom_response(e)
         /\ e.kind = "message" => _append_message_once(t, e)
         /\ e.kind = "deleted" => _on_delete_message_response(t, e)
         /\ e.kind = "auth" => Ignore
         /\ e.kind = "start" => _on_sync_start
         /\ e.kind = "end" => _on_sync_end
         /\ e.kind = "CHATROOM" /\ syncing => _upsert_room(e)
         /\ e.kind = "MESSAGE" /\ syncing => _append_message_once(t, e)
<1>1. doing[t] = Idle
  BY DEF _dispatch
<1>2. e.kind \in Whole => _upsert_room(e)
  BY DEF _dispatch, Whole
<1>3. e.kind = "removed" => _on_remove_user_response(e)
  BY DEF _dispatch
<1>4. e.kind = "gone" => _on_delete_chatroom_response(e)
  BY DEF _dispatch
<1>5. e.kind = "message" => _append_message_once(t, e)
  BY DEF _dispatch
<1>6. e.kind = "deleted" => _on_delete_message_response(t, e)
  BY DEF _dispatch
<1>7. e.kind = "auth" => Ignore
  BY DEF _dispatch
<1>8. e.kind = "start" => _on_sync_start
  BY DEF _dispatch
<1>9. e.kind = "end" => _on_sync_end
  BY DEF _dispatch
<1>10. e.kind = "CHATROOM" /\ syncing => _upsert_room(e)
  BY DEF _dispatch
<1>11. e.kind = "MESSAGE" /\ syncing => _append_message_once(t, e)
  BY DEF _dispatch
<1> QED
  BY <1>1, <1>2, <1>3, <1>4, <1>5, <1>6, <1>7, <1>8, <1>9, <1>10, <1>11

\* A step of the client.
ClientStep ==
  /\ db' = db /\ taken' = taken /\ clock' = clock /\ session' = session
  /\ session[me] # "none"

LEMMA ClientStepKeepsInv ==
  ASSUME NEW R, ReplicaInv(R), ClientStep, NetworkTypeOK', LoginIsWhole', ClientTypeOK',
         \A m \in Message, r \in Room :
           ComingMessage(m, r)' \/ Listed(m, r)' \/ Appending(m, r)' => Place(R, m, r),
         \A r \in Room : RoomComes(R, r)',
         \A m \in Message, r \in Room :
           /\ WillHave(m, r) => \/ WillHave(m, r)' \/ r \notin DOMAIN db.rooms
                                \/ m \notin DOMAIN db.messages \/ Made(R, m) # {}
           /\ WillHave(m, r)' => \/ WillHave(m, r) \/ m \in DOMAIN db.messages
                                 \/ WillBeDeleted(R, m)
  PROVE  ReplicaInv(R)'
<1>1. DatabaseTypeOK' /\ RelayTypeOK(R)'
  BY DEF ReplicaInv, ClientStep, DatabaseTypeOK, RelayTypeOK
<1>2. \A r \in Room : RoomIsTold(R, r)'
  BY DEF ReplicaInv, ClientStep, RoomIsTold
<1>3. \A m \in Message : MessageIsTold(R, m)'
  BY DEF ReplicaInv, ClientStep, MessageIsTold
<1>4. OnePlace(R)'
  <2>1. ASSUME NEW m \in Message, NEW r \in Room, Place(R, m, r)'
        PROVE  Place(R, m, r)
    <3>1. \/ ComingMessage(m, r)' \/ Listed(m, r)' \/ Appending(m, r)'
          \/ m \in DOMAIN db.messages /\ db.messages[m] = r
          \/ \E e \in Made(R, m) : e.room = r
      BY <2>1 DEF Place, ClientStep
    <3> QED
      BY <3>1 DEF Place
  <2>2. \A m \in Message : \A s, t \in Room :
          /\ Place(R, m, s) => m \in taken
          /\ Place(R, m, s) /\ Place(R, m, t) => s = t
    BY DEF ReplicaInv, OnePlace
  <2>3. \A m \in Message : \A s, t \in Room :
          /\ Place(R, m, s)' => m \in taken'
          /\ Place(R, m, s)' /\ Place(R, m, t)' => s = t
    BY <2>1, <2>2 DEF ClientStep
  <2> QED
    BY <2>3 DEF OnePlace
<1>5. ASSUME NEW m \in Message, NEW r \in Room
      PROVE  MessageComes(R, m, r)'
  <2>1. MessageComes(R, m, r)
    BY DEF ReplicaInv
  <2> QED
    BY <2>1 DEF MessageComes, ClientStep
<1> QED
  BY <1>1, <1>2, <1>3, <1>4, <1>5 DEF ReplicaInv

LEMMA SameRoomComes ==
  ASSUME NEW R, NEW r, RoomComes(R, r), ClientStep,
         ComingRoom(r)' = ComingRoom(r), Comes("start")' <=> Comes("start"),
         r \in DOMAIN rooms' <=> r \in DOMAIN rooms,
         r \in DOMAIN rooms => rooms'[r] = rooms[r]
  PROVE  RoomComes(R, r)'
<1>1. \A x : Fits(R, x, r)' <=> Fits(R, x, r)
  BY DEF Fits, _normalize_room, ClientStep
<1>2. \A l : RoomOf(l)' = RoomOf(l)
  BY DEF RoomOf, _normalize_room
<1> QED
  BY <1>1, <1>2 DEF RoomComes, ClientStep

\* What is coming stays, and the client has the same.
LEMMA SameMessages ==
  ASSUME Lines' = Lines, \A m, r : Has(m, r)' <=> Has(m, r)
  PROVE  \A m, r : WillHave(m, r)' <=> WillHave(m, r)
<1>1. Comes("start")' <=> Comes("start")
  BY SameLines
<1>2. \A m, r : ComingMessage(m, r)' <=> ComingMessage(m, r)
  BY SameLines
<1> QED
  BY <1>1, <1>2 DEF WillHave

-----------------------------------------------------------------------------
(***************************************************************************)
(* Events that are yet to come through Redis                               *)
(***************************************************************************)
\* The client has what the event tells.
Reflected(e) ==
  /\ e.kind \in Whole => e.room \in DOMAIN rooms /\ rooms[e.room] = RoomOf(e)
  /\ e.kind = "removed" => (e.room \in DOMAIN rooms => e.user \notin rooms[e.room].users)
  /\ e.kind = "gone" => e.room \notin DOMAIN rooms
  /\ e.kind = "message" => Has(e.message, e.room)
  /\ e.kind = "deleted" => \A r : ~Has(e.message, r)

LEMMA WholeEventKeepsInv ==
  ASSUME NEW R, ReplicaInv(R), ClientStep, Still, Lines' = Lines,
         NetworkTypeOK', syncing' = syncing => LoginIsWhole',
         NEW e \in R, e \in Event, e.kind \in Whole, _upsert_room(e)
  PROVE  ReplicaInv(R)' /\ Reflected(e)'
<1>1. PICK r \in Room : r = e.room
  BY EventKinds
<1>2. e.users \in SUBSET User /\ e.requests \in SUBSET User
  BY EventKinds
<1>3. /\ ClientTypeOK' /\ syncing' = syncing
      /\ DOMAIN rooms' = DOMAIN rooms \cup {r} /\ rooms'[r] = RoomOf(e)
      /\ \A s \in DOMAIN rooms \ {r} : rooms'[s] = rooms[s]
      /\ \A m, s : /\ Listed(m, s)' <=> Listed(m, s)
                   /\ ~Appending(m, s)'
                   /\ Has(m, s)' <=> Has(m, s)
  BY <1>1, <1>2, UpsertHandled DEF ReplicaInv
<1>4. Comes("start")' <=> Comes("start")
  BY SameLines
<1>5. \A s : ComingRoom(s)' = ComingRoom(s)
  BY SameLines
<1>6. \A m, s : ComingMessage(m, s)' <=> ComingMessage(m, s)
  BY SameLines
<1>7. ASSUME NEW s \in Room
      PROVE  RoomComes(R, s)'
  <2>1. CASE s # r
    <3>1. RoomComes(R, s) /\ ComingRoom(s)' = ComingRoom(s)
      BY <1>5 DEF ReplicaInv
    <3>2. /\ s \in DOMAIN rooms' <=> s \in DOMAIN rooms
          /\ s \in DOMAIN rooms => rooms'[s] = rooms[s]
      BY <1>3, <2>1
    <3> QED
      BY <1>4, <3>1, <3>2, SameRoomComes
  <2>2. CASE s = r
    <3>1. Wholes(R, s) # {}
      BY <1>1, <2>2 DEF Wholes
    <3>2. s \notin DOMAIN db.rooms => WillGo(R, s)
      BY <3>1 DEF ReplicaInv, RoomIsTold
    <3> QED
      BY <3>1, <3>2 DEF RoomComes, ClientStep
  <2> QED
    BY <2>1, <2>2
<1>8. \A m, s : WillHave(m, s)' <=> WillHave(m, s)
  BY <1>3, SameMessages
<1>9. \A m \in Message, s \in Room :
        ComingMessage(m, s)' \/ Listed(m, s)' \/ Appending(m, s)' => Place(R, m, s)
  BY <1>3, <1>6 DEF Place
<1>10. ReplicaInv(R)'
  BY <1>3, <1>7, <1>8, <1>9, ClientStepKeepsInv
<1>11. Reflected(e)'
  <2>1. RoomOf(e)' = RoomOf(e)
    BY DEF RoomOf, _normalize_room
  <2> QED
    BY <1>1, <1>3, <2>1 DEF Reflected, Whole
<1> QED
  BY <1>10, <1>11

LEMMA RemovalKeepsInv ==
  ASSUME NEW R, ReplicaInv(R), ClientStep, Still, Lines' = Lines,
         NetworkTypeOK', syncing' = syncing => LoginIsWhole',
         NEW e \in R, e \in Event, e.kind = "removed", _on_remove_user_response(e)
  PROVE  ReplicaInv(R)' /\ Reflected(e)'
<1>1. PICK r \in Room : r = e.room
  BY EventKinds
<1>2. e.user \in User /\ e.at > 0
  BY EventKinds DEF ReplicaInv, RelayTypeOK
<1>3. /\ ClientTypeOK' /\ syncing' = syncing /\ messages' = messages /\ doing' = doing
      /\ DOMAIN rooms' = DOMAIN rooms
      /\ \A s \in DOMAIN rooms \ {r} : rooms'[s] = rooms[s]
      /\ r \in DOMAIN rooms => /\ rooms'[r].users = rooms[r].users \ {e.user}
                               /\ rooms'[r].requests = rooms[r].requests
  BY <1>1, RemovalHandled DEF ReplicaInv
<1>4. Comes("start")' <=> Comes("start")
  BY SameLines
<1>5. \A s : ComingRoom(s)' = ComingRoom(s)
  BY SameLines
<1>6. \A m, s : ComingMessage(m, s)' <=> ComingMessage(m, s)
  BY SameLines
<1>7. \A m, s : /\ Listed(m, s)' <=> Listed(m, s)
                /\ Appending(m, s)' <=> Appending(m, s)
                /\ Has(m, s)' <=> Has(m, s)
  BY <1>3 DEF Listed, Appending, Has, Deleting
<1>8. ASSUME NEW s \in Room
      PROVE  RoomComes(R, s)'
  <2>1. CASE s # r
    <3>1. RoomComes(R, s) /\ ComingRoom(s)' = ComingRoom(s)
      BY <1>5 DEF ReplicaInv
    <3>2. /\ s \in DOMAIN rooms' <=> s \in DOMAIN rooms
          /\ s \in DOMAIN rooms => rooms'[s] = rooms[s]
      BY <1>3, <2>1
    <3> QED
      BY <1>4, <3>1, <3>2, SameRoomComes
  <2>2. CASE s = r
    <3>1. RoomComes(R, r) /\ ComingRoom(r)' = ComingRoom(r)
      BY <1>5 DEF ReplicaInv
    <3>2. e.user \in Removed(R, r, 0)
      BY <1>1, <1>2 DEF Removed
    <3>3. \A x : Fits(R, x, r)' <=> Fits(R, x, r)
      BY DEF Fits, _normalize_room, ClientStep
    <3>4. ASSUME r \in DOMAIN rooms, Fits(R, rooms[r], r)
          PROVE  Fits(R, rooms[r], r)'
      <4>1. rooms'[r].users \ Removed(R, r, 0) = rooms[r].users \ Removed(R, r, 0)
        BY <1>3, <3>2, <3>4
      <4>2. rooms'[r].requests = rooms[r].requests
        BY <1>3, <3>4
      <4> QED
        BY <3>4, <4>1, <4>2 DEF Fits, _normalize_room, ClientStep
    <3>5. \A l : RoomOf(l)' = RoomOf(l)
      BY DEF RoomOf, _normalize_room
    <3>6. RoomComes(R, r)'
      BY <1>3, <1>4, <3>1, <3>3, <3>4, <3>5 DEF RoomComes, ClientStep
    <3> QED
      BY <2>2, <3>6
  <2> QED
    BY <2>1, <2>2
<1>9. \A m, s : WillHave(m, s)' <=> WillHave(m, s)
  BY <1>7, SameMessages
<1>10. \A m \in Message, s \in Room :
         ComingMessage(m, s)' \/ Listed(m, s)' \/ Appending(m, s)' => Place(R, m, s)
  BY <1>6, <1>7 DEF Place
<1>11. ReplicaInv(R)'
  BY <1>3, <1>8, <1>9, <1>10, ClientStepKeepsInv
<1>12. Reflected(e)'
  BY <1>1, <1>3 DEF Reflected, Whole
<1> QED
  BY <1>11, <1>12

LEMMA GoneKeepsInv ==
  ASSUME NEW R, ReplicaInv(R), ClientStep, Still, Lines' = Lines,
         NetworkTypeOK', syncing' = syncing => LoginIsWhole',
         NEW e \in R, e \in Event, e.kind = "gone", _on_delete_chatroom_response(e)
  PROVE  ReplicaInv(R)' /\ Reflected(e)'
<1>1. PICK r \in Room : r = e.room
  BY EventKinds
<1>2. /\ ClientTypeOK' /\ syncing' = syncing
      /\ DOMAIN rooms' = DOMAIN rooms \ {r}
      /\ \A s \in DOMAIN rooms \ {r} : rooms'[s] = rooms[s]
      /\ \A m, s : /\ Listed(m, s)' <=> Listed(m, s) /\ s # r
                   /\ ~Appending(m, s)'
                   /\ Has(m, s)' <=> Has(m, s) /\ s # r
  BY <1>1, GoneHandled DEF ReplicaInv
<1>3. Comes("start")' <=> Comes("start")
  BY SameLines
<1>4. \A s : ComingRoom(s)' = ComingRoom(s)
  BY SameLines
<1>5. \A m, s : ComingMessage(m, s)' <=> ComingMessage(m, s)
  BY SameLines
<1>6. WillGo(R, r) /\ r \notin DOMAIN db.rooms
  <2>1. WillGo(R, r)
    BY <1>1 DEF WillGo
  <2> QED
    BY <2>1 DEF ReplicaInv, RoomIsTold
<1>7. ASSUME NEW s \in Room
      PROVE  RoomComes(R, s)'
  <2>1. CASE s # r
    <3>1. RoomComes(R, s) /\ ComingRoom(s)' = ComingRoom(s)
      BY <1>4 DEF ReplicaInv
    <3>2. /\ s \in DOMAIN rooms' <=> s \in DOMAIN rooms
          /\ s \in DOMAIN rooms => rooms'[s] = rooms[s]
      BY <1>2, <2>1
    <3> QED
      BY <1>3, <3>1, <3>2, SameRoomComes
  <2>2. CASE s = r
    BY <1>6, <2>2 DEF RoomComes, ClientStep
  <2> QED
    BY <2>1, <2>2
<1>8. \A m, s : /\ WillHave(m, s)' => WillHave(m, s)
                /\ s # r /\ WillHave(m, s) => WillHave(m, s)'
  BY <1>2, <1>3, <1>5 DEF WillHave
<1>9. \A m \in Message, s \in Room :
        /\ WillHave(m, s) => \/ WillHave(m, s)' \/ s \notin DOMAIN db.rooms
                             \/ m \notin DOMAIN db.messages \/ Made(R, m) # {}
        /\ WillHave(m, s)' => \/ WillHave(m, s) \/ m \in DOMAIN db.messages
                              \/ WillBeDeleted(R, m)
  BY <1>6, <1>8
<1>10. \A m \in Message, s \in Room :
         ComingMessage(m, s)' \/ Listed(m, s)' \/ Appending(m, s)' => Place(R, m, s)
  BY <1>2, <1>5 DEF Place
<1>11. ReplicaInv(R)'
  BY <1>2, <1>7, <1>9, <1>10, ClientStepKeepsInv
<1>12. Reflected(e)'
  BY <1>1, <1>2 DEF Reflected, Whole
<1> QED
  BY <1>11, <1>12

LEMMA MessageKeepsInv ==
  ASSUME NEW R, ReplicaInv(R), ClientStep, Still, Lines' = Lines,
         NetworkTypeOK', syncing' = syncing => LoginIsWhole', NEW t \in Thread,
         NEW e \in R, e \in Event, e.kind = "message", _append_message_once(t, e)
  PROVE  ReplicaInv(R)' /\ Reflected(e)'
<1>1. PICK r \in Room, m \in Message : r = e.room /\ m = e.message
  BY EventKinds
<1>2. /\ ClientTypeOK' /\ syncing' = syncing /\ rooms' = rooms
      /\ \A n, s : /\ Listed(n, s)' <=> Listed(n, s)
                   /\ Appending(n, s)' => n = m /\ s = r
                   /\ Has(n, s)' <=> Has(n, s) \/ (n = m /\ s = r)
  BY <1>1, MessageHandled DEF ReplicaInv
<1>3. Comes("start")' <=> Comes("start")
  BY SameLines
<1>4. \A s : ComingRoom(s)' = ComingRoom(s)
  BY SameLines
<1>5. \A n, s : ComingMessage(n, s)' <=> ComingMessage(n, s)
  BY SameLines
<1>6. e \in Made(R, m)
  BY <1>1 DEF Made
<1>7. m \in DOMAIN db.messages \/ WillBeDeleted(R, m)
  BY <1>6 DEF ReplicaInv, MessageIsTold
<1>8. Place(R, m, r)
  BY <1>1, <1>6 DEF Place
<1>9. ASSUME NEW s \in Room
      PROVE  RoomComes(R, s)'
  <2>1. RoomComes(R, s) /\ ComingRoom(s)' = ComingRoom(s)
    BY <1>4 DEF ReplicaInv
  <2> QED
    BY <1>2, <1>3, <2>1, SameRoomComes
<1>10. \A n, s : /\ WillHave(n, s) => WillHave(n, s)'
                 /\ WillHave(n, s)' => WillHave(n, s) \/ n = m
  BY <1>2, <1>3, <1>5 DEF WillHave
<1>11. \A n \in Message, s \in Room :
         /\ WillHave(n, s) => \/ WillHave(n, s)' \/ s \notin DOMAIN db.rooms
                              \/ n \notin DOMAIN db.messages \/ Made(R, n) # {}
         /\ WillHave(n, s)' => \/ WillHave(n, s) \/ n \in DOMAIN db.messages
                               \/ WillBeDeleted(R, n)
  BY <1>7, <1>10
<1>12. \A n \in Message, s \in Room :
         ComingMessage(n, s)' \/ Listed(n, s)' \/ Appending(n, s)' => Place(R, n, s)
  <2>1. \A n, s : ComingMessage(n, s) \/ Listed(n, s) => Place(R, n, s)
    BY DEF Place
  <2> QED
    BY <1>2, <1>5, <1>8, <2>1
<1>13. ReplicaInv(R)'
  BY <1>2, <1>9, <1>11, <1>12, ClientStepKeepsInv
<1>14. Reflected(e)'
  BY <1>1, <1>2 DEF Reflected, Whole
<1> QED
  BY <1>13, <1>14

LEMMA DeletionKeepsInv ==
  ASSUME NEW R, ReplicaInv(R), ClientStep, Still, Lines' = Lines,
         NetworkTypeOK', syncing' = syncing => LoginIsWhole', NEW t \in Thread,
         NEW e \in R, e \in Event, e.kind = "deleted", _on_delete_message_response(t, e)
  PROVE  ReplicaInv(R)' /\ Reflected(e)'
<1>1. PICK m \in Message : m = e.message
  BY EventKinds
<1>2. IsFiniteSet(DOMAIN messages)
  BY ChatEventsAssumption, FS_Subset DEF ReplicaInv, ClientTypeOK
<1>3. /\ ClientTypeOK' /\ syncing' = syncing /\ rooms' = rooms
      /\ \A n, s : /\ Listed(n, s)' <=> Listed(n, s)
                   /\ ~Appending(n, s)'
                   /\ Has(n, s)' <=> Has(n, s) /\ n # m
  BY <1>1, <1>2, DeletionHandled DEF ReplicaInv
<1>4. Comes("start")' <=> Comes("start")
  BY SameLines
<1>5. \A s : ComingRoom(s)' = ComingRoom(s)
  BY SameLines
<1>6. \A n, s : ComingMessage(n, s)' <=> ComingMessage(n, s)
  BY SameLines
<1>7. m \notin DOMAIN db.messages
  <2>1. WillBeDeleted(R, m)
    BY <1>1 DEF WillBeDeleted
  <2> QED
    BY <2>1 DEF ReplicaInv, MessageIsTold
<1>8. ASSUME NEW s \in Room
      PROVE  RoomComes(R, s)'
  <2>1. RoomComes(R, s) /\ ComingRoom(s)' = ComingRoom(s)
    BY <1>5 DEF ReplicaInv
  <2> QED
    BY <1>3, <1>4, <2>1, SameRoomComes
<1>9. \A n, s : /\ WillHave(n, s)' => WillHave(n, s)
                /\ WillHave(n, s) => WillHave(n, s)' \/ n = m
  BY <1>3, <1>4, <1>6 DEF WillHave
<1>10. \A n \in Message, s \in Room :
         /\ WillHave(n, s) => \/ WillHave(n, s)' \/ s \notin DOMAIN db.rooms
                              \/ n \notin DOMAIN db.messages \/ Made(R, n) # {}
         /\ WillHave(n, s)' => \/ WillHave(n, s) \/ n \in DOMAIN db.messages
                               \/ WillBeDeleted(R, n)
  BY <1>7, <1>9
<1>11. \A n \in Message, s \in Room :
         ComingMessage(n, s)' \/ Listed(n, s)' \/ Appending(n, s)' => Place(R, n, s)
  BY <1>3, <1>6 DEF Place
<1>12. ReplicaInv(R)'
  BY <1>3, <1>8, <1>10, <1>11, ClientStepKeepsInv
<1>13. Reflected(e)'
  BY <1>1, <1>3 DEF Reflected, Whole
<1> QED
  BY <1>12, <1>13

\* A handler of an event that is yet to come through Redis.
LEMMA EventKeepsInv ==
  ASSUME NEW R, ReplicaInv(R), ClientStep, Still, Lines' = Lines,
         NetworkTypeOK', syncing' = syncing => LoginIsWhole', NEW t \in Thread,
         NEW e \in R, e \in Event, _dispatch(t, e)
  PROVE  ReplicaInv(R)' /\ Reflected(e)'
<1>1. e.kind \in Whole \cup {"removed", "gone", "message", "deleted"}
  BY EventKinds
<1>2. /\ e.kind \in Whole => _upsert_room(e)
      /\ e.kind = "removed" => _on_remove_user_response(e)
      /\ e.kind = "gone" => _on_delete_chatroom_response(e)
      /\ e.kind = "message" => _append_message_once(t, e)
      /\ e.kind = "deleted" => _on_delete_message_response(t, e)
  BY Dispatched
<1>3. CASE e.kind \in Whole
  BY <1>2, <1>3, WholeEventKeepsInv
<1>4. CASE e.kind = "removed"
  BY <1>2, <1>4, RemovalKeepsInv
<1>5. CASE e.kind = "gone"
  BY <1>2, <1>5, GoneKeepsInv
<1>6. CASE e.kind = "message"
  BY <1>2, <1>6, MessageKeepsInv
<1>7. CASE e.kind = "deleted"
  BY <1>2, <1>7, DeletionKeepsInv
<1> QED
  BY <1>1, <1>3, <1>4, <1>5, <1>6, <1>7

-----------------------------------------------------------------------------
(***************************************************************************)
(* Lines of the login                                                      *)
(***************************************************************************)
\* What is taken from the queue, and what is left.
LEMMA RestOfQueue ==
  ASSUME NEW q \in Seq(Event \cup LoginLine), q # << >>, InOrder(q),
         \A i \in DOMAIN q : q[i] \in Event => q[i].at # 0,
         NEW h, h = Head(q), NEW p, p = Tail(q)
  PROVE  /\ p \in Seq(Event \cup LoginLine) /\ InOrder(p)
         /\ \A i \in DOMAIN p : p[i] \in Event => p[i].at # 0
         /\ h \in Event \cup LoginLine /\ (h \in Event => h.at # 0)
         /\ \A l : l \in ToSet(q) <=> l \in ToSet(p) \/ l = h
         /\ h.kind = "end" => \A l \in ToSet(p) : l.at # 0
         /\ \A l \in ToSet(p) : l.kind = "start" => h.kind = "auth"
<1>1. /\ Len(q) \in Nat /\ Len(q) > 0 /\ DOMAIN q = 1 .. Len(q) /\ h = q[1]
      /\ p \in Seq(Event \cup LoginLine) /\ Len(p) = Len(q) - 1 /\ DOMAIN p = 1 .. Len(p)
      /\ \A i \in 1 .. Len(p) : p[i] = q[i + 1]
  OBVIOUS
<1>2. \A i \in DOMAIN p : i + 1 \in DOMAIN q /\ p[i] = q[i + 1] /\ 1 < i + 1
  BY <1>1
<1>3. 1 \in DOMAIN q /\ q[1] = h
  BY <1>1
<1>4. \A i, j \in DOMAIN q : i < j =>
        /\ q[i].at # 0 => q[j].at # 0
        /\ q[i].kind = "end" => q[j].at # 0
        /\ q[j].kind = "start" => q[i].kind = "auth"
  BY DEF InOrder
<1>5. InOrder(p)
  <2> SUFFICES ASSUME NEW i \in DOMAIN p, NEW j \in DOMAIN p, i < j
               PROVE  /\ p[i].at # 0 => p[j].at # 0
                      /\ p[i].kind = "end" => p[j].at # 0
                      /\ p[j].kind = "start" => p[i].kind = "auth"
    BY DEF InOrder
  <2>1. /\ i + 1 \in DOMAIN q /\ p[i] = q[i + 1]
        /\ j + 1 \in DOMAIN q /\ p[j] = q[j + 1]
    BY <1>2
  <2>2. i + 1 < j + 1
    BY <1>1
  <2>3. /\ q[i + 1].at # 0 => q[j + 1].at # 0
        /\ q[i + 1].kind = "end" => q[j + 1].at # 0
        /\ q[j + 1].kind = "start" => q[i + 1].kind = "auth"
    BY <1>4, <2>1, <2>2
  <2> QED
    BY <2>1, <2>3
<1>6. \A i \in DOMAIN p : p[i] \in Event => p[i].at # 0
  BY <1>2
<1>7. h \in Event \cup LoginLine /\ (h \in Event => h.at # 0)
  BY <1>1
<1>8. \A i \in DOMAIN p : /\ h.kind = "end" => p[i].at # 0
                          /\ p[i].kind = "start" => h.kind = "auth"
  BY <1>2, <1>3, <1>4
<1>9. ASSUME NEW l
      PROVE  l \in ToSet(q) <=> l \in ToSet(p) \/ l = h
  <2>1. l \in ToSet(q) <=> \E i \in DOMAIN q : q[i] = l
    BY DEF ToSet
  <2>2. l \in ToSet(p) <=> \E i \in DOMAIN p : p[i] = l
    BY DEF ToSet
  <2>3. \A i \in DOMAIN q : i = 1 \/ (i - 1 \in DOMAIN p /\ p[i - 1] = q[i])
    BY <1>1
  <2> QED
    BY <1>2, <1>3, <2>1, <2>2, <2>3
<1>10. \A l \in ToSet(p) : /\ h.kind = "end" => l.at # 0
                           /\ l.kind = "start" => h.kind = "auth"
  BY <1>8 DEF ToSet
<1> QED
  BY <1>1, <1>5, <1>6, <1>7, <1>9, <1>10

\* The TCP thread takes the next line.
LEMMA NextLine ==
  ASSUME NetworkTypeOK, LoginIsWhole, tcp[me] # << >>,
         tcp' = [tcp EXCEPT ![me] = Tail(@)], session' = session, direct' = direct,
         NEW h, h = Head(tcp[me])
  PROVE  /\ NetworkTypeOK' /\ InOrder(tcp'[me]) /\ session[me] # "none"
         /\ h \in Event \cup LoginLine /\ (h \in Event => h.at # 0)
         /\ \A l : l \in Lines <=> l \in Lines' \/ (l = h /\ h.at = 0)
         /\ h.kind = "end" => Lines' = {}
         /\ Comes("start")' => h.kind = "auth"
<1>1. me \in Client
  BY Me
<1>2. PICK q \in Seq(Event \cup LoginLine) : q = tcp[me]
  BY <1>1 DEF NetworkTypeOK
<1>3. PICK p : p = Tail(q)
  OBVIOUS
<1>4. /\ q # << >> /\ InOrder(q) /\ \A i \in DOMAIN q : q[i] \in Event => q[i].at # 0
  BY <1>2 DEF LoginIsWhole, NetworkTypeOK
<1>5. h = Head(q)
  BY <1>2
<1>6. /\ p \in Seq(Event \cup LoginLine) /\ InOrder(p)
      /\ \A i \in DOMAIN p : p[i] \in Event => p[i].at # 0
      /\ h \in Event \cup LoginLine /\ (h \in Event => h.at # 0)
      /\ \A l : l \in ToSet(q) <=> l \in ToSet(p) \/ l = h
      /\ h.kind = "end" => \A l \in ToSet(p) : l.at # 0
      /\ \A l \in ToSet(p) : l.kind = "start" => h.kind = "auth"
  BY <1>3, <1>4, <1>5, RestOfQueue, ZenonT(40)
<1>7. tcp' = [tcp EXCEPT ![me] = p]
  BY <1>2, <1>3
<1>8. tcp'[me] = p /\ tcp' \in [Client -> Seq(Event \cup LoginLine)]
  BY <1>1, <1>6, <1>7 DEF NetworkTypeOK
<1>9. NetworkTypeOK'
  BY <1>6, <1>8 DEF NetworkTypeOK, me
<1>10. \A l : /\ l \in Lines <=> l \in ToSet(q) /\ l.at = 0
              /\ l \in Lines' <=> l \in ToSet(p) /\ l.at = 0
  BY <1>2, <1>8 DEF Lines, me
<1>11. \A l : l \in Lines <=> l \in Lines' \/ (l = h /\ h.at = 0)
  BY <1>6, <1>10
<1>12. h.kind = "end" => Lines' = {}
  BY <1>6, <1>10
<1>13. Comes("start")' => h.kind = "auth"
  BY <1>6, <1>10 DEF Comes
<1>14. session[me] # "none"
  BY DEF LoginIsWhole
<1>15. InOrder(tcp'[me])
  BY <1>6, <1>8
<1> QED
  BY <1>6, <1>9, <1>11, <1>12, <1>13, <1>14, <1>15

\* The login is whole after a step that does not begin or end it.
LEMMA LoginStaysWhole ==
  ASSUME LoginIsWhole, InOrder(tcp'[me]), session' = session, session[me] # "none",
         Lines' \subseteq Lines,
         Lines' # {} /\ Comes("end") => Comes("end")',
         Comes("end")' /\ ~Comes("start")' => syncing'
  PROVE  LoginIsWhole'
<1>1. Lines' # {} => Comes("end")'
  BY DEF LoginIsWhole
<1> QED
  BY <1>1 DEF LoginIsWhole, me

LEMMA AuthKeepsInv ==
  ASSUME NEW R, ReplicaInv(R), ClientStep, NetworkTypeOK', InOrder(tcp'[me]),
         NEW h \in LoginLine, h.kind = "auth", UNCHANGED client,
         \A l : l \in Lines <=> l \in Lines' \/ l = h
  PROVE  ReplicaInv(R)'
<1>1. rooms' = rooms /\ messages' = messages /\ syncing' = syncing /\ doing' = doing
  BY DEF client
<1>2. \A k : k # "auth" => (Comes(k)' <=> Comes(k))
  BY DEF Comes
<1>3. \A r : ComingRoom(r)' = ComingRoom(r)
  BY DEF ComingRoom
<1>4. \A m, r : ComingMessage(m, r)' <=> ComingMessage(m, r)
  BY DEF ComingMessage
<1>5. (Comes("start")' <=> Comes("start")) /\ (Comes("end")' <=> Comes("end"))
  BY <1>2
<1>6. LoginIsWhole'
  <2>1. Lines' \subseteq Lines /\ session' = session /\ session[me] # "none"
    BY DEF ClientStep
  <2>2. Comes("end")' /\ ~Comes("start")' => syncing'
    BY <1>1, <1>5 DEF ReplicaInv, LoginIsWhole
  <2> QED
    BY <1>5, <2>1, <2>2, LoginStaysWhole DEF ReplicaInv
<1>7. ClientTypeOK'
  BY <1>1 DEF ReplicaInv, ClientTypeOK, Working
<1>8. \A m, s : /\ Listed(m, s)' <=> Listed(m, s)
                /\ Appending(m, s)' <=> Appending(m, s)
                /\ Has(m, s)' <=> Has(m, s)
  BY <1>1 DEF Listed, Appending, Has, Deleting
<1>9. \A r \in Room : RoomComes(R, r)'
  <2> SUFFICES ASSUME NEW r \in Room
               PROVE  RoomComes(R, r)'
    OBVIOUS
  <2>1. RoomComes(R, r) /\ ComingRoom(r)' = ComingRoom(r)
    BY <1>3 DEF ReplicaInv
  <2> QED
    BY <1>1, <1>5, <2>1, SameRoomComes
<1>10. \A m, s : WillHave(m, s)' <=> WillHave(m, s)
  BY <1>4, <1>5, <1>8 DEF WillHave
<1>11. \A m \in Message, s \in Room :
         ComingMessage(m, s)' \/ Listed(m, s)' \/ Appending(m, s)' => Place(R, m, s)
  BY <1>4, <1>8 DEF Place
<1> QED
  BY <1>6, <1>7, <1>9, <1>10, <1>11, ClientStepKeepsInv

LEMMA StartKeepsInv ==
  ASSUME NEW R, ReplicaInv(R), ClientStep, Still, NetworkTypeOK', InOrder(tcp'[me]),
         NEW h \in LoginLine, h.kind = "start", _on_sync_start,
         \A l : l \in Lines <=> l \in Lines' \/ l = h, ~Comes("start")'
  PROVE  ReplicaInv(R)'
<1>1. /\ ClientTypeOK' /\ syncing' /\ rooms' = << >>
      /\ \A m, s : ~Listed(m, s)' /\ ~Appending(m, s)' /\ ~Has(m, s)'
  BY StartHandled
<1>2. Comes("end")' <=> Comes("end")
  BY DEF Comes
<1>3. Comes("start")
  BY DEF Comes
<1>4. \A r : ComingRoom(r)' = ComingRoom(r)
  BY DEF ComingRoom
<1>5. \A m, r : ComingMessage(m, r)' <=> ComingMessage(m, r)
  BY DEF ComingMessage
<1>6. LoginIsWhole'
  <2>1. Lines' \subseteq Lines /\ session' = session /\ session[me] # "none"
    BY DEF ClientStep
  <2> QED
    BY <1>1, <1>2, <2>1, LoginStaysWhole DEF ReplicaInv
<1>7. ASSUME NEW r \in Room
      PROVE  RoomComes(R, r)'
  <2>1. \A x : Fits(R, x, r)' <=> Fits(R, x, r)
    BY DEF Fits, _normalize_room, ClientStep
  <2>2. \A l : RoomOf(l)' = RoomOf(l)
    BY DEF RoomOf, _normalize_room
  <2>3. r \notin DOMAIN rooms'
    BY <1>1
  <2>4. RoomComes(R, r)
    BY DEF ReplicaInv
  <2> QED
    BY <1>3, <1>4, <2>1, <2>2, <2>3, <2>4 DEF RoomComes, ClientStep
<1>8. \A m, s : WillHave(m, s)' <=> WillHave(m, s)
  BY <1>1, <1>3, <1>5 DEF WillHave
<1>9. \A m \in Message, s \in Room :
        ComingMessage(m, s)' \/ Listed(m, s)' \/ Appending(m, s)' => Place(R, m, s)
  BY <1>1, <1>5 DEF Place
<1> QED
  BY <1>1, <1>6, <1>7, <1>8, <1>9, ClientStepKeepsInv

LEMMA RoomLineKeepsInv ==
  ASSUME NEW R, ReplicaInv(R), ClientStep, Still, NetworkTypeOK', InOrder(tcp'[me]),
         NEW h \in LoginLine, h.kind = "CHATROOM", _upsert_room(h), syncing,
         \A l : l \in Lines <=> l \in Lines' \/ l = h, ~Comes("start")'
  PROVE  ReplicaInv(R)'
<1>1. PICK r \in Room : r = h.room
  BY LineKinds
<1>2. h.users \in SUBSET User /\ h.requests \in SUBSET User
  BY LineKinds
<1>3. /\ ClientTypeOK' /\ syncing' = syncing
      /\ DOMAIN rooms' = DOMAIN rooms \cup {r} /\ rooms'[r] = RoomOf(h)
      /\ \A s \in DOMAIN rooms \ {r} : rooms'[s] = rooms[s]
      /\ \A m, s : /\ Listed(m, s)' <=> Listed(m, s)
                   /\ ~Appending(m, s)'
                   /\ Has(m, s)' <=> Has(m, s)
  BY <1>1, <1>2, UpsertHandled DEF ReplicaInv
<1>4. (Comes("start")' <=> Comes("start")) /\ (Comes("end")' <=> Comes("end"))
  BY DEF Comes
<1>5. \A s : s # r => ComingRoom(s)' = ComingRoom(s)
  BY <1>1 DEF ComingRoom
<1>6. h \in ComingRoom(r) /\ ComingRoom(r)' \subseteq ComingRoom(r)
  BY <1>1 DEF ComingRoom
<1>7. \A m, s : ComingMessage(m, s)' <=> ComingMessage(m, s)
  BY DEF ComingMessage
<1>8. LoginIsWhole'
  <2>1. Lines' \subseteq Lines /\ session' = session /\ session[me] # "none"
    BY DEF ClientStep
  <2> QED
    BY <1>3, <1>4, <2>1, LoginStaysWhole DEF ReplicaInv
<1>9. ASSUME NEW s \in Room
      PROVE  RoomComes(R, s)'
  <2>1. CASE s # r
    <3>1. RoomComes(R, s) /\ ComingRoom(s)' = ComingRoom(s)
      BY <1>5, <2>1 DEF ReplicaInv
    <3>2. /\ s \in DOMAIN rooms' <=> s \in DOMAIN rooms
          /\ s \in DOMAIN rooms => rooms'[s] = rooms[s]
      BY <1>3, <2>1
    <3> QED
      BY <1>4, <3>1, <3>2, SameRoomComes
  <2>2. CASE s = r
    <3>1. RoomComes(R, r)
      BY DEF ReplicaInv
    <3>2. \A x : Fits(R, x, r)' <=> Fits(R, x, r)
      BY DEF Fits, _normalize_room, ClientStep
    <3>3. \A l : RoomOf(l)' = RoomOf(l)
      BY DEF RoomOf, _normalize_room
    <3>4. r \in DOMAIN db.rooms /\ Wholes(R, r) = {} => \A l \in ComingRoom(r) : Fits(R, RoomOf(l), r)
      BY <3>1 DEF RoomComes, ClientStep
    <3>5. r \in DOMAIN db.rooms /\ Wholes(R, r) = {} =>
            /\ \A l \in ComingRoom(r)' : Fits(R, RoomOf(l), r)'
            /\ r \in DOMAIN rooms' /\ Fits(R, rooms[r], r)'
      <4> SUFFICES ASSUME r \in DOMAIN db.rooms, Wholes(R, r) = {}
                   PROVE  /\ \A l \in ComingRoom(r)' : Fits(R, RoomOf(l), r)'
                          /\ r \in DOMAIN rooms' /\ Fits(R, rooms[r], r)'
        OBVIOUS
      <4>1. \A l \in ComingRoom(r)' : Fits(R, RoomOf(l), r)'
        BY <1>6, <3>4 DEF Fits, _normalize_room, ClientStep, RoomOf
      <4>2. Fits(R, RoomOf(h), r)
        BY <1>6, <3>4
      <4>3. Fits(R, rooms[r], r)'
        BY <1>3, <4>2 DEF Fits, _normalize_room, ClientStep
      <4> QED
        BY <1>3, <4>1, <4>3
    <3>6. r \notin DOMAIN db.rooms => WillGo(R, r)
      BY <1>6, <3>1 DEF RoomComes
    <3>7. RoomComes(R, r)'
      BY <3>5, <3>6 DEF RoomComes, ClientStep
    <3> QED
      BY <2>2, <3>7
  <2> QED
    BY <2>1, <2>2
<1>10. \A m, s : WillHave(m, s)' <=> WillHave(m, s)
  BY <1>3, <1>4, <1>7 DEF WillHave
<1>11. \A m \in Message, s \in Room :
         ComingMessage(m, s)' \/ Listed(m, s)' \/ Appending(m, s)' => Place(R, m, s)
  BY <1>3, <1>7 DEF Place
<1> QED
  BY <1>3, <1>8, <1>9, <1>10, <1>11, ClientStepKeepsInv

LEMMA MessageLineKeepsInv ==
  ASSUME NEW R, ReplicaInv(R), ClientStep, Still, NetworkTypeOK', InOrder(tcp'[me]),
         NEW t \in Thread, NEW h \in LoginLine, h.kind = "MESSAGE", _append_message_once(t, h),
         syncing, \A l : l \in Lines <=> l \in Lines' \/ l = h, ~Comes("start")'
  PROVE  ReplicaInv(R)'
<1>1. PICK r \in Room, m \in Message : r = h.room /\ m = h.message
  BY LineKinds
<1>2. /\ ClientTypeOK' /\ syncing' = syncing /\ rooms' = rooms
      /\ \A n, s : /\ Listed(n, s)' <=> Listed(n, s)
                   /\ Appending(n, s)' => n = m /\ s = r
                   /\ Has(n, s)' <=> Has(n, s) \/ (n = m /\ s = r)
  BY <1>1, MessageHandled DEF ReplicaInv
<1>3. (Comes("start")' <=> Comes("start")) /\ (Comes("end")' <=> Comes("end"))
  BY DEF Comes
<1>4. \A s : ComingRoom(s)' = ComingRoom(s)
  BY DEF ComingRoom
<1>5. \A n, s : ComingMessage(n, s) <=> ComingMessage(n, s)' \/ (n = m /\ s = r)
  BY <1>1 DEF ComingMessage
<1>6. LoginIsWhole'
  <2>1. Lines' \subseteq Lines /\ session' = session /\ session[me] # "none"
    BY DEF ClientStep
  <2> QED
    BY <1>2, <1>3, <2>1, LoginStaysWhole DEF ReplicaInv
<1>7. ASSUME NEW s \in Room
      PROVE  RoomComes(R, s)'
  <2>1. RoomComes(R, s) /\ ComingRoom(s)' = ComingRoom(s)
    BY <1>4 DEF ReplicaInv
  <2> QED
    BY <1>2, <1>3, <2>1, SameRoomComes
<1>8. \A n, s : WillHave(n, s)' <=> WillHave(n, s)
  BY <1>2, <1>3, <1>5 DEF WillHave
<1>9. \A n \in Message, s \in Room :
        ComingMessage(n, s)' \/ Listed(n, s)' \/ Appending(n, s)' => Place(R, n, s)
  <2>1. \A n, s : ComingMessage(n, s) \/ Listed(n, s) => Place(R, n, s)
    BY DEF Place
  <2> QED
    BY <1>2, <1>5, <2>1
<1> QED
  BY <1>2, <1>6, <1>7, <1>8, <1>9, ClientStepKeepsInv

LEMMA EndKeepsInv ==
  ASSUME NEW R, ReplicaInv(R), ClientStep, NetworkTypeOK', InOrder(tcp'[me]),
         NEW h \in LoginLine, h.kind = "end", _on_sync_end,
         \A l : l \in Lines <=> l \in Lines' \/ l = h, Lines' = {}
  PROVE  ReplicaInv(R)'
<1>1. rooms' = rooms /\ messages' = messages /\ doing' = doing
  BY DEF _on_sync_end
<1>2. ~Comes("start") /\ ~Comes("start")' /\ ~Comes("end")'
  BY DEF Comes
<1>3. \A r : ComingRoom(r) = {} /\ ComingRoom(r)' = {}
  BY DEF ComingRoom
<1>4. \A m, r : ~ComingMessage(m, r) /\ ~ComingMessage(m, r)'
  BY DEF ComingMessage
<1>5. LoginIsWhole'
  <2>1. Lines' \subseteq Lines /\ session' = session /\ session[me] # "none"
    BY DEF ClientStep
  <2> QED
    BY <1>2, <2>1, LoginStaysWhole DEF ReplicaInv
<1>6. ClientTypeOK'
  BY <1>1 DEF ReplicaInv, ClientTypeOK, Working
<1>7. \A m, s : /\ Listed(m, s)' <=> Listed(m, s)
                /\ Appending(m, s)' <=> Appending(m, s)
                /\ Has(m, s)' <=> Has(m, s)
  BY <1>1 DEF Listed, Appending, Has, Deleting
<1>8. \A r \in Room : RoomComes(R, r)'
  <2> SUFFICES ASSUME NEW r \in Room
               PROVE  RoomComes(R, r)'
    OBVIOUS
  <2>1. RoomComes(R, r) /\ ComingRoom(r)' = ComingRoom(r)
    BY <1>3 DEF ReplicaInv
  <2> QED
    BY <1>1, <1>2, <2>1, SameRoomComes
<1>9. \A m, s : WillHave(m, s)' <=> WillHave(m, s)
  BY <1>2, <1>4, <1>7 DEF WillHave
<1>10. \A m \in Message, s \in Room :
         ComingMessage(m, s)' \/ Listed(m, s)' \/ Appending(m, s)' => Place(R, m, s)
  BY <1>4, <1>7 DEF Place
<1> QED
  BY <1>5, <1>6, <1>8, <1>9, <1>10, ClientStepKeepsInv

\* The TCP thread handles a line of the login, or an event yet to come through Redis.
LEMMA ListenKeepsInv ==
  ASSUME NEW R, ReplicaInv(R), Still, _listen_loop,
         Head(tcp[me]).at # 0 => Head(tcp[me]) \in R
  PROVE  ReplicaInv(R)'
<1>1. PICK h : h = Head(tcp[me])
  OBVIOUS
<1>2. /\ tcp[me] # << >> /\ tcp' = [tcp EXCEPT ![me] = Tail(@)] /\ _dispatch("tcp", h)
      /\ db' = db /\ taken' = taken /\ clock' = clock
      /\ session' = session /\ direct' = direct
  BY <1>1 DEF _listen_loop, database
<1>3. /\ NetworkTypeOK /\ LoginIsWhole /\ RelayTypeOK(R)
  BY DEF ReplicaInv
<1>4. /\ NetworkTypeOK' /\ InOrder(tcp'[me]) /\ session[me] # "none"
      /\ h \in Event \cup LoginLine /\ (h \in Event => h.at # 0)
      /\ \A l : l \in Lines <=> l \in Lines' \/ (l = h /\ h.at = 0)
      /\ h.kind = "end" => Lines' = {}
      /\ Comes("start")' => h.kind = "auth"
  BY <1>1, <1>2, <1>3, NextLine
<1>5. ClientStep
  BY <1>2, <1>4 DEF ClientStep
<1>6. "tcp" \in Thread
  BY DEF Thread
<1>7. CASE h \in Event
  <2>1. Lines' = Lines
    BY <1>4, <1>7
  <2>2. h \in R
    BY <1>1, <1>4, <1>7
  <2>3. ASSUME syncing' = syncing
        PROVE  LoginIsWhole'
    <3>1. (Comes("start")' <=> Comes("start")) /\ (Comes("end")' <=> Comes("end"))
      BY <2>1, SameLines
    <3>2. Comes("end")' /\ ~Comes("start")' => syncing'
      BY <1>3, <2>3, <3>1 DEF LoginIsWhole
    <3>3. Lines' \subseteq Lines
      BY <2>1
    <3> QED
      BY <1>2, <1>3, <1>4, <3>1, <3>2, <3>3, LoginStaysWhole
  <2> QED
    BY <1>2, <1>4, <1>5, <1>6, <1>7, <2>1, <2>2, <2>3, EventKeepsInv
<1>8. CASE h \in LoginLine
  <2>1. /\ h.at = 0 /\ h.kind \in {"auth", "start", "end", "CHATROOM", "MESSAGE"}
    BY <1>8, LineKinds
  <2>2. \A l : l \in Lines <=> l \in Lines' \/ l = h
    BY <1>4, <2>1
  <2>3. CASE h.kind = "auth"
    <3>1. UNCHANGED client
      BY <1>2, <1>6, <2>3, Dispatched DEF Ignore
    <3> QED
      BY <1>4, <1>5, <1>8, <2>2, <2>3, <3>1, AuthKeepsInv
  <2>4. CASE h.kind = "start"
    <3>1. _on_sync_start
      BY <1>2, <1>6, <2>4, Dispatched
    <3>2. ~Comes("start")'
      BY <1>4, <2>4
    <3> QED
      BY <1>4, <1>5, <1>8, <2>2, <2>4, <3>1, <3>2, StartKeepsInv
  <2>5. CASE h.kind = "end"
    <3>1. _on_sync_end
      BY <1>2, <1>6, <2>5, Dispatched
    <3>2. Lines' = {}
      BY <1>4, <2>5
    <3> QED
      BY <1>4, <1>5, <1>8, <2>2, <2>5, <3>1, <3>2, EndKeepsInv
  <2>6. ASSUME h.kind \in {"CHATROOM", "MESSAGE"}
        PROVE  syncing /\ ~Comes("start")'
    <3>1. ~Comes("start")'
      BY <1>4, <2>6
    <3>2. ~Comes("start")
      BY <2>2, <2>6, <3>1 DEF Comes
    <3>3. Comes("end")
      BY <1>3, <2>2 DEF LoginIsWhole
    <3> QED
      BY <1>3, <3>1, <3>2, <3>3 DEF LoginIsWhole
  <2>7. CASE h.kind = "CHATROOM"
    <3>1. syncing /\ ~Comes("start")'
      BY <2>6, <2>7
    <3>2. _upsert_room(h)
      BY <1>2, <1>6, <2>7, <3>1, Dispatched
    <3> QED
      BY <1>4, <1>5, <1>8, <2>2, <2>7, <3>1, <3>2, RoomLineKeepsInv
  <2>8. CASE h.kind = "MESSAGE"
    <3>1. syncing /\ ~Comes("start")'
      BY <2>6, <2>8
    <3>2. _append_message_once("tcp", h)
      BY <1>2, <1>6, <2>8, <3>1, Dispatched
    <3> QED
      BY <1>4, <1>5, <1>6, <1>8, <2>2, <2>8, <3>1, <3>2, MessageLineKeepsInv
  <2> QED
    BY <2>1, <2>3, <2>4, <2>5, <2>7, <2>8
<1> QED
  BY <1>4, <1>7, <1>8

-----------------------------------------------------------------------------
(***************************************************************************)
(* Datagrams, and the rest of handlers                                     *)
(***************************************************************************)
LEMMA SameQueue ==
  ASSUME NetworkTypeOK, LoginIsWhole, session[me] # "none",
         tcp' = tcp, session' = session, direct' = direct
  PROVE  NetworkTypeOK' /\ Lines' = Lines /\ (syncing' = syncing => LoginIsWhole')
<1>1. NetworkTypeOK'
  BY DEF NetworkTypeOK, me
<1>2. Lines' = Lines
  BY DEF Lines, me
<1>3. ASSUME syncing' = syncing
      PROVE  LoginIsWhole'
  <2>1. (Comes("start")' <=> Comes("start")) /\ (Comes("end")' <=> Comes("end"))
    BY <1>2, SameLines
  <2> QED
    BY <1>2, <1>3, <2>1 DEF LoginIsWhole, me
<1> QED
  BY <1>1, <1>2, <1>3

\* The UDP thread handles an event yet to come through Redis.
LEMMA DatagramKeepsInv ==
  ASSUME NEW R, ReplicaInv(R), Still, NEW e \in R, _dispatch("udp", e),
         session[me] # "none", UNCHANGED <<database, session, tcp, direct>>
  PROVE  ReplicaInv(R)' /\ Reflected(e)' /\ Lines' = Lines
<1>1. /\ db' = db /\ taken' = taken /\ clock' = clock
      /\ session' = session /\ tcp' = tcp /\ direct' = direct
  BY DEF database
<1>2. NetworkTypeOK /\ LoginIsWhole /\ e \in Event
  BY DEF ReplicaInv, RelayTypeOK
<1>3. NetworkTypeOK' /\ Lines' = Lines /\ (syncing' = syncing => LoginIsWhole')
  BY <1>1, <1>2, SameQueue
<1>4. ClientStep /\ "udp" \in Thread
  BY <1>1 DEF ClientStep, Thread
<1> QED
  BY <1>2, <1>3, <1>4, EventKeepsInv

LEMMA ContinueKeepsInv ==
  ASSUME NEW R, ReplicaInv(R), NEW t \in Thread, Continue(t)
  PROVE  ReplicaInv(R)'
<1>1. /\ db' = db /\ taken' = taken /\ clock' = clock
      /\ session' = session /\ tcp' = tcp /\ direct' = direct
  BY DEF Continue, database, network
<1>2. NetworkTypeOK /\ LoginIsWhole /\ ClientTypeOK
  BY DEF ReplicaInv
<1>3. session[me] # "none"
  <2>1. doing[t].stage # "idle"
    BY DEF Continue, FinishAppend, Search, Pop
  <2> QED
    BY <1>2, <2>1 DEF LoginIsWhole, Idle
<1>4. NetworkTypeOK' /\ Lines' = Lines /\ (syncing' = syncing => LoginIsWhole')
  BY <1>1, <1>2, <1>3, SameQueue
<1>5. ClientStep
  BY <1>1, <1>3 DEF ClientStep
<1>6. /\ ClientTypeOK' /\ syncing' = syncing /\ rooms' = rooms
      /\ \A n \in Message, s \in Room :
           /\ Listed(n, s)' => Listed(n, s) \/ Appending(n, s)
           /\ ~Appending(n, s)'
           /\ Has(n, s)' <=> Has(n, s)
  <2>1. CASE FinishAppend(t)
    BY <1>2, <2>1, AppendFinished
  <2>2. CASE Search(t)
    BY <1>2, <2>2, Searched
  <2>3. CASE Pop(t)
    <3>1. ASSUME NEW n, NEW s, NEW u, Listed(n, s), Listed(n, u)
          PROVE  s = u
      <4>1. s \in Room /\ u \in Room /\ n \in Message
        <5>1. s \in DOMAIN messages /\ u \in DOMAIN messages /\ n \in ToSet(messages[s])
          BY <3>1 DEF Listed
        <5>2. messages[s] \in Seq(Message)
          BY <1>2, <5>1 DEF ClientTypeOK
        <5>3. ToSet(messages[s]) \subseteq Message
          BY <5>2 DEF ToSet
        <5> QED
          BY <1>2, <5>1, <5>3 DEF ClientTypeOK
      <4>2. Place(R, n, s) /\ Place(R, n, u)
        BY <3>1 DEF Place
      <4> QED
        BY <4>1, <4>2 DEF ReplicaInv, OnePlace
    <3> QED
      BY <1>2, <2>3, <3>1, Popped
  <2> QED
    BY <2>1, <2>2, <2>3 DEF Continue
<1>7. Comes("start")' <=> Comes("start")
  BY <1>4, SameLines
<1>8. \A s : ComingRoom(s)' = ComingRoom(s)
  BY <1>4, SameLines
<1>9. \A n, s : ComingMessage(n, s)' <=> ComingMessage(n, s)
  BY <1>4, SameLines
<1>10. ASSUME NEW s \in Room
       PROVE  RoomComes(R, s)'
  <2>1. RoomComes(R, s) /\ ComingRoom(s)' = ComingRoom(s)
    BY <1>8 DEF ReplicaInv
  <2> QED
    BY <1>5, <1>6, <1>7, <2>1, SameRoomComes
<1>11. \A n \in Message, s \in Room : WillHave(n, s)' <=> WillHave(n, s)
  BY <1>6, <1>7, <1>9 DEF WillHave
<1>12. \A n \in Message, s \in Room :
         ComingMessage(n, s)' \/ Listed(n, s)' \/ Appending(n, s)' => Place(R, n, s)
  BY <1>6, <1>9 DEF Place
<1> QED
  BY <1>4, <1>5, <1>6, <1>10, <1>11, <1>12, ClientStepKeepsInv

-----------------------------------------------------------------------------
(***************************************************************************)
(* The first event is taken from what is to come through Redis             *)
(***************************************************************************)
LEMMA FewerOfRoom ==
  ASSUME NEW R, NEW e, NEW Q, Q = R \ {e}, NEW r
  PROVE  /\ Wholes(Q, r) = Wholes(R, r) \ {e}
         /\ WillGo(Q, r) => WillGo(R, r)
         /\ \A n : Removed(Q, r, n) \subseteq Removed(R, r, n)
<1>1. Wholes(Q, r) = Wholes(R, r) \ {e}
  BY DEF Wholes
<1>2. WillGo(Q, r) => WillGo(R, r)
  BY DEF WillGo
<1>3. \A n : Removed(Q, r, n) \subseteq Removed(R, r, n)
  BY DEF Removed
<1> QED
  BY <1>1, <1>2, <1>3

\* From the first event on, the events of a room lead to the same.
LEMMA LaterRemovals ==
  ASSUME NEW R, NEW e, NEW Q, Q = R \ {e}, NEW r, NEW n \in Nat, e.at \in Nat, e.at <= n
  PROVE  Removed(Q, r, n) = Removed(R, r, n)
<1>1. ~(e.at > n)
  OBVIOUS
<1> QED
  BY <1>1 DEF Removed

LEMMA AllRemovalsAreLater ==
  ASSUME NEW R, NEW e, NEW Q, Q = R \ {e}, NEW r, e.kind # "removed", e.at \in Nat,
         \A f \in R : f.at \in Nat /\ f.at > 0 /\ e.at <= f.at /\ (f.at = e.at => f = e)
  PROVE  Removed(Q, r, 0) = Removed(R, r, e.at)
<1>1. ASSUME NEW f \in R, f # e
      PROVE  f.at > e.at /\ f.at > 0
  BY <1>1
<1>2. \A u : (\E f \in Q : f.kind = "removed" /\ f.room = r /\ f.user = u /\ f.at > 0)
        <=> (\E f \in R : f.kind = "removed" /\ f.room = r /\ f.user = u /\ f.at > e.at)
  <2>1. \A f \in R : f.kind = "removed" => f \in Q /\ f.at > e.at /\ f.at > 0
    BY <1>1
  <2> QED
    BY <2>1
<1> QED
  BY <1>2 DEF Removed

LEMMA RoomStaysTold ==
  ASSUME NEW R, NEW e \in Event, e \in R, NEW Q, Q = R \ {e}, NEW r \in Room,
         \A f \in R : f.at \in Nat /\ f.at > 0 /\ e.at <= f.at /\ (f.at = e.at => f = e),
         RoomIsTold(R, r)'
  PROVE  RoomIsTold(Q, r)'
<1>1. /\ Wholes(Q, r) = Wholes(R, r) \ {e}
      /\ WillGo(Q, r) => WillGo(R, r)
      /\ \A n : Removed(Q, r, n) \subseteq Removed(R, r, n)
  BY FewerOfRoom
<1>2. Wholes(R, r) \subseteq R /\ Q \subseteq R
  BY DEF Wholes
<1>3. e.at \in Nat
  BY EventKinds
<1>4. \A g \in Q, f \in Wholes(Q, r) : g.kind = "gone" /\ g.room = r => f.at < g.at
  BY <1>1, <1>2 DEF RoomIsTold
<1>5. r \notin DOMAIN db.rooms' => Wholes(Q, r) = {} \/ WillGo(Q, r)
  <2> SUFFICES ASSUME r \notin DOMAIN db.rooms', ~WillGo(Q, r)
               PROVE  Wholes(Q, r) = {}
    OBVIOUS
  <2>1. CASE ~WillGo(R, r)
    BY <1>1, <2>1 DEF RoomIsTold
  <2>2. CASE WillGo(R, r)
    <3>1. e.kind = "gone" /\ e.room = r
      BY <2>2 DEF WillGo
    <3>2. \A f \in Wholes(R, r) : f.at < e.at
      BY <3>1 DEF RoomIsTold
    <3>3. \A f \in Wholes(R, r) : FALSE
      <4> SUFFICES ASSUME NEW f \in Wholes(R, r)
                   PROVE  FALSE
        OBVIOUS
      <4>1. f.at \in Nat /\ e.at <= f.at /\ f.at < e.at
        BY <1>2, <3>2
      <4> QED
        BY <1>3, <4>1
    <3> QED
      BY <1>1, <3>3
  <2> QED
    BY <2>1, <2>2
<1>6. ASSUME r \in DOMAIN db.rooms', NEW f \in Wholes(Q, r),
             \A g \in Wholes(Q, r) : g.at <= f.at
      PROVE  /\ db.rooms'[r].requests = f.requests
             /\ db.rooms'[r].users = f.users \ Removed(Q, r, f.at)
  <2>1. f \in Wholes(R, r) /\ f.at \in Nat /\ e.at <= f.at
    BY <1>1, <1>2
  <2>2. \A g \in Wholes(R, r) : g.at <= f.at
    BY <1>1, <1>6, <2>1
  <2>3. Removed(Q, r, f.at) = Removed(R, r, f.at)
    BY <1>3, <2>1, LaterRemovals
  <2> QED
    BY <1>6, <2>1, <2>2, <2>3 DEF RoomIsTold
<1>7. ASSUME r \in DOMAIN db.rooms', Wholes(Q, r) = {}
      PROVE  db.rooms'[r].users \cap Removed(Q, r, 0) = {}
  <2>1. CASE Wholes(R, r) = {}
    BY <1>1, <1>7, <2>1 DEF RoomIsTold
  <2>2. CASE Wholes(R, r) # {}
    <3>1. Wholes(R, r) = {e}
      BY <1>1, <1>7, <2>2
    <3>2. e.kind # "removed"
      BY <3>1 DEF Wholes, Whole
    <3>3. Removed(Q, r, 0) = Removed(R, r, e.at)
      BY <1>3, <3>2, AllRemovalsAreLater
    <3>4. e \in Wholes(R, r) /\ \A g \in Wholes(R, r) : g.at <= e.at
      BY <1>3, <3>1
    <3>5. db.rooms'[r].users = e.users \ Removed(R, r, e.at)
      BY <1>7, <3>4 DEF RoomIsTold
    <3> QED
      BY <3>3, <3>5
  <2> QED
    BY <2>1, <2>2
<1>8. /\ r \in DOMAIN db.rooms' \/ WillGo(Q, r) => r \in taken'
      /\ ~(r \in DOMAIN db.rooms' /\ WillGo(Q, r))
  BY <1>1 DEF RoomIsTold
<1> QED
  BY <1>4, <1>5, <1>6, <1>7, <1>8 DEF RoomIsTold

LEMMA MessageStaysTold ==
  ASSUME NEW R, NEW e \in Event, e \in R, NEW Q, Q = R \ {e}, NEW m \in Message,
         \A f \in R : f.at \in Nat /\ f.at > 0 /\ e.at <= f.at /\ (f.at = e.at => f = e),
         MessageIsTold(R, m)'
  PROVE  MessageIsTold(Q, m)'
<1>1. Made(Q, m) \subseteq Made(R, m) /\ (WillBeDeleted(Q, m) => WillBeDeleted(R, m))
  BY DEF Made, WillBeDeleted
<1>2. Made(R, m) \subseteq R /\ Q \subseteq R
  BY DEF Made
<1>3. e.at \in Nat
  BY EventKinds
<1>4. \A d \in Q, f \in Made(Q, m) : d.kind = "deleted" /\ d.message = m => f.at < d.at
  BY <1>1, <1>2 DEF MessageIsTold
<1>5. m \notin DOMAIN db.messages' => Made(Q, m) = {} \/ WillBeDeleted(Q, m)
  <2> SUFFICES ASSUME m \notin DOMAIN db.messages', ~WillBeDeleted(Q, m)
               PROVE  Made(Q, m) = {}
    OBVIOUS
  <2>1. CASE ~WillBeDeleted(R, m)
    BY <1>1, <2>1 DEF MessageIsTold
  <2>2. CASE WillBeDeleted(R, m)
    <3>1. e.kind = "deleted" /\ e.message = m
      BY <2>2 DEF WillBeDeleted
    <3>2. \A f \in Made(R, m) : f.at < e.at
      BY <3>1 DEF MessageIsTold
    <3>3. \A f \in Made(R, m) : FALSE
      <4> SUFFICES ASSUME NEW f \in Made(R, m)
                   PROVE  FALSE
        OBVIOUS
      <4>1. f.at \in Nat /\ e.at <= f.at /\ f.at < e.at
        BY <1>2, <3>2
      <4> QED
        BY <1>3, <4>1
    <3> QED
      BY <1>1, <3>3
  <2> QED
    BY <2>1, <2>2
<1> QED
  BY <1>1, <1>4, <1>5 DEF MessageIsTold

LEMMA RoomStillComes ==
  ASSUME NEW R, NEW e \in Event, e \in R, NEW Q, Q = R \ {e}, NEW r \in Room,
         \A f \in R : f.at \in Nat /\ f.at > 0 /\ e.at <= f.at /\ (f.at = e.at => f = e),
         RoomIsTold(R, r)', RoomComes(R, r)', LoginIsWhole',
         session'[me] # "none" => Lines' = {} /\ Reflected(e)'
  PROVE  RoomComes(Q, r)'
<1>1. /\ Wholes(Q, r) = Wholes(R, r) \ {e}
      /\ WillGo(Q, r) => WillGo(R, r)
      /\ \A n : Removed(Q, r, n) \subseteq Removed(R, r, n)
  BY FewerOfRoom
<1>2. Lines' = {}
  <2>1. CASE session'[me] = "none"
    <3>1. tcp'[me] = << >>
      BY <2>1 DEF LoginIsWhole, me
    <3> QED
      BY <3>1, EmptyList DEF Lines, me
  <2> QED
    BY <2>1
<1>3. ComingRoom(r)' = {} /\ ~Comes("start")'
  BY <1>2 DEF ComingRoom, Comes
<1>4. e.at \in Nat
  BY EventKinds
<1>5. ASSUME r \in DOMAIN db.rooms', Wholes(Q, r) = {}, session'[me] # "none"
      PROVE  r \in DOMAIN rooms' /\ Fits(Q, rooms[r], r)'
  <2>1. CASE Wholes(R, r) # {}
    <3>1. Wholes(R, r) = {e}
      BY <1>1, <1>5, <2>1
    <3>2. e.kind \in Whole /\ e.room = r
      BY <3>1 DEF Wholes
    <3>3. r \in DOMAIN rooms' /\ rooms'[r] = RoomOf(e)'
      BY <1>5, <3>2 DEF Reflected
    <3>4. Removed(Q, r, 0) = Removed(R, r, e.at)
      <4>1. e.kind # "removed"
        BY <3>2 DEF Whole
      <4>2. \A n : n \in Nat => (e.at = n => Removed(Q, r, 0) = Removed(R, r, n))
        BY <4>1, AllRemovalsAreLater
      <4> QED
        BY <1>4, <4>2
    <3>5. e \in Wholes(R, r) /\ \A g \in Wholes(R, r) : g.at <= e.at
      BY <1>4, <3>1
    <3>6. /\ db.rooms'[r].users = e.users \ Removed(Q, r, 0)
          /\ db.rooms'[r].requests = e.requests
      BY <1>5, <3>4, <3>5 DEF RoomIsTold
    <3>7. /\ rooms'[r].users = e.users \cup {Coordinator}
          /\ rooms'[r].requests = e.requests
      BY <3>3 DEF RoomOf, _normalize_room
    <3>8. \/ rooms'[r].users \ Removed(Q, r, 0) = db.rooms'[r].users
          \/ rooms'[r].users \ Removed(Q, r, 0) = db.rooms'[r].users \cup {Coordinator}
      BY <3>6, <3>7
    <3> QED
      BY <3>3, <3>6, <3>7, <3>8 DEF Fits, _normalize_room
  <2>2. CASE Wholes(R, r) = {}
    <3>1. r \in DOMAIN rooms' /\ Fits(R, rooms[r], r)'
      BY <1>3, <1>5, <2>2 DEF RoomComes
    <3>2. rooms'[r].users \ Removed(Q, r, 0) = rooms'[r].users \ Removed(R, r, 0)
      <4>1. ASSUME NEW u \in Removed(R, r, 0), u \notin Removed(Q, r, 0)
            PROVE  u \notin rooms'[r].users
        <5>1. e.kind = "removed" /\ e.room = r /\ e.user = u
          BY <4>1 DEF Removed
        <5> QED
          BY <1>5, <3>1, <5>1 DEF Reflected
      <4> QED
        BY <1>1, <4>1
    <3> QED
      BY <3>1, <3>2 DEF Fits, _normalize_room
  <2> QED
    BY <2>1, <2>2
<1>6. ASSUME r \notin DOMAIN db.rooms', r \in DOMAIN rooms'
      PROVE  WillGo(Q, r)
  <2>1. WillGo(R, r)
    BY <1>3, <1>6 DEF RoomComes
  <2>2. session'[me] # "none"
    <3>1. session'[me] = "none" => rooms' = << >>
      BY DEF LoginIsWhole, me
    <3> QED
      BY <1>6, <3>1
  <2>3. ~(e.kind = "gone" /\ e.room = r)
    BY <1>6, <2>2 DEF Reflected
  <2> QED
    BY <2>1, <2>3 DEF WillGo
<1> QED
  BY <1>3, <1>5, <1>6 DEF RoomComes

LEMMA MessageStillComes ==
  ASSUME NEW R, NEW e \in Event, e \in R, NEW Q, Q = R \ {e}, NEW m \in Message, NEW r \in Room,
         OnePlace(R)', MessageComes(R, m, r)', LoginIsWhole',
         session'[me] # "none" => Lines' = {} /\ Reflected(e)'
  PROVE  MessageComes(Q, m, r)'
<1>1. Lines' = {}
  <2>1. CASE session'[me] = "none"
    <3>1. tcp'[me] = << >>
      BY <2>1 DEF LoginIsWhole, me
    <3> QED
      BY <3>1, EmptyList DEF Lines, me
  <2> QED
    BY <2>1
<1>2. ~ComingMessage(m, r)' /\ ~Comes("start")'
  BY <1>1 DEF ComingMessage, Comes
<1>3. WillHave(m, r)' <=> Has(m, r)'
  BY <1>2 DEF WillHave
<1>4. ASSUME m \in DOMAIN db.messages', db.messages'[m] = r, r \in DOMAIN db.rooms',
             session'[me] # "none", Made(Q, m) = {}
      PROVE  Has(m, r)'
  <2>1. CASE Made(R, m) = {}
    BY <1>3, <1>4, <2>1 DEF MessageComes
  <2>2. CASE Made(R, m) # {}
    <3>1. e \in Made(R, m)
      BY <1>4, <2>2 DEF Made
    <3>2. e.kind = "message" /\ e.message = m /\ e.room \in Room
      BY <3>1, EventKinds DEF Made
    <3>3. Place(R, m, r)' /\ Place(R, m, e.room)'
      BY <1>4, <3>1 DEF Place
    <3>4. e.room = r
      BY <3>2, <3>3 DEF OnePlace
    <3> QED
      BY <1>4, <3>2, <3>4 DEF Reflected
  <2> QED
    BY <2>1, <2>2
<1>5. ASSUME m \notin DOMAIN db.messages', Has(m, r)'
      PROVE  WillBeDeleted(Q, m)
  <2>1. WillBeDeleted(R, m)
    BY <1>3, <1>5 DEF MessageComes
  <2>2. session'[me] # "none"
    <3>1. ASSUME session'[me] = "none"
          PROVE  FALSE
      <4>1. messages' = << >> /\ doing' = [t \in Thread |-> Idle]
        BY <3>1 DEF LoginIsWhole, me
      <4>2. Still'
        BY <4>1 DEF Still
      <4>3. ~Listed(m, r)'
        BY <4>1 DEF Listed
      <4> QED
        BY <1>5, <4>2, <4>3, WhatIsHadThen
    <3> QED
      BY <3>1
  <2>3. ~(e.kind = "deleted" /\ e.message = m)
    BY <1>5, <2>2 DEF Reflected
  <2> QED
    BY <2>1, <2>3 DEF WillBeDeleted
<1> QED
  BY <1>3, <1>4, <1>5 DEF MessageComes

LEMMA FirstEventIsTaken ==
  ASSUME NEW R, ReplicaInv(R)', NEW e \in R, \A f \in R : e.at <= f.at,
         session'[me] # "none" => Lines' = {} /\ Reflected(e)',
         NEW Q, Q = R \ {e}
  PROVE  ReplicaInv(Q)'
<1>1. /\ DatabaseTypeOK' /\ RelayTypeOK(R)' /\ NetworkTypeOK' /\ ClientTypeOK' /\ LoginIsWhole'
      /\ OnePlace(R)'
  BY DEF ReplicaInv
<1>2. /\ e \in Event
      /\ \A f \in R : f.at \in Nat /\ f.at > 0 /\ e.at <= f.at /\ (f.at = e.at => f = e)
  <2>1. clock' \in Nat
    BY <1>1 DEF DatabaseTypeOK
  <2> QED
    BY <1>1, <2>1 DEF RelayTypeOK
<1>3. RelayTypeOK(Q)'
  BY <1>1 DEF RelayTypeOK
<1>4. \A r \in Room : RoomIsTold(Q, r)'
  BY <1>2, RoomStaysTold DEF ReplicaInv
<1>5. \A m \in Message : MessageIsTold(Q, m)'
  BY <1>2, MessageStaysTold DEF ReplicaInv
<1>6. OnePlace(Q)'
  <2>1. ASSUME NEW m \in Message, NEW r \in Room, Place(Q, m, r)'
        PROVE  Place(R, m, r)'
    <3>1. Made(Q, m) \subseteq Made(R, m)
      BY DEF Made
    <3> QED
      BY <2>1, <3>1 DEF Place
  <2> QED
    BY <1>1, <2>1 DEF OnePlace
<1>7. ASSUME NEW r \in Room
      PROVE  RoomComes(Q, r)'
  <2>1. RoomIsTold(R, r)' /\ RoomComes(R, r)'
    BY DEF ReplicaInv
  <2> QED
    BY <1>1, <1>2, <2>1, RoomStillComes
<1>8. ASSUME NEW m \in Message, NEW r \in Room
      PROVE  MessageComes(Q, m, r)'
  <2>1. MessageComes(R, m, r)'
    BY DEF ReplicaInv
  <2> QED
    BY <1>1, <1>2, <2>1, MessageStillComes
<1> QED
  BY <1>1, <1>3, <1>4, <1>5, <1>6, <1>7, <1>8 DEF ReplicaInv

-----------------------------------------------------------------------------
(***************************************************************************)
(* Steps that go well                                                      *)
(***************************************************************************)
\* A step of a thread that leaves the client calm: it was, and no other thread is in a
\* handler.
LEMMA Undisturbed ==
  ASSUME NEW t \in Thread, troubles \in Nat, interruptions \in Nat,
         interruptions' = interruptions + Cardinality({u \in Thread \ {t} : Working(u)}),
         troubles' \in {troubles, troubles + 1}
  PROVE  /\ troubles' \in Nat /\ interruptions' \in Nat
         /\ Calm' => /\ Calm /\ troubles' = troubles
                     /\ \A u \in Thread \ {t} : ~Working(u)
<1>1. PICK W : W = {u \in Thread \ {t} : Working(u)}
  OBVIOUS
<1>2. IsFiniteSet(W)
  <2>1. IsFiniteSet({"tcp"}) /\ IsFiniteSet({"udp"})
    BY FS_Singleton
  <2>2. IsFiniteSet({"tcp"} \cup {"udp"})
    BY <2>1, FS_Union
  <2>3. W \in SUBSET ({"tcp"} \cup {"udp"})
    BY <1>1 DEF Thread
  <2> QED
    BY <2>2, <2>3, FS_Subset
<1>3. Cardinality(W) \in Nat
  BY <1>2, FS_CardinalityType
<1>4. interruptions' = interruptions + Cardinality(W)
  BY <1>1
<1>5. troubles' \in Nat /\ interruptions' \in Nat
  BY <1>3, <1>4
<1>6. ASSUME Calm'
      PROVE  /\ Calm /\ troubles' = troubles
             /\ \A u \in Thread \ {t} : ~Working(u)
  <2>1. troubles' = 0 /\ interruptions' = 0
    BY <1>6 DEF Calm
  <2>2. troubles = 0 /\ interruptions = 0 /\ Cardinality(W) = 0
    BY <1>3, <1>4, <2>1
  <2>3. W = {}
    BY <1>2, <2>2, FS_EmptySet
  <2>4. \A u \in Thread \ {t} : ~Working(u)
    BY <1>1, <2>3
  <2> QED
    BY <2>1, <2>2, <2>4 DEF Calm
<1> QED
  BY <1>5, <1>6

LEMMA NoThreadWorks ==
  ASSUME doing \in [Thread -> Step], NEW t \in Thread, doing[t] = Idle,
         \A u \in Thread \ {t} : ~Working(u)
  PROVE  Still
<1>1. ASSUME NEW u \in Thread, u # t
      PROVE  doing[u] = Idle
  <2>1. doing[u] \in Step /\ ~Working(u)
    BY <1>1
  <2>2. doing[u].stage \in {"idle", "append", "search", "pop"}
    BY <2>1, Steps
  <2>3. doing[u].stage = "idle"
    BY <2>1, <2>2 DEF Working
  <2> QED
    BY <2>1, <2>3, Steps
<1> QED
  BY <1>1 DEF Still

LEMMA NothingHappens ==
  ASSUME NEW R, ReplicaInv(R), UNCHANGED <<database, session, tcp, direct, client>>
  PROVE  ReplicaInv(R)'
<1>1. /\ db' = db /\ taken' = taken /\ clock' = clock
      /\ session' = session /\ tcp' = tcp /\ direct' = direct
      /\ rooms' = rooms /\ messages' = messages /\ syncing' = syncing /\ doing' = doing
  BY DEF database, client
<1>2. DatabaseTypeOK' /\ RelayTypeOK(R)' /\ NetworkTypeOK'
  BY <1>1 DEF ReplicaInv, DatabaseTypeOK, RelayTypeOK, NetworkTypeOK
<1>3. ClientTypeOK'
  BY <1>1 DEF ReplicaInv, ClientTypeOK, Working
<1>4. \A r \in Room : RoomIsTold(R, r)'
  BY <1>1 DEF ReplicaInv, RoomIsTold
<1>5. \A m \in Message : MessageIsTold(R, m)'
  BY <1>1 DEF ReplicaInv, MessageIsTold
<1>6. Lines' = Lines /\ \A kind : Comes(kind)' <=> Comes(kind)
  BY <1>1 DEF Lines, Comes
<1>7. LoginIsWhole'
  BY <1>1, <1>6 DEF ReplicaInv, LoginIsWhole, InOrder
<1>8. \A m, r : /\ ComingMessage(m, r)' <=> ComingMessage(m, r)
                /\ Listed(m, r)' <=> Listed(m, r)
                /\ Appending(m, r)' <=> Appending(m, r)
                /\ Deleting(m)' <=> Deleting(m)
  BY <1>1, <1>6 DEF ComingMessage, Listed, Appending, Deleting
<1>9. OnePlace(R)'
  BY <1>1, <1>8 DEF ReplicaInv, OnePlace, Place
<1>10. \A r \in Room : RoomComes(R, r)'
  <2>1. \A r : ComingRoom(r)' = ComingRoom(r)
    BY <1>6 DEF ComingRoom
  <2>2. \A x, r : Fits(R, x, r)' <=> Fits(R, x, r)
    BY <1>1 DEF Fits, _normalize_room
  <2>3. \A l : RoomOf(l)' = RoomOf(l)
    BY DEF RoomOf, _normalize_room
  <2> QED
    BY <1>1, <1>6, <2>1, <2>2, <2>3 DEF ReplicaInv, RoomComes
<1>11. \A m \in Message, r \in Room : MessageComes(R, m, r)'
  <2>1. \A m, r : WillHave(m, r)' <=> WillHave(m, r)
    BY <1>6, <1>8 DEF WillHave, Has
  <2> QED
    BY <1>1, <2>1 DEF ReplicaInv, MessageComes
<1> QED
  BY <1>2, <1>3, <1>4, <1>5, <1>7, <1>9, <1>10, <1>11 DEF ReplicaInv

\* What holds of the events that are left holds of those left in Redis.
LEMMA OfTheRelay ==
  ASSUME NEW Q, relay' = Q, ReplicaInv(Q)'
  PROVE  ReplicaInv(relay)'
<1>1. RelayTypeOK(relay)'
  BY DEF ReplicaInv, RelayTypeOK
<1>2. \A r \in Room : RoomIsTold(relay, r)'
  BY DEF ReplicaInv, RoomIsTold, Wholes, Removed, WillGo
<1>3. \A m \in Message : MessageIsTold(relay, m)'
  BY DEF ReplicaInv, MessageIsTold, Made, WillBeDeleted
<1>4. OnePlace(relay)'
  BY DEF ReplicaInv, OnePlace, Place, Made
<1>5. \A r \in Room : RoomComes(relay, r)'
  BY DEF ReplicaInv, RoomComes, Fits, Wholes, Removed, WillGo
<1>6. \A m \in Message, r \in Room : MessageComes(relay, m, r)'
  BY DEF ReplicaInv, MessageComes, Made, WillBeDeleted
<1> QED
  BY <1>1, <1>2, <1>3, <1>4, <1>5, <1>6 DEF ReplicaInv

LEMMA CalmListening ==
  ASSUME CalmInv, _listen_loop
  PROVE  CalmInv'
<1>1. /\ "tcp" \in Thread /\ doing["tcp"] = Idle /\ relay' = relay
      /\ Count("tcp", Late(Head(tcp[me])))
  BY DEF _listen_loop, _dispatch, Thread
<1>2. /\ interruptions' = interruptions + Cardinality({u \in Thread \ {"tcp"} : Working(u)})
      /\ troubles' = IF Late(Head(tcp[me])) THEN troubles + 1 ELSE troubles
  BY <1>1 DEF Count
<1>3. troubles \in Nat /\ interruptions \in Nat
  BY DEF CalmInv
<1>4. troubles' \in {troubles, troubles + 1}
  BY <1>2
<1>5. /\ troubles' \in Nat /\ interruptions' \in Nat
      /\ Calm' => /\ Calm /\ troubles' = troubles
                  /\ \A u \in Thread \ {"tcp"} : ~Working(u)
  BY <1>1, <1>2, <1>3, <1>4, Undisturbed
<1>6. ASSUME Calm'
      PROVE  ReplicaInv(relay)'
  <2>1. PICK R : R = relay
    OBVIOUS
  <2>2. ReplicaInv(R)
    BY <1>5, <1>6, <2>1 DEF CalmInv
  <2>3. Still
    <3>1. doing \in [Thread -> Step]
      BY <2>2 DEF ReplicaInv, ClientTypeOK
    <3> QED
      BY <1>1, <1>5, <1>6, <3>1, NoThreadWorks
  <2>4. Head(tcp[me]).at # 0 => Head(tcp[me]) \in R
    <3>1. ~Late(Head(tcp[me]))
      BY <1>2, <1>3, <1>5, <1>6
    <3> QED
      BY <2>1, <3>1 DEF Late
  <2>5. ReplicaInv(R)'
    BY <2>2, <2>3, <2>4, ListenKeepsInv
  <2> QED
    BY <1>1, <2>1, <2>5, OfTheRelay
<1> QED
  BY <1>5, <1>6 DEF CalmInv

LEMMA CalmReceivingDirect ==
  ASSUME CalmInv, NEW e \in direct, ReceiveDirect(e)
  PROVE  CalmInv'
<1>1. /\ "udp" \in Thread /\ doing["udp"] = Idle /\ relay' = relay /\ _dispatch("udp", e)
      /\ UNCHANGED <<database, session, tcp, direct>>
      /\ Count("udp", Late(e))
  BY DEF ReceiveDirect, _dispatch, Thread, network
<1>2. /\ interruptions' = interruptions + Cardinality({u \in Thread \ {"udp"} : Working(u)})
      /\ troubles' = IF Late(e) THEN troubles + 1 ELSE troubles
  BY <1>1 DEF Count
<1>3. troubles \in Nat /\ interruptions \in Nat
  BY DEF CalmInv
<1>4. troubles' \in {troubles, troubles + 1}
  BY <1>2
<1>5. /\ troubles' \in Nat /\ interruptions' \in Nat
      /\ Calm' => /\ Calm /\ troubles' = troubles
                  /\ \A u \in Thread \ {"udp"} : ~Working(u)
  BY <1>1, <1>2, <1>3, <1>4, Undisturbed
<1>6. ASSUME Calm'
      PROVE  ReplicaInv(relay)'
  <2>1. PICK R : R = relay
    OBVIOUS
  <2>2. ReplicaInv(R)
    BY <1>5, <1>6, <2>1 DEF CalmInv
  <2>3. Still
    <3>1. doing \in [Thread -> Step]
      BY <2>2 DEF ReplicaInv, ClientTypeOK
    <3> QED
      BY <1>1, <1>5, <1>6, <3>1, NoThreadWorks
  <2>4. e \in R
    <3>1. ~Late(e)
      BY <1>2, <1>3, <1>5, <1>6
    <3>2. e.at # 0
      BY <2>2 DEF ReplicaInv, NetworkTypeOK
    <3> QED
      BY <2>1, <3>1, <3>2 DEF Late
  <2>5. session[me] # "none"
    BY <2>2 DEF ReplicaInv, LoginIsWhole
  <2>6. ReplicaInv(R)'
    BY <1>1, <2>2, <2>3, <2>4, <2>5, DatagramKeepsInv
  <2> QED
    BY <1>1, <2>1, <2>6, OfTheRelay
<1> QED
  BY <1>5, <1>6 DEF CalmInv

LEMMA CalmReceivingRelay ==
  ASSUME CalmInv, NEW e \in relay, ReceiveRelay(e)
  PROVE  CalmInv'
<1>1. /\ "udp" \in Thread /\ doing["udp"] = Idle /\ _dispatch("udp", e)
      /\ Registered # {} /\ relay' \in {relay, relay \ {e}}
      /\ UNCHANGED <<database, session, tcp, direct>>
      /\ Count("udp", LoggingIn(me) \/ \E f \in relay : f.at < e.at)
  BY DEF ReceiveRelay, TakeRelay, _dispatch, Thread
<1>2. /\ interruptions' = interruptions + Cardinality({u \in Thread \ {"udp"} : Working(u)})
      /\ troubles' = IF LoggingIn(me) \/ \E f \in relay : f.at < e.at
                     THEN troubles + 1 ELSE troubles
  BY <1>1 DEF Count
<1>3. troubles \in Nat /\ interruptions \in Nat
  BY DEF CalmInv
<1>4. troubles' \in {troubles, troubles + 1}
  BY <1>2
<1>5. /\ troubles' \in Nat /\ interruptions' \in Nat
      /\ Calm' => /\ Calm /\ troubles' = troubles
                  /\ \A u \in Thread \ {"udp"} : ~Working(u)
  BY <1>1, <1>2, <1>3, <1>4, Undisturbed
<1>6. ASSUME Calm'
      PROVE  ReplicaInv(relay)'
  <2>1. PICK R : R = relay
    OBVIOUS
  <2>2. ReplicaInv(R) /\ e \in R
    BY <1>5, <1>6, <2>1 DEF CalmInv
  <2>3. Still
    <3>1. doing \in [Thread -> Step]
      BY <2>2 DEF ReplicaInv, ClientTypeOK
    <3> QED
      BY <1>1, <1>5, <1>6, <3>1, NoThreadWorks
  <2>4. ~LoggingIn(me) /\ \A f \in R : ~(f.at < e.at)
    BY <1>2, <1>3, <1>5, <1>6, <2>1
  <2>5. \A f \in R : e.at <= f.at
    <3>1. \A f \in R : f.at \in Nat
      <4>1. \A f \in R : f \in Event
        BY <2>2 DEF ReplicaInv, RelayTypeOK
      <4> QED
        BY <4>1, EventKinds
    <3> QED
      BY <2>2, <2>4, <3>1
  <2>6. session[me] # "none"
    BY <1>1, Me DEF Registered
  <2>7. Lines = {}
    <3>1. ~Comes("end")
      BY <2>4 DEF Comes, Lines, LoggingIn, ToSet
    <3> QED
      BY <2>2, <3>1 DEF ReplicaInv, LoginIsWhole
  <2>8. ReplicaInv(R)' /\ Reflected(e)' /\ Lines' = {}
    BY <1>1, <2>2, <2>3, <2>6, <2>7, DatagramKeepsInv
  <2>9. CASE relay' = R
    BY <2>8, <2>9, OfTheRelay
  <2>10. CASE relay' = R \ {e}
    <3>1. PICK Q : Q = R \ {e}
      OBVIOUS
    <3>2. ReplicaInv(Q)'
      BY <2>2, <2>5, <2>8, <3>1, FirstEventIsTaken
    <3> QED
      BY <2>10, <3>1, <3>2, OfTheRelay
  <2> QED
    BY <1>1, <2>1, <2>9, <2>10
<1> QED
  BY <1>5, <1>6 DEF CalmInv

LEMMA CalmLosing ==
  ASSUME CalmInv, NEW e \in relay, RelayIsLost(e)
  PROVE  CalmInv'
<1>1. /\ relay' = relay \ {e} /\ interruptions' = interruptions
      /\ troubles' = IF TooEarly(e) THEN troubles ELSE troubles + 1
      /\ UNCHANGED <<database, session, tcp, direct, client>>
  BY DEF RelayIsLost, LoseRelay
<1>2. troubles \in Nat /\ interruptions \in Nat
  BY DEF CalmInv
<1>3. troubles' \in Nat /\ interruptions' \in Nat
  BY <1>1, <1>2
<1>4. ASSUME Calm'
      PROVE  ReplicaInv(relay)'
  <2>1. PICK R : R = relay
    OBVIOUS
  <2>2. Calm /\ TooEarly(e)
    BY <1>1, <1>2, <1>4 DEF Calm
  <2>3. ReplicaInv(R) /\ e \in R
    BY <2>1, <2>2 DEF CalmInv
  <2>4. ReplicaInv(R)'
    BY <1>1, <2>3, NothingHappens
  <2>5. \A f \in R : e.at <= f.at
    BY <2>1, <2>2 DEF TooEarly
  <2>6. session'[me] = "none"
    BY <1>1, <2>2, Me DEF TooEarly
  <2>7. PICK Q : Q = R \ {e}
    OBVIOUS
  <2>8. ReplicaInv(Q)'
    BY <2>3, <2>4, <2>5, <2>6, <2>7, FirstEventIsTaken
  <2> QED
    BY <1>1, <2>1, <2>7, <2>8, OfTheRelay
<1> QED
  BY <1>3, <1>4 DEF CalmInv

LEMMA CalmInit == Init => CalmInv
<1> SUFFICES ASSUME Init
             PROVE  CalmInv
  OBVIOUS
<1>1. /\ relay = {} /\ direct = {} /\ clock = 0
      /\ session = [c \in Client |-> "none"] /\ tcp = [c \in Client |-> << >>]
      /\ rooms = << >> /\ messages = << >> /\ syncing = FALSE
      /\ doing = [t \in Thread |-> Idle] /\ troubles = 0 /\ interruptions = 0
  BY DEF Init, EventsInit
<1>2. PICK S \in SUBSET Room :
        /\ db = [rooms |-> [r \in S |-> [users |-> {Coordinator}, requests |-> {}]],
                 messages |-> << >>]
        /\ taken = S
  BY DEF Init, EventsInit
<1>3. PICK R : R = {}
  OBVIOUS
<1>4. me \in Client
  BY Me
<1>5. /\ db.rooms = [r \in S |-> [users |-> {Coordinator}, requests |-> {}]]
      /\ db.messages = << >> /\ DOMAIN << >> = {}
      /\ db \in [rooms : {db.rooms}, messages : {db.messages}]
  BY <1>2
<1>6. session[me] = "none" /\ tcp[me] = << >>
  BY <1>1, <1>4
<1>7. DatabaseTypeOK
  <2>1. [users |-> {Coordinator}, requests |-> {}] \in RoomRecord
    BY ChatEventsAssumption DEF RoomRecord
  <2>2. db.rooms \in [DOMAIN db.rooms -> RoomRecord] /\ DOMAIN db.rooms \subseteq Room
    BY <1>5, <2>1
  <2>3. DOMAIN db.messages = {}
    BY <1>5
  <2>4. db.messages \in [DOMAIN db.messages -> Room] /\ DOMAIN db.messages \subseteq Message
    BY <1>5, <2>3
  <2>5. IsFiniteSet(DOMAIN db.messages)
    BY <2>3, FS_EmptySet
  <2>6. clock \in Nat
    BY <1>1
  <2> QED
    BY <1>5, <2>2, <2>3, <2>4, <2>5, <2>6 DEF DatabaseTypeOK
<1>8. RelayTypeOK(R)
  BY <1>3 DEF RelayTypeOK
<1>9. NetworkTypeOK
  <2>1. session \in [Client -> {"none", "reading", "registered"}]
    BY <1>1
  <2>2. tcp \in [Client -> Seq(Event \cup LoginLine)]
    <3>1. << >> \in Seq(Event \cup LoginLine)
      OBVIOUS
    <3> QED
      BY <1>1, <3>1
  <2>3. DOMAIN tcp[me] = {}
    BY <1>5, <1>6
  <2> QED
    BY <1>1, <2>1, <2>2, <2>3 DEF NetworkTypeOK
<1>10. Still
  BY <1>1 DEF Still
<1>11. DOMAIN rooms = {} /\ DOMAIN messages = {}
  BY <1>1, <1>5
<1>12. ClientTypeOK
  <2>1. \A t \in Thread : doing[t].stage = "idle"
    BY <1>10 DEF Still, Idle
  <2>2. \A t \in Thread : ~Working(t)
    BY <2>1 DEF Working
  <2>3. doing \in [Thread -> Step]
    BY <1>1 DEF Step
  <2>4. rooms \in [DOMAIN rooms -> RoomRecord] /\ messages \in [DOMAIN messages -> Seq(Message)]
    BY <1>1, <1>11
  <2> QED
    BY <1>11, <2>1, <2>2, <2>3, <2>4 DEF ClientTypeOK
<1>13. \A r : Wholes(R, r) = {} /\ ~WillGo(R, r)
  BY <1>3 DEF Wholes, WillGo
<1>14. \A r, n : Removed(R, r, n) = {}
  BY <1>3 DEF Removed
<1>15. \A m : Made(R, m) = {} /\ ~WillBeDeleted(R, m)
  BY <1>3 DEF Made, WillBeDeleted
<1>16. \A r \in Room : RoomIsTold(R, r)
  <2>1. \A r : r \in DOMAIN db.rooms => r \in taken
    BY <1>2, <1>5
  <2> QED
    BY <1>13, <1>14, <2>1 DEF RoomIsTold
<1>17. \A m \in Message : MessageIsTold(R, m)
  BY <1>15 DEF MessageIsTold
<1>18. Lines = {}
  BY <1>6, EmptyList DEF Lines
<1>19. /\ ~Comes("start") /\ ~Comes("end")
       /\ \A r : ComingRoom(r) = {}
       /\ \A m, r : ~ComingMessage(m, r)
  BY <1>18 DEF Comes, ComingRoom, ComingMessage
<1>20. LoginIsWhole
  <2>1. InOrder(tcp[me])
    BY <1>5, <1>6 DEF InOrder
  <2> QED
    BY <1>1, <1>6, <1>18, <1>19, <2>1 DEF LoginIsWhole
<1>21. \A m, r : ~Listed(m, r) /\ ~Appending(m, r) /\ ~Has(m, r)
  <2>1. \A m, r : ~Listed(m, r)
    BY <1>11 DEF Listed
  <2> QED
    BY <1>10, <2>1, WhatIsHad
<1>22. OnePlace(R)
  <2>1. \A m, r : ~Place(R, m, r)
    BY <1>5, <1>15, <1>19, <1>21 DEF Place
  <2> QED
    BY <2>1 DEF OnePlace
<1>23. \A r \in Room : RoomComes(R, r)
  BY <1>6, <1>11, <1>19 DEF RoomComes
<1>24. \A m \in Message, r \in Room : MessageComes(R, m, r)
  BY <1>6, <1>19, <1>21 DEF MessageComes, WillHave
<1>25. ReplicaInv(R)
  BY <1>7, <1>8, <1>9, <1>12, <1>16, <1>17, <1>20, <1>22, <1>23, <1>24 DEF ReplicaInv
<1> QED
  BY <1>1, <1>3, <1>25 DEF CalmInv

LEMMA CalmNext == CalmInv /\ [Next]_vars => CalmInv'
<1> SUFFICES ASSUME CalmInv, [Next]_vars
             PROVE  CalmInv'
  OBVIOUS
<1>1. PICK R : R = relay
  OBVIOUS
<1>2. PICK Q : Q = relay'
  OBVIOUS
<1>3. troubles \in Nat /\ interruptions \in Nat /\ (Calm => ReplicaInv(R))
  BY <1>1 DEF CalmInv
<1>4. ASSUME Server, UNCHANGED <<client, troubles, interruptions>>
      PROVE  CalmInv'
  <2>1. ASSUME Calm
        PROVE  ReplicaInv(relay)'
    <3>1. CASE handleRequest
      <4>1. ReplicaInv(Q)'
        BY <1>1, <1>2, <1>3, <1>4, <2>1, <3>1, RequestsKeepInv
      <4> QED
        BY <1>2, <4>1, OfTheRelay
    <3>2. CASE handleAuth(me)
      <4>1. ReplicaInv(R)' /\ relay' = R
        BY <1>1, <1>3, <1>4, <2>1, <3>2, LoginKeepsInv DEF handleAuth
      <4> QED
        BY <4>1, OfTheRelay
    <3>3. CASE shm_register_user(me)
      <4>1. ReplicaInv(R)' /\ relay' = R
        BY <1>1, <1>3, <1>4, <2>1, <3>3, RegistrationKeepsInv DEF shm_register_user
      <4> QED
        BY <4>1, OfTheRelay
    <3> QED
      BY <1>4, <3>1, <3>2, <3>3 DEF Server
  <2>2. Calm' <=> Calm
    BY <1>4 DEF Calm
  <2> QED
    BY <1>3, <1>4, <2>1, <2>2 DEF CalmInv
<1>5. CASE _listen_loop
  BY <1>5, CalmListening
<1>6. ASSUME NEW e \in direct, ReceiveDirect(e)
      PROVE  CalmInv'
  BY <1>6, CalmReceivingDirect
<1>7. ASSUME NEW e \in relay, ReceiveRelay(e) \/ RelayIsLost(e)
      PROVE  CalmInv'
  BY <1>7, CalmReceivingRelay, CalmLosing
<1>8. ASSUME NEW t \in Thread, Continue(t)
      PROVE  CalmInv'
  <2>1. relay' = R /\ troubles' = troubles /\ interruptions' = interruptions
    BY <1>1, <1>8 DEF Continue, network
  <2>2. ASSUME Calm
        PROVE  ReplicaInv(relay)'
    <3>1. ReplicaInv(R)'
      BY <1>3, <1>8, <2>2, ContinueKeepsInv
    <3> QED
      BY <2>1, <3>1, OfTheRelay
  <2>3. Calm' <=> Calm
    BY <2>1 DEF Calm
  <2> QED
    BY <1>3, <2>1, <2>2, <2>3 DEF CalmInv
<1>9. CASE UNCHANGED vars
  <2>1. /\ UNCHANGED <<database, session, tcp, direct, client>>
        /\ relay' = R /\ troubles' = troubles /\ interruptions' = interruptions
    BY <1>1, <1>9 DEF vars, network
  <2>2. ASSUME Calm
        PROVE  ReplicaInv(relay)'
    <3>1. ReplicaInv(R)'
      BY <1>3, <2>1, <2>2, NothingHappens
    <3> QED
      BY <2>1, <3>1, OfTheRelay
  <2>3. Calm' <=> Calm
    BY <2>1 DEF Calm
  <2> QED
    BY <1>3, <2>1, <2>2, <2>3 DEF CalmInv
<1> QED
  BY <1>4, <1>5, <1>6, <1>7, <1>8, <1>9 DEF Next

\* As long as nothing goes wrong, what is yet to come leads to what the database has.
THEOREM Calmness == Spec => []CalmInv
<1> QED
  BY CalmInit, CalmNext, PTL DEF Spec

\* When nothing is left to come, the client shows what the database has.
LEMMA NothingLeft == CalmInv => ReplicaConverges
<1> SUFFICES ASSUME CalmInv, session[me] = "registered", Quiet,
                    troubles = 0, interruptions = 0
             PROVE  /\ DOMAIN rooms = DOMAIN db.rooms
                    /\ \A r \in DOMAIN rooms :
                         /\ rooms[r].users \in {db.rooms[r].users, _normalize_room(db.rooms[r].users)}
                         /\ rooms[r].requests = db.rooms[r].requests
                         /\ ToSet(messages[r]) = In(r)
  BY DEF ReplicaConverges
<1>1. PICK R : R = relay
  OBVIOUS
<1>2. /\ DatabaseTypeOK /\ ClientTypeOK /\ OnePlace(R)
      /\ \A r \in Room : RoomComes(R, r)
      /\ \A m \in Message, r \in Room : MessageComes(R, m, r)
  BY <1>1 DEF CalmInv, Calm, ReplicaInv
<1>3. Still /\ R = {} /\ tcp[me] = << >>
  BY <1>1 DEF Quiet, Still
<1>4. \A r : Wholes(R, r) = {} /\ ~WillGo(R, r) /\ Removed(R, r, 0) = {}
  BY <1>3 DEF Wholes, WillGo, Removed
<1>5. \A m : Made(R, m) = {} /\ ~WillBeDeleted(R, m)
  BY <1>3 DEF Made, WillBeDeleted
<1>6. Lines = {}
  BY <1>3, EmptyList DEF Lines
<1>7. /\ ~Comes("start")
      /\ \A r : ComingRoom(r) = {}
      /\ \A m, r : ~ComingMessage(m, r)
  BY <1>6 DEF Comes, ComingRoom, ComingMessage
<1>8. DOMAIN rooms \subseteq Room /\ DOMAIN db.rooms \subseteq Room
  BY <1>2 DEF ClientTypeOK, DatabaseTypeOK
<1>9. \A r \in Room : r \in DOMAIN rooms <=> r \in DOMAIN db.rooms
  BY <1>2, <1>4, <1>7 DEF RoomComes
<1>10. DOMAIN rooms = DOMAIN db.rooms
  BY <1>8, <1>9
<1>11. ASSUME NEW r \in DOMAIN rooms
       PROVE  /\ rooms[r].users \in {db.rooms[r].users, _normalize_room(db.rooms[r].users)}
              /\ rooms[r].requests = db.rooms[r].requests
              /\ ToSet(messages[r]) = In(r)
  <2>1. r \in Room /\ r \in DOMAIN db.rooms /\ r \in DOMAIN messages
    BY <1>2, <1>8, <1>10 DEF ClientTypeOK
  <2>2. Fits(R, rooms[r], r)
    BY <1>2, <1>4, <1>7, <2>1 DEF RoomComes
  <2>3. /\ rooms[r].users \in {db.rooms[r].users, _normalize_room(db.rooms[r].users)}
        /\ rooms[r].requests = db.rooms[r].requests
    BY <1>4, <2>2 DEF Fits
  <2>4. ASSUME NEW m \in In(r)
        PROVE  m \in ToSet(messages[r])
    <3>1. m \in DOMAIN db.messages /\ db.messages[m] = r /\ m \in Message
      BY <1>2, <2>4 DEF In, DatabaseTypeOK
    <3>2. Has(m, r)
      BY <1>2, <1>5, <1>7, <2>1, <3>1 DEF MessageComes, WillHave
    <3> QED
      BY <1>3, <3>2, WhatIsHad DEF Listed
  <2>5. ASSUME NEW m \in ToSet(messages[r])
        PROVE  m \in In(r)
    <3>1. m \in Message
      BY <1>2, <2>1, <2>5 DEF ClientTypeOK, ToSet
    <3>2. Listed(m, r)
      BY <2>1, <2>5 DEF Listed
    <3>3. WillHave(m, r)
      BY <1>3, <1>7, <3>2, WhatIsHad DEF WillHave
    <3>4. m \in DOMAIN db.messages
      BY <1>2, <1>5, <2>1, <3>1, <3>3 DEF MessageComes
    <3>5. db.messages[m] \in Room
      BY <1>2, <3>4 DEF DatabaseTypeOK
    <3>6. Place(R, m, r) /\ Place(R, m, db.messages[m])
      BY <3>2, <3>4 DEF Place
    <3>7. db.messages[m] = r
      BY <1>2, <2>1, <3>1, <3>5, <3>6 DEF OnePlace
    <3> QED
      BY <3>4, <3>7 DEF In
  <2> QED
    BY <2>3, <2>4, <2>5
<1> QED
  BY <1>10, <1>11

\* What the client shows in the end is what the database has (NetworkClient.ReplicaConverges).
THEOREM Convergence == Spec => []ReplicaConverges
<1> QED
  BY Calmness, NothingLeft, PTL

-----------------------------------------------------------------------------
(***************************************************************************)
(* Damage                                                                  *)
(***************************************************************************)
Pair == [message : Message, room : Room]

\* A message on its way, a message of the database, one that the client keeps, shows or
\* is about to show: always of the same room.
Tells(e, k) ==
  e.kind \in {"message", "MESSAGE"} /\ e.message = k.message /\ e.room = k.room
Travels(k) ==
  \/ \E e \in direct \cup relay : Tells(e, k)
  \/ \E i \in DOMAIN tcp[me] : Tells(tcp[me][i], k)
Stored(k) == k.message \in DOMAIN db.messages /\ db.messages[k.message] = k.room
Shown(k) == Places(k) # {}
Pending(k) ==
  \E t \in Thread :
    doing[t].stage = "append" /\ doing[t].message = k.message /\ doing[t].room = k.room
Known(k) == Travels(k) \/ Stored(k) \/ k \in kept \/ Shown(k) \/ Pending(k)
OneHome ==
  \A k, l \in Pair :
    /\ Known(k) => k.message \in taken
    /\ Known(k) /\ Known(l) /\ k.message = l.message => k = l

\* What a thread is about to change.
Owns(t, k) ==
  \/ /\ doing[t].stage = "append"
     /\ k.message = doing[t].message /\ k.room = doing[t].room
  \/ /\ doing[t].stage = "search"
     /\ k.message = doing[t].message /\ (Shown(k) \/ Pending(k))
  \/ /\ doing[t].stage = "pop"
     /\ k.room = doing[t].room /\ doing[t].index \in Places(k)
Own(t) == {k \in Pair : Owns(t, k)}

\* If it is right afterwards.
RightAfter(t, k) ==
  IF doing[t].stage = "append" THEN k \in kept /\ Places(k) = {}
  ELSE k \notin kept /\ \A i, j \in Places(k) : i = j
Fine(t) == \A k \in Own(t) : RightAfter(t, k)
After(t) == IF Fine(t) THEN Damaged \ Own(t) ELSE Damaged \cup Own(t)

\* An exception cannot stop it.
Sure(t) == doing[t].stage = "search" => doing[t].rooms = Cardinality(DOMAIN messages)

WorksAlone(t) ==
  /\ AtMost(After(t), 2 * interruptions)
  /\ ~Sure(t) => AtMost(Damaged \cup Own(t), 2 * interruptions)
WorkTogether(t, u) ==
  /\ interruptions # 0
  /\ AtMost(After(t) \ Own(u), 2 * (interruptions - 1))

\* A thread that works alone leaves no more damage than its interruptions explain, and one
\* that works together with the other leaves what the last one does not explain.
DamageIsBounded ==
  \A t, u \in Thread : t # u =>
    /\ ~Working(u) => WorksAlone(t)
    /\ Working(t) /\ Working(u) => WorkTogether(t, u)

OnTheWay ==
  /\ tcp \in [Client -> Seq(Event \cup LoginLine)]
  /\ direct \subseteq Event /\ relay \subseteq Event
Lists ==
  /\ DOMAIN messages \subseteq Room
  /\ messages \in [DOMAIN messages -> Seq(Message)]
  /\ kept \subseteq Pair
Threads ==
  /\ doing \in [Thread -> Step \cup {Stopped}]
  /\ \A t \in Thread : doing[t].stage \in {"append", "pop"} => doing[t].room \in DOMAIN messages
  /\ \A t \in Thread : doing[t].stage = "pop" => doing[t].index # 0
RoomsAreTaken == DOMAIN db.rooms \subseteq taken
DamageInv ==
  /\ DatabaseTypeOK /\ RoomsAreTaken /\ OnTheWay /\ Lists /\ Threads
  /\ interruptions \in Nat
  /\ OneHome
  /\ DamageIsBounded

-----------------------------------------------------------------------------
LEMMA TwoThreads ==
  ASSUME NEW t \in Thread
  PROVE  \E u \in Thread : u # t /\ \A v \in Thread : v # t => v = u
  BY DEF Thread

\* A thread that was stopped has nothing in hand.
LEMMA StepsOfThreads ==
  ASSUME NEW s \in Step \cup {Stopped}
  PROVE  /\ s.stage \in {"idle", "stopped", "append", "search", "pop"}
         /\ s.stage = "idle" <=> s = Idle
         /\ s.stage = "append" => s.message \in Message /\ s.room \in Room
         /\ s.stage = "search" => s.message \in Message
         /\ s.stage = "pop" => s.room \in Room /\ s.index \in Nat
  BY DEF Step, Idle, Stopped

\* A message and its room.
LEMMA PairsAreEqual ==
  ASSUME NEW k \in Pair, NEW l \in Pair, k.message = l.message, k.room = l.room
  PROVE  k = l
  BY DEF Pair

LEMMA PlacesType ==
  ASSUME Lists, NEW k \in Pair
  PROVE  /\ Places(k) \subseteq Nat \ {0}
         /\ k.message \in Message /\ k.room \in Room
         /\ Shown(k) => k.room \in DOMAIN messages
<1>1. k.message \in Message /\ k.room \in Room
  BY DEF Pair
<1>2. CASE k.room \in DOMAIN messages
  <2>1. messages[k.room] \in Seq(Message)
    BY <1>2 DEF Lists
  <2>2. DOMAIN messages[k.room] \subseteq Nat \ {0}
    BY <2>1
  <2> QED
    BY <1>1, <1>2, <2>2 DEF Places
<1>3. CASE k.room \notin DOMAIN messages
  BY <1>1, <1>3 DEF Places, Shown
<1> QED
  BY <1>2, <1>3

\* Damage, of one message.
LEMMA WhatIsDamaged ==
  ASSUME NEW k \in Pair
  PROVE  k \in Damaged <=> IF k \in kept THEN ~\E i \in Places(k) : Places(k) = {i}
                           ELSE Places(k) # {}
  BY DEF Damaged, Pair

\* A thread is about to change one message: no message is in two rooms.
LEMMA OwnsOne ==
  ASSUME Lists, Threads, OneHome, NEW t \in Thread, NEW k \in Own(t), NEW l \in Own(t)
  PROVE  k = l
<1>1. k \in Pair /\ l \in Pair /\ Owns(t, k) /\ Owns(t, l)
  BY DEF Own
<1>2. CASE doing[t].stage = "append"
  BY <1>1, <1>2, PairsAreEqual DEF Owns
<1>3. CASE doing[t].stage = "search"
  <2>1. Known(k) /\ Known(l) /\ k.message = l.message
    BY <1>1, <1>3 DEF Owns, Known
  <2> QED
    BY <1>1, <2>1 DEF OneHome
<1>4. CASE doing[t].stage = "pop"
  <2>1. k.room = l.room /\ doing[t].index \in Places(k) /\ doing[t].index \in Places(l)
    BY <1>1, <1>4 DEF Owns
  <2>2. k.message = l.message
    BY <2>1 DEF Places
  <2> QED
    BY <1>1, <2>1, <2>2, PairsAreEqual
<1> QED
  BY <1>1, <1>2, <1>3, <1>4 DEF Owns

\* The same, after a step.
LEMMA OwnsOneThen ==
  ASSUME Lists', Threads', OneHome', NEW t \in Thread, NEW k \in Own(t)', NEW l \in Own(t)'
  PROVE  k = l
<1>1. k \in Pair /\ l \in Pair /\ Owns(t, k)' /\ Owns(t, l)'
  BY DEF Own
<1>2. CASE doing'[t].stage = "append"
  BY <1>1, <1>2, PairsAreEqual DEF Owns
<1>3. CASE doing'[t].stage = "search"
  <2>1. Known(k)' /\ Known(l)' /\ k.message = l.message
    BY <1>1, <1>3 DEF Owns, Known
  <2> QED
    BY <1>1, <2>1 DEF OneHome
<1>4. CASE doing'[t].stage = "pop"
  <2>1. k.room = l.room /\ doing'[t].index \in Places(k)' /\ doing'[t].index \in Places(l)'
    BY <1>1, <1>4 DEF Owns
  <2>2. k.message = l.message
    BY <2>1 DEF Places
  <2> QED
    BY <1>1, <2>1, <2>2, PairsAreEqual
<1> QED
  BY <1>1, <1>2, <1>3, <1>4 DEF Owns

LEMMA IdleOwnsNothing ==
  ASSUME NEW t \in Thread, ~Working(t)
  PROVE  Own(t) = {} /\ After(t) = Damaged
<1>1. Own(t) = {}
  BY DEF Own, Owns, Working
<1> QED
  BY <1>1 DEF After, Fine

-----------------------------------------------------------------------------
(***************************************************************************)
(* What a step does to the bounds                                          *)
(***************************************************************************)
\* A set of at most one element adds one.
LEMMA LittleMore ==
  ASSUME NEW S, NEW n \in Nat, AtMost(S, n), NEW A, \A x, y \in A : x = y,
         NEW T \in SUBSET (S \cup A)
  PROVE  AtMost(T, n + 1)
<1>1. CASE A = {}
  <2>1. T \in SUBSET S /\ n + 1 \in Nat /\ n <= n + 1
    BY <1>1
  <2> QED
    BY <2>1, PartIsBounded
<1>2. CASE A # {}
  <2>1. PICK x : x \in A
    BY <1>2
  <2>2. T \in SUBSET (S \cup {x})
    BY <2>1
  <2> QED
    BY <2>2, OneMoreIsBounded
<1> QED
  BY <1>1, <1>2

LEMMA TwoMore ==
  ASSUME NEW S, NEW n \in Nat, AtMost(S, n), NEW A, \A x, y \in A : x = y,
         NEW B, \A x, y \in B : x = y, NEW T \in SUBSET (S \cup A \cup B)
  PROVE  AtMost(T, n + 2)
<1>1. AtMost(S \cup A, n + 1) /\ n + 1 \in Nat
  BY LittleMore
<1>2. AtMost(T, n + 1 + 1)
  BY <1>1, LittleMore
<1> QED
  BY <1>2

\* What is damaged after the handler, but for what the thread changes, is damaged now.
LEMMA AfterIsNear ==
  ASSUME NEW t \in Thread
  PROVE  /\ Damaged \subseteq After(t) \cup Own(t)
         /\ After(t) \subseteq Damaged \cup Own(t)
         /\ Damaged \ Own(t) \subseteq After(t)
  BY DEF After

\* The thread t comes to the end of a handler.
LEMMA EndKeepsBounds ==
  ASSUME NEW t \in Thread, NEW u \in Thread, t # u, DamageIsBounded, interruptions \in Nat,
         interruptions' = interruptions, Working(t), ~Working(t)', Working(u)' = Working(u),
         \A k, l \in Own(t) : k = l, \A k, l \in Own(u) : k = l,
         \A k, l \in Own(u)' : k = l,
         \/ Damaged' \subseteq After(t)
         \/ ~Sure(t) /\ Damaged' = Damaged /\ Own(u)' = Own(u)
  PROVE  DamageIsBounded'
<1> DEFINE n == 2 * interruptions
<1>1. \A v \in Thread : v = t \/ v = u
  BY DEF Thread
<1>2. n \in Nat /\ Own(t)' = {} /\ After(t)' = Damaged'
  <2>1. Own(t)' = {}
    BY DEF Own, Owns, Working
  <2> QED
    BY <2>1 DEF After, Fine
<1>3. CASE ~Working(u)
  <2>1. AtMost(After(t), n) /\ (~Sure(t) => AtMost(Damaged \cup Own(t), n))
    BY <1>3 DEF DamageIsBounded, WorksAlone
  <2>2. AtMost(Damaged', n)
    <3>1. CASE Damaged' \subseteq After(t)
      BY <1>2, <2>1, <3>1, PartIsBounded
    <3>2. CASE ~Sure(t) /\ Damaged' = Damaged
      <4>1. Damaged' \in SUBSET (Damaged \cup Own(t))
        BY <3>2
      <4> QED
        BY <1>2, <2>1, <3>2, <4>1, PartIsBounded
    <3> QED
      BY <3>1, <3>2
  <2>3. Own(u)' = {} /\ After(u)' = Damaged'
    <3>1. Own(u)' = {}
      BY <1>3 DEF Own, Owns, Working
    <3> QED
      BY <3>1 DEF After, Fine
  <2>4. WorksAlone(t)' /\ WorksAlone(u)'
    BY <1>2, <2>2, <2>3 DEF WorksAlone
  <2> QED
    BY <1>1, <1>3, <2>4 DEF DamageIsBounded
<1>4. CASE Working(u)
  <2>1. interruptions # 0 /\ AtMost(After(t) \ Own(u), 2 * (interruptions - 1))
    BY <1>4 DEF DamageIsBounded, WorkTogether
  <2>2. 2 * (interruptions - 1) \in Nat /\ 2 * (interruptions - 1) + 2 = n
    BY <2>1
  <2>3. AtMost(Damaged' \cup Own(u)', n)
    <3>1. CASE Damaged' \subseteq After(t)
      <4>1. PICK S, A, B, T : /\ S = After(t) \ Own(u) /\ A = Own(u) /\ B = Own(u)'
                              /\ T = Damaged' \cup Own(u)'
        OBVIOUS
      <4>2. PICK m \in Nat : m = 2 * (interruptions - 1)
        BY <2>2
      <4>3. /\ AtMost(S, m) /\ T \in SUBSET (S \cup A \cup B)
            /\ (\A x, y \in A : x = y) /\ (\A x, y \in B : x = y)
        BY <2>1, <3>1, <4>1, <4>2
      <4>4. AtMost(T, m + 2)
        BY <4>3, TwoMore
      <4> QED
        BY <2>2, <4>1, <4>2, <4>4
    <3>2. CASE Damaged' = Damaged /\ Own(u)' = Own(u)
      <4>1. PICK S, A, B, T : /\ S = After(t) \ Own(u) /\ A = Own(t) /\ B = Own(u)
                              /\ T = Damaged' \cup Own(u)'
        OBVIOUS
      <4>2. PICK m \in Nat : m = 2 * (interruptions - 1)
        BY <2>2
      <4>3. /\ AtMost(S, m) /\ T \in SUBSET (S \cup A \cup B)
            /\ (\A x, y \in A : x = y) /\ (\A x, y \in B : x = y)
        BY <2>1, <3>2, AfterIsNear, <4>1, <4>2
      <4>4. AtMost(T, m + 2)
        BY <4>3, TwoMore
      <4> QED
        BY <2>2, <4>1, <4>2, <4>4
    <3> QED
      BY <3>1, <3>2
  <2>4. After(u)' \in SUBSET (Damaged' \cup Own(u)')
    BY DEF After
  <2>5. AtMost(After(u)', n)
    BY <1>2, <2>3, <2>4, PartIsBounded
  <2>6. WorksAlone(u)'
    BY <2>3, <2>5 DEF WorksAlone
  <2> QED
    BY <1>1, <1>4, <2>6 DEF DamageIsBounded
<1> QED
  BY <1>3, <1>4

\* The thread t begins to handle something.
LEMMA BeginKeepsBounds ==
  ASSUME NEW t \in Thread, NEW u \in Thread, t # u, DamageIsBounded, interruptions \in Nat,
         interruptions' = IF Working(u) THEN interruptions + 1 ELSE interruptions,
         ~Working(t), Working(u)' => Working(u),
         \A k, l \in Own(u) : k = l, \A k, l \in Own(u)' : k = l,
         After(t)' \subseteq Damaged, Sure(t)',
         Working(t)' /\ Working(u)' => /\ Own(u) \subseteq Own(u)'
                                       /\ After(u)' \ Own(t)' \subseteq After(u)
  PROVE  DamageIsBounded'
<1> DEFINE n == 2 * interruptions
<1>1. \A v \in Thread : v = t \/ v = u
  BY DEF Thread
<1>2. /\ n \in Nat /\ interruptions' \in Nat
      /\ ~Working(u) => 2 * interruptions' = n
      /\ Working(u) => /\ 2 * interruptions' = n + 2 /\ interruptions' # 0
                       /\ 2 * (interruptions' - 1) = n
  OBVIOUS
<1>3. ~Working(t)' => Damaged' \subseteq Damaged
  <2> SUFFICES ASSUME ~Working(t)'
               PROVE  Damaged' \subseteq Damaged
    OBVIOUS
  <2>1. Own(t)' = {}
    BY DEF Own, Owns, Working
  <2>2. After(t)' = Damaged'
    BY <2>1 DEF After, Fine
  <2> QED
    BY <2>2
<1>4. CASE ~Working(u)
  <2>1. AtMost(Damaged, n)
    <3>1. WorksAlone(t) /\ After(t) = Damaged
      BY <1>4, IdleOwnsNothing DEF DamageIsBounded
    <3> QED
      BY <3>1 DEF WorksAlone
  <2>2. AtMost(After(t)', n)
    BY <1>2, <2>1, PartIsBounded
  <2>3. WorksAlone(t)'
    BY <1>2, <1>4, <2>2 DEF WorksAlone
  <2>4. ASSUME ~Working(t)'
        PROVE  WorksAlone(u)'
    <3>1. Own(u)' = {}
      BY <1>4 DEF Own, Owns, Working
    <3>2. After(u)' = Damaged' /\ Damaged' \cup Own(u)' = Damaged'
      BY <3>1 DEF After, Fine
    <3>3. AtMost(Damaged', n)
      BY <1>2, <1>3, <2>1, <2>4, PartIsBounded
    <3> QED
      BY <1>2, <1>4, <3>2, <3>3 DEF WorksAlone
  <2> QED
    BY <1>1, <1>4, <2>3, <2>4 DEF DamageIsBounded
<1>5. CASE Working(u)
  <2>1. AtMost(After(u), n)
    BY <1>5 DEF DamageIsBounded, WorksAlone
  <2>2. Damaged \subseteq After(u) \cup Own(u)
    BY AfterIsNear
  <2>3. ASSUME ~Working(t)'
        PROVE  WorksAlone(u)'
    <3>1. PICK S, A, B, T : /\ S = After(u) /\ A = Own(u) /\ B = Own(u)'
                            /\ T = Damaged' \cup Own(u)'
      OBVIOUS
    <3>2. PICK m \in Nat : m = n
      BY <1>2
    <3>3. /\ AtMost(S, m) /\ T \in SUBSET (S \cup A \cup B)
          /\ (\A x, y \in A : x = y) /\ (\A x, y \in B : x = y)
      BY <1>3, <2>1, <2>2, <2>3, <3>1, <3>2
    <3>4. AtMost(T, m + 2)
      BY <3>3, TwoMore
    <3>5. AtMost(Damaged' \cup Own(u)', 2 * interruptions')
      BY <1>2, <1>5, <3>1, <3>2, <3>4
    <3>6. After(u)' \in SUBSET (Damaged' \cup Own(u)') /\ 2 * interruptions' \in Nat
      BY <1>2 DEF After
    <3>7. AtMost(After(u)', 2 * interruptions')
      BY <3>5, <3>6, PartIsBounded
    <3> QED
      BY <3>5, <3>7 DEF WorksAlone
  <2>4. WorksAlone(t)'
    <3>1. PICK S, A, T : S = After(u) /\ A = Own(u) /\ T = After(t)'
      OBVIOUS
    <3>2. PICK m \in Nat : m = n
      BY <1>2
    <3>3. /\ AtMost(S, m) /\ T \in SUBSET (S \cup A \cup A) /\ (\A x, y \in A : x = y)
      BY <2>1, <2>2, <3>1, <3>2
    <3>4. AtMost(T, m + 2)
      BY <3>3, TwoMore
    <3> QED
      BY <1>2, <1>5, <3>1, <3>2, <3>4 DEF WorksAlone
  <2>5. ASSUME Working(t)', Working(u)'
        PROVE  WorkTogether(t, u)' /\ WorkTogether(u, t)'
    <3>1. After(t)' \ Own(u)' \in SUBSET After(u) /\ After(u)' \ Own(t)' \in SUBSET After(u)
      <4>1. After(t)' \ Own(u)' \subseteq Damaged \ Own(u)
        BY <2>5
      <4> QED
        BY <2>5, <4>1, AfterIsNear
    <3>2. AtMost(After(t)' \ Own(u)', n) /\ AtMost(After(u)' \ Own(t)', n)
      BY <1>2, <2>1, <3>1, PartIsBounded
    <3> QED
      BY <1>2, <1>5, <3>2 DEF WorkTogether
  <2> QED
    BY <1>1, <1>5, <2>3, <2>4, <2>5 DEF DamageIsBounded
<1> QED
  BY <1>4, <1>5

-----------------------------------------------------------------------------
(***************************************************************************)
(* Places in lists                                                         *)
(***************************************************************************)
PlacesIn(q, m) == {i \in DOMAIN q : q[i] = m}
One(S) == \E i \in S : S = {i}

LEMMA PlacesAreInLists ==
  ASSUME NEW k
  PROVE  /\ k.room \in DOMAIN messages => Places(k) = PlacesIn(messages[k.room], k.message)
         /\ k.room \notin DOMAIN messages => Places(k) = {}
  BY DEF Places, PlacesIn

LEMMA DamagedInPlaces ==
  ASSUME NEW k \in Pair
  PROVE  k \in Damaged <=> IF k \in kept THEN ~One(Places(k)) ELSE Places(k) # {}
  BY WhatIsDamaged DEF One

\* A message more at the end: one place more.
Longer(p, q, m) == p = Append(q, m)

LEMMA PlacesOfLonger ==
  ASSUME NEW q \in Seq(Message), NEW m \in Message, NEW p, Longer(p, q, m)
  PROVE  /\ p \in Seq(Message)
         /\ \A x : x # m => PlacesIn(p, x) = PlacesIn(q, x)
         /\ PlacesIn(q, m) = {} => One(PlacesIn(p, m))
<1> USE DEF Longer
<1>1. /\ p \in Seq(Message) /\ Len(p) = Len(q) + 1 /\ DOMAIN p = 1 .. Len(p)
      /\ DOMAIN q = 1 .. Len(q) /\ Len(q) \in Nat
      /\ \A j \in 1 .. Len(q) : p[j] = q[j]
      /\ p[Len(q) + 1] = m
  OBVIOUS
<1>2. /\ Len(q) + 1 \in DOMAIN p
      /\ \A j : j \in DOMAIN p <=> j \in DOMAIN q \/ j = Len(q) + 1
      /\ \A j \in DOMAIN q : p[j] = q[j]
  BY <1>1
<1>3. \A x : x # m => PlacesIn(p, x) = PlacesIn(q, x)
  BY <1>1, <1>2 DEF PlacesIn
<1>4. Len(q) + 1 \in PlacesIn(p, m)
  BY <1>1, <1>2 DEF PlacesIn
<1>5. PlacesIn(q, m) = {} => PlacesIn(p, m) = {Len(q) + 1}
  BY <1>1, <1>2, <1>4 DEF PlacesIn
<1> QED
  BY <1>1, <1>3, <1>4, <1>5 DEF One

\* A place less: the other messages keep the number of theirs.
LEMMA PlacesWithoutOne ==
  ASSUME NEW q \in Seq(Message), NEW i \in DOMAIN q, NEW p, p = RemoveAt(q, i)
  PROVE  /\ \A x : x # q[i] => /\ PlacesIn(p, x) = {} <=> PlacesIn(q, x) = {}
                               /\ One(PlacesIn(p, x)) <=> One(PlacesIn(q, x))
         /\ \A x : PlacesIn(q, x) = {i} => PlacesIn(p, x) = {}
         /\ \A x : PlacesIn(p, x) # {} => PlacesIn(q, x) # {}
<1>1. i \in Nat
  OBVIOUS
<1>2. /\ \A j \in DOMAIN p : /\ j \in Nat
                             /\ j < i => j \in DOMAIN q /\ p[j] = q[j]
                             /\ j >= i => j + 1 \in DOMAIN q /\ p[j] = q[j + 1]
      /\ \A j \in DOMAIN q : /\ j \in Nat
                             /\ j < i => j \in DOMAIN p
                             /\ j > i => j - 1 \in DOMAIN p
  BY PlacesOfRest
<1> DEFINE up(j) == IF j < i THEN j ELSE j + 1
           down(j) == IF j < i THEN j ELSE j - 1
<1>3. ASSUME NEW x, NEW j \in PlacesIn(p, x)
      PROVE  /\ up(j) \in PlacesIn(q, x) /\ up(j) # i /\ down(up(j)) = j
             /\ j \in Nat
  BY <1>1, <1>2 DEF PlacesIn
<1>4. ASSUME NEW x, NEW j \in PlacesIn(q, x), j # i
      PROVE  down(j) \in PlacesIn(p, x) /\ up(down(j)) = j /\ j \in Nat
  <2>1. CASE j < i
    BY <1>1, <1>2, <2>1 DEF PlacesIn
  <2>2. CASE j > i
    <3>1. j - 1 \in DOMAIN p /\ j - 1 >= i /\ j - 1 + 1 = j /\ j \in Nat /\ q[j] = x
      BY <1>1, <1>2, <2>2 DEF PlacesIn
    <3>2. p[j - 1] = q[j]
      BY <1>2, <3>1
    <3> QED
      BY <1>1, <2>2, <3>1, <3>2 DEF PlacesIn
  <2>3. j \in Nat
    BY <1>2 DEF PlacesIn
  <2> QED
    BY <1>1, <1>4, <2>1, <2>2, <2>3
<1>5. ASSUME NEW x, x # q[i]
      PROVE  \A j \in PlacesIn(q, x) : j # i
  BY <1>5 DEF PlacesIn
<1> HIDE DEF up, down
<1>6. ASSUME NEW x, x # q[i]
      PROVE  /\ PlacesIn(p, x) = {} <=> PlacesIn(q, x) = {}
             /\ One(PlacesIn(p, x)) <=> One(PlacesIn(q, x))
  <2>1. PlacesIn(p, x) = {} <=> PlacesIn(q, x) = {}
    BY <1>3, <1>4, <1>5, <1>6
  <2>2. ASSUME NEW j \in PlacesIn(p, x), PlacesIn(p, x) = {j}
        PROVE  One(PlacesIn(q, x))
    <3>1. up(j) \in PlacesIn(q, x)
      BY <1>3
    <3>2. \A l \in PlacesIn(q, x) : down(l) = j /\ up(down(l)) = l
      BY <1>4, <1>5, <1>6, <2>2
    <3>3. \A l \in PlacesIn(q, x) : l = up(j)
      BY <3>2
    <3> QED
      BY <3>1, <3>3 DEF One
  <2>3. ASSUME NEW j \in PlacesIn(q, x), PlacesIn(q, x) = {j}
        PROVE  One(PlacesIn(p, x))
    <3>1. down(j) \in PlacesIn(p, x)
      BY <1>4, <1>5, <1>6
    <3>2. \A l \in PlacesIn(p, x) : up(l) = j /\ down(up(l)) = l
      BY <1>3, <2>3
    <3>3. \A l \in PlacesIn(p, x) : l = down(j)
      BY <3>2
    <3> QED
      BY <3>1, <3>3 DEF One
  <2> QED
    BY <2>1, <2>2, <2>3 DEF One
<1>7. ASSUME NEW x, PlacesIn(q, x) = {i}
      PROVE  PlacesIn(p, x) = {}
  BY <1>3, <1>7
<1>8. \A x : PlacesIn(p, x) # {} => PlacesIn(q, x) # {}
  BY <1>3
<1> QED
  BY <1>6, <1>7, <1>8

\* SelectInSeq gives the first place.
LEMMA FirstPlace ==
  ASSUME NEW q \in Seq(Message), NEW m, PlacesIn(q, m) # {}
  PROVE  SelectInSeq(q, LAMBDA x : x = m) \in PlacesIn(q, m)
<1> DEFINE I == {i \in 1 .. Len(q) : q[i] = m}
<1>1. I = PlacesIn(q, m) /\ I \in SUBSET Nat /\ I # {}
  BY DEF PlacesIn
<1>2. Min(I) \in I
  <2> HIDE DEF I
  <2>1. \E x \in I : \A y \in I : x <= y
    BY <1>1, SomeIsLeast
  <2> QED
    BY <2>1 DEF Min
<1>3. SelectInSeq(q, LAMBDA x : x = m) = IF I # {} THEN Min(I) ELSE 0
  BY DEF SelectInSeq
<1> QED
  BY <1>1, <1>2, <1>3

-----------------------------------------------------------------------------
(***************************************************************************)
(* Handlers that go on                                                     *)
(***************************************************************************)
\* What the client has of messages is known already.
KnowsNoMore == \A k \in Pair : k \in kept' \/ Shown(k)' \/ Pending(k)' => Known(k)

\* The end of a handler is as foreseen if the rest stays and its own message is right.
LEMMA DamagedAfterAll ==
  ASSUME NEW t \in Thread, kept' = kept,
         \A k \in Pair : IF Owns(t, k) THEN RightAfter(t, k) => k \notin Damaged'
                         ELSE k \in Damaged' => k \in Damaged
  PROVE  Damaged' \subseteq After(t)
<1>1. Damaged' \subseteq Pair
  BY DEF Damaged, Pair
<1>2. CASE Fine(t)
  BY <1>1, <1>2 DEF After, Fine, Own
<1>3. CASE ~Fine(t)
  BY <1>1, <1>3 DEF After, Own
<1> QED
  BY <1>2, <1>3

\* A step of one thread leaves the other where it was.
LEMMA TheOtherGoesOn ==
  ASSUME Threads, NEW t \in Thread, NEW u \in Thread, t # u, NEW x, Goes(t, x)
  PROVE  /\ doing' = [doing EXCEPT ![t] = x] /\ doing'[t] = x /\ doing'[u] = doing[u]
         /\ Working(u)' = Working(u)
<1>1. /\ doing' = [doing EXCEPT ![t] = x] /\ DOMAIN doing = Thread
  BY DEF Goes, Threads
<1>2. doing'[t] = x /\ doing'[u] = doing[u]
  BY <1>1
<1> QED
  BY <1>1, <1>2 DEF Working

LEMMA ThreadsGoOn ==
  ASSUME Threads, NEW t \in Thread, NEW x \in Step \cup {Stopped}, Goes(t, x),
         DOMAIN messages \subseteq DOMAIN messages',
         x.stage \in {"append", "pop"} => x.room \in DOMAIN messages',
         x.stage = "pop" => x.index # 0
  PROVE  Threads'
<1>1. doing' = [doing EXCEPT ![t] = x] /\ doing \in [Thread -> Step \cup {Stopped}]
  BY DEF Goes, Threads
<1>2. \A v \in Thread : doing'[v] = IF v = t THEN x ELSE doing[v]
  BY <1>1
<1>3. doing' \in [Thread -> Step \cup {Stopped}]
  BY <1>1
<1>4. ASSUME NEW v \in Thread
      PROVE  /\ doing'[v].stage \in {"append", "pop"} => doing'[v].room \in DOMAIN messages'
             /\ doing'[v].stage = "pop" => doing'[v].index # 0
  <2>1. CASE v = t
    BY <1>2, <2>1
  <2>2. CASE v # t
    <3>1. doing'[v] = doing[v]
      BY <1>2, <2>2
    <3> QED
      BY <3>1 DEF Threads
  <2> QED
    BY <2>1, <2>2
<1> QED
  BY <1>3, <1>4 DEF Threads

\* The message is there now, and known.
LEMMA AppendGoesOn ==
  ASSUME Lists, Threads, NEW t \in Thread, FinishAppend(t)
  PROVE  /\ Lists' /\ Threads' /\ KnowsNoMore /\ kept' = kept
         /\ Working(t) /\ Goes(t, Idle)
         /\ Damaged' \subseteq After(t)
<1>1. PICK r : r = doing[t].room
  OBVIOUS
<1>2. PICK m : m = doing[t].message
  OBVIOUS
<1>3. /\ doing[t].stage = "append" /\ r \in DOMAIN messages /\ m \in Message /\ r \in Room
      /\ Goes(t, Idle) /\ kept' = kept
  BY <1>1, <1>2, StepsOfThreads DEF FinishAppend, Threads
<1>4. PICK q : q = messages[r]
  OBVIOUS
<1>5. PICK p : p = Append(q, m)
  OBVIOUS
<1>6. messages' = [messages EXCEPT ![r] = p]
  BY <1>1, <1>2, <1>4, <1>5 DEF FinishAppend
<1>7. /\ q \in Seq(Message) /\ messages \in [DOMAIN messages -> Seq(Message)]
      /\ DOMAIN messages \subseteq Room /\ kept \subseteq Pair
  BY <1>3, <1>4 DEF Lists
<1>8. /\ p \in Seq(Message)
      /\ \A x : x # m => PlacesIn(p, x) = PlacesIn(q, x)
      /\ PlacesIn(q, m) = {} => One(PlacesIn(p, m))
  <2>1. q \in Seq(Message) /\ m \in Message /\ Longer(p, q, m)
    BY <1>3, <1>5, <1>7 DEF Longer
  <2> QED
    BY <2>1, PlacesOfLonger
<1>9. DOMAIN messages' = DOMAIN messages /\ messages' \in [DOMAIN messages' -> Seq(Message)]
  BY <1>6, <1>7, <1>8
<1>10. Lists'
  BY <1>3, <1>7, <1>9 DEF Lists
<1>11. Threads'
  <2>1. Idle \in Step \cup {Stopped} /\ Idle.stage = "idle"
    BY DEF Step, Idle
  <2> QED
    BY <1>3, <1>9, <2>1, ThreadsGoOn
<1>12. ASSUME NEW k \in Pair
       PROVE  /\ Owns(t, k) <=> k.message = m /\ k.room = r
              /\ ~Owns(t, k) => Places(k)' = Places(k)
              /\ Owns(t, k) /\ Places(k) = {} => One(Places(k)')
  <2>1. Owns(t, k) <=> k.message = m /\ k.room = r
    BY <1>1, <1>2, <1>3 DEF Owns
  <2>2. CASE k.room = r
    <3>1. Places(k) = PlacesIn(q, k.message)
      BY <1>3, <1>4, <2>2 DEF Places, PlacesIn
    <3>2. Places(k)' = PlacesIn(p, k.message)
      BY <1>3, <1>6, <1>9, <2>2 DEF Places, PlacesIn
    <3> QED
      BY <1>8, <2>1, <2>2, <3>1, <3>2
  <2>3. CASE k.room # r
    <3>1. Places(k)' = Places(k)
      BY <1>6, <1>9, <2>3 DEF Places
    <3> QED
      BY <2>1, <2>3, <3>1
  <2> QED
    BY <2>2, <2>3
<1>13. Damaged' \subseteq After(t)
  <2>1. ASSUME NEW k \in Pair
        PROVE  IF Owns(t, k) THEN RightAfter(t, k) => k \notin Damaged'
               ELSE k \in Damaged' => k \in Damaged
    <3>1. k \in Damaged' <=> IF k \in kept THEN ~One(Places(k)') ELSE Places(k)' # {}
      BY <1>3 DEF Damaged, Pair, One
    <3>2. k \in Damaged <=> IF k \in kept THEN ~One(Places(k)) ELSE Places(k) # {}
      BY DamagedInPlaces
    <3>3. RightAfter(t, k) => k \in kept /\ Places(k) = {}
      BY <1>3 DEF RightAfter
    <3> QED
      BY <1>12, <3>1, <3>2, <3>3
  <2> QED
    BY <1>3, <2>1, DamagedAfterAll
<1>14. KnowsNoMore
  <2> SUFFICES ASSUME NEW k \in Pair, k \in kept' \/ Shown(k)' \/ Pending(k)'
               PROVE  Known(k)
    BY DEF KnowsNoMore
  <2>1. CASE k \in kept'
    BY <1>3, <2>1 DEF Known
  <2>2. CASE Shown(k)'
    <3>1. Owns(t, k) \/ Shown(k)
      BY <1>12, <2>2 DEF Shown
    <3>2. Owns(t, k) => Pending(k)
      BY <1>3 DEF Owns, Pending
    <3> QED
      BY <3>1, <3>2 DEF Known
  <2>3. CASE Pending(k)'
    <3>1. PICK v \in Thread : doing'[v].stage = "append" /\ doing'[v].message = k.message
                              /\ doing'[v].room = k.room
      BY <2>3 DEF Pending
    <3>2. v # t
      <4>1. doing'[t] = Idle
        BY <1>3 DEF Goes, Threads
      <4> QED
        BY <3>1, <4>1 DEF Idle
    <3>3. doing'[v] = doing[v]
      BY <1>3, <3>2 DEF Goes, Threads
    <3> QED
      BY <3>1, <3>3 DEF Known, Pending
  <2> QED
    BY <2>1, <2>2, <2>3
<1> QED
  BY <1>3, <1>10, <1>11, <1>13, <1>14 DEF Working

\* The message at the place is gone, or the place was.
LEMMA PopGoesOn ==
  ASSUME Lists, Threads, NEW t \in Thread, Pop(t)
  PROVE  /\ Lists' /\ Threads' /\ KnowsNoMore /\ kept' = kept
         /\ Working(t) /\ Goes(t, IF doing'[t] = Idle THEN Idle ELSE Stopped)
         /\ Damaged' \subseteq After(t)
<1>1. PICK r : r = doing[t].room
  OBVIOUS
<1>2. PICK i : i = doing[t].index
  OBVIOUS
<1>3. /\ doing[t].stage = "pop" /\ r \in DOMAIN messages /\ i \in Nat /\ i # 0
      /\ r \in Room /\ kept' = kept
  <2>1. doing[t] \in Step \cup {Stopped}
    BY DEF Threads
  <2> QED
    BY <1>1, <1>2, <2>1, StepsOfThreads DEF Pop, Threads
<1>4. PICK q : q = messages[r]
  OBVIOUS
<1>5. /\ q \in Seq(Message) /\ messages \in [DOMAIN messages -> Seq(Message)]
      /\ DOMAIN messages \subseteq Room /\ kept \subseteq Pair
  BY <1>3, <1>4 DEF Lists
<1>6. \A k : Owns(t, k) <=> k.room = r /\ i \in PlacesIn(q, k.message)
  BY <1>1, <1>2, <1>3, <1>4 DEF Owns, Places, PlacesIn
<1>7. DOMAIN doing = Thread /\ Idle # Stopped /\ {Idle, Stopped} \subseteq Step \cup {Stopped}
      /\ Idle.stage = "idle" /\ Stopped.stage = "stopped"
  BY DEF Threads, Step, Idle, Stopped
<1>8. \/ i <= Len(q) /\ messages' = [messages EXCEPT ![r] = RemoveAt(q, i)] /\ Goes(t, Idle)
      \/ ~(i <= Len(q)) /\ messages' = messages /\ Goes(t, Stopped)
  BY <1>1, <1>2, <1>4 DEF Pop, Raise
<1>9. /\ Goes(t, IF doing'[t] = Idle THEN Idle ELSE Stopped)
      /\ doing' = [doing EXCEPT ![t] = Idle] \/ doing' = [doing EXCEPT ![t] = Stopped]
  BY <1>7, <1>8 DEF Goes
<1>10. /\ DOMAIN messages' = DOMAIN messages /\ messages' \in [DOMAIN messages' -> Seq(Message)]
       /\ \A k \in Pair :
            IF Owns(t, k) THEN /\ Places(k) = {i} => Places(k)' = {}
                               /\ Shown(k)
            ELSE /\ Places(k)' = {} <=> Places(k) = {}
                 /\ One(Places(k)') <=> One(Places(k))
  <2>1. CASE i <= Len(q) /\ messages' = [messages EXCEPT ![r] = RemoveAt(q, i)]
    <3>1. i \in DOMAIN q
      BY <1>3, <1>5, <2>1
    <3>2. PICK p : p = RemoveAt(q, i)
      OBVIOUS
    <3>3. p \in Seq(Message)
      BY <1>5, <3>1, <3>2, PlacesOfRest
    <3>4. /\ \A x : x # q[i] => /\ PlacesIn(p, x) = {} <=> PlacesIn(q, x) = {}
                                /\ One(PlacesIn(p, x)) <=> One(PlacesIn(q, x))
          /\ \A x : PlacesIn(q, x) = {i} => PlacesIn(p, x) = {}
      BY <1>5, <3>1, <3>2, PlacesWithoutOne
    <3>5. messages' = [messages EXCEPT ![r] = p]
      BY <2>1, <3>2
    <3>6. DOMAIN messages' = DOMAIN messages /\ messages' \in [DOMAIN messages' -> Seq(Message)]
      BY <1>5, <3>3, <3>5
    <3>7. ASSUME NEW k \in Pair
          PROVE  IF Owns(t, k) THEN (Places(k) = {i} => Places(k)' = {}) /\ Shown(k)
                 ELSE /\ Places(k)' = {} <=> Places(k) = {}
                      /\ One(Places(k)') <=> One(Places(k))
      <4>1. CASE k.room = r
        <5>1. Places(k) = PlacesIn(q, k.message)
          BY <1>3, <1>4, <4>1 DEF Places, PlacesIn
        <5>2. Places(k)' = PlacesIn(p, k.message)
          BY <1>3, <3>5, <3>6, <4>1 DEF Places, PlacesIn
        <5>3. ~Owns(t, k) => k.message # q[i]
          BY <1>6, <3>1, <4>1 DEF PlacesIn
        <5>4. Owns(t, k) => Shown(k)
          BY <1>6, <5>1 DEF Shown
        <5> QED
          BY <3>4, <5>1, <5>2, <5>3, <5>4
      <4>2. CASE k.room # r
        <5>1. Places(k)' = Places(k) /\ ~Owns(t, k)
          BY <1>6, <3>5, <3>6, <4>2 DEF Places
        <5> QED
          BY <5>1
      <4> QED
        BY <4>1, <4>2
    <3> QED
      BY <3>6, <3>7
  <2>2. CASE ~(i <= Len(q)) /\ messages' = messages
    <3>1. \A k \in Pair : Places(k)' = Places(k) /\ ~Owns(t, k)
      <4>1. i \notin DOMAIN q
        BY <1>3, <1>5, <2>2
      <4> QED
        BY <1>6, <2>2, <4>1 DEF Places, PlacesIn
    <3> QED
      BY <1>5, <2>2, <3>1
  <2> QED
    BY <1>8, <2>1, <2>2
<1>11. Lists'
  BY <1>3, <1>5, <1>10 DEF Lists
<1>12. Threads'
  BY <1>7, <1>9, <1>10, ThreadsGoOn
<1>13. Damaged' \subseteq After(t)
  <2>1. ASSUME NEW k \in Pair
        PROVE  IF Owns(t, k) THEN RightAfter(t, k) => k \notin Damaged'
               ELSE k \in Damaged' => k \in Damaged
    <3>1. k \in Damaged' <=> IF k \in kept THEN ~One(Places(k)') ELSE Places(k)' # {}
      BY <1>3 DEF Damaged, Pair, One
    <3>2. k \in Damaged <=> IF k \in kept THEN ~One(Places(k)) ELSE Places(k) # {}
      BY DamagedInPlaces
    <3>3. RightAfter(t, k) => k \notin kept /\ \A x, y \in Places(k) : x = y
      BY <1>3 DEF RightAfter
    <3>4. Owns(t, k) => i \in Places(k)
      BY <1>2, <1>3 DEF Owns
    <3>5. Owns(t, k) /\ RightAfter(t, k) => Places(k) = {i}
      BY <3>3, <3>4
    <3> QED
      BY <1>10, <3>1, <3>2, <3>3, <3>5
  <2> QED
    BY <1>3, <2>1, DamagedAfterAll
<1>14. KnowsNoMore
  <2> SUFFICES ASSUME NEW k \in Pair, k \in kept' \/ Shown(k)' \/ Pending(k)'
               PROVE  Known(k)
    BY DEF KnowsNoMore
  <2>1. CASE k \in kept'
    BY <1>3, <2>1 DEF Known
  <2>2. CASE Shown(k)'
    BY <1>10, <2>2 DEF Known, Shown
  <2>3. CASE Pending(k)'
    <3>1. PICK v \in Thread : doing'[v].stage = "append" /\ doing'[v].message = k.message
                              /\ doing'[v].room = k.room
      BY <2>3 DEF Pending
    <3>2. doing'[v] = doing[v]
      BY <1>7, <1>9, <3>1
    <3> QED
      BY <3>1, <3>2 DEF Known, Pending
  <2> QED
    BY <2>1, <2>2, <2>3
<1> QED
  BY <1>3, <1>9, <1>11, <1>12, <1>13, <1>14 DEF Working

\* The search is over, or finds a place.
LEMMA SearchGoesOn ==
  ASSUME Lists, Threads, OneHome, NEW t \in Thread, Search(t)
  PROVE  /\ Lists' /\ Threads' /\ KnowsNoMore /\ kept' = kept /\ messages' = messages
         /\ Working(t)
         /\ \/ Goes(t, Idle) /\ Damaged' \subseteq After(t)
            \/ Goes(t, Stopped) /\ ~Sure(t)
            \/ \E x : Goes(t, x) /\ x.stage = "pop" /\ Own(t)' = Own(t) /\ After(t)' = After(t)
<1> DEFINE m == doing[t].message
<1>2. doing[t].stage = "search" /\ kept' = kept /\ messages' = messages /\ m \in Message
  <2>1. doing[t] \in Step \cup {Stopped}
    BY DEF Threads
  <2> QED
    BY <2>1, StepsOfThreads DEF Search
<1>3. Lists'
  BY <1>2 DEF Lists
<1>4. \A k : Places(k)' = Places(k)
  BY <1>2 DEF Places
<1>5. Damaged' = Damaged
  BY <1>2, <1>4 DEF Damaged
<1>6. ASSUME NEW x \in Step \cup {Stopped}, Goes(t, x), x.stage \in {"idle", "stopped", "pop"},
             x.stage = "pop" => x.room \in DOMAIN messages /\ x.index # 0
      PROVE  /\ Threads' /\ KnowsNoMore /\ doing'[t] = x
             /\ \A k : Pending(k)' <=> Pending(k)
  <2>1. Threads'
    BY <1>2, <1>6, ThreadsGoOn
  <2>2. doing'[t] = x /\ \A v \in Thread : v # t => doing'[v] = doing[v]
    BY <1>6 DEF Goes, Threads
  <2>3. \A k : Pending(k)' <=> Pending(k)
    BY <1>2, <1>6, <2>2 DEF Pending
  <2>4. KnowsNoMore
    BY <1>2, <1>4, <2>3 DEF KnowsNoMore, Known, Shown
  <2> QED
    BY <2>1, <2>2, <2>3, <2>4
<1>7. CASE Goes(t, Stopped) /\ Cardinality(DOMAIN messages) # doing[t].rooms
  <2>1. Stopped \in Step \cup {Stopped} /\ Stopped.stage = "stopped"
    BY DEF Stopped
  <2> QED
    BY <1>2, <1>3, <1>6, <1>7, <2>1 DEF Sure, Working
<1>8. CASE Goes(t, Idle) /\ \A r \in DOMAIN messages : m \notin ToSet(messages[r])
  <2>1. Idle \in Step \cup {Stopped} /\ Idle.stage = "idle"
    BY DEF Idle, Step
  <2>2. ASSUME NEW k \in Pair, Owns(t, k)
        PROVE  RightAfter(t, k) => k \notin Damaged
    <3>1. k.message = m
      BY <1>2, <2>2 DEF Owns
    <3>2. Places(k) = {}
      BY <1>8, <3>1 DEF Places, ToSet
    <3> QED
      BY <1>2, <3>2, DamagedInPlaces DEF RightAfter
  <2>3. Damaged' \subseteq After(t)
    BY <1>2, <1>5, <2>2, DamagedAfterAll
  <2> QED
    BY <1>2, <1>3, <1>6, <1>8, <2>1, <2>3 DEF Working
<1>9. ASSUME NEW r \in DOMAIN messages, m \in ToSet(messages[r]),
             NEW x, x = [stage |-> "pop", room |-> r,
                         index |-> SelectInSeq(messages[r], LAMBDA y : y = m)],
             Goes(t, x)
      PROVE  /\ Threads' /\ KnowsNoMore
             /\ x.stage = "pop" /\ Own(t)' = Own(t) /\ After(t)' = After(t)
  <2>1. PICK q : q = messages[r]
    OBVIOUS
  <2>2. q \in Seq(Message) /\ r \in Room /\ DOMAIN q \subseteq Nat \ {0}
    <3>1. q \in Seq(Message) /\ r \in Room
      BY <2>1 DEF Lists
    <3> QED
      BY <3>1
  <2>3. PlacesIn(q, m) # {}
    BY <1>9, <2>1 DEF ToSet, PlacesIn
  <2>4. x.index \in PlacesIn(q, m) /\ x.room = r /\ x.stage = "pop"
    BY <1>9, <2>1, <2>2, <2>3, FirstPlace
  <2>5. x.index \in Nat /\ x.index # 0 /\ q[x.index] = m
    BY <2>2, <2>4 DEF PlacesIn
  <2>6. x \in Step
    BY <1>9, <2>2, <2>5 DEF Step
  <2>7. /\ Threads' /\ KnowsNoMore /\ doing'[t] = x
        /\ \A k : Pending(k)' <=> Pending(k)
    BY <1>6, <1>9, <2>4, <2>5, <2>6
  <2>8. PICK h \in Pair : h = [message |-> m, room |-> r]
    BY <1>2, <2>2 DEF Pair
  <2>9. Places(h) = PlacesIn(q, m) /\ Shown(h)
    BY <2>1, <2>3, <2>8 DEF Places, PlacesIn, Shown
  <2>10. Owns(t, h) /\ \A k \in Pair : Owns(t, k) => k = h
    <3>1. Owns(t, h)
      BY <1>2, <2>8, <2>9 DEF Owns
    <3> QED
      BY <3>1, OwnsOne DEF Own
  <2>11. ASSUME NEW k \in Pair
         PROVE  Owns(t, k)' <=> k = h
    <3>1. Owns(t, k)' <=> k.room = r /\ x.index \in Places(k)
      BY <1>4, <2>4, <2>7 DEF Owns
    <3>2. k.room = r => Places(k) = PlacesIn(q, k.message)
      BY <1>9, <2>1 DEF Places, PlacesIn
    <3>3. k.room = r /\ x.index \in Places(k) => k.message = m
      BY <2>5, <3>2 DEF PlacesIn
    <3>4. k.room = r /\ k.message = m => k = h
      BY <2>8 DEF Pair
    <3> QED
      BY <2>4, <2>8, <2>9, <3>1, <3>3, <3>4
  <2>12. Own(t)' = Own(t)
    BY <2>10, <2>11 DEF Own
  <2>13. \A k : RightAfter(t, k)' <=> RightAfter(t, k)
    BY <1>2, <1>4, <2>4, <2>7 DEF RightAfter
  <2>14. After(t)' = After(t)
    BY <1>5, <2>12, <2>13 DEF After, Fine
  <2> QED
    BY <2>4, <2>7, <2>12, <2>14
<1> QED
  <2>1. \/ Goes(t, Stopped) /\ Cardinality(DOMAIN messages) # doing[t].rooms
        \/ \E r \in DOMAIN messages :
             /\ m \in ToSet(messages[r])
             /\ Goes(t, [stage |-> "pop", room |-> r,
                         index |-> SelectInSeq(messages[r], LAMBDA y : y = m)])
        \/ Goes(t, Idle) /\ \A r \in DOMAIN messages : m \notin ToSet(messages[r])
    BY DEF Search, Raise
  <2> QED
    BY <1>2, <1>3, <1>7, <1>8, <1>9, <2>1 DEF Working

-----------------------------------------------------------------------------
(***************************************************************************)
(* Handlers that begin                                                     *)
(***************************************************************************)
\* The foresight of a thread changes with the messages in T only.
LEMMA OthersUntouched ==
  ASSUME NEW u \in Thread, NEW T, \A k, l \in Own(u)' : k = l,
         \A k \in Pair : k \notin T => /\ k \in Damaged' <=> k \in Damaged
                                       /\ Owns(u, k)' <=> Owns(u, k)
                                       /\ RightAfter(u, k)' <=> RightAfter(u, k)
  PROVE  After(u)' \ T \subseteq After(u)
<1>1. Damaged' \subseteq Pair /\ Own(u)' \subseteq Pair
  BY DEF Damaged, Own, Pair
<1>2. \A k \in Pair : k \notin T => (k \in Own(u)' <=> k \in Own(u))
  BY DEF Own
<1> SUFFICES ASSUME NEW k \in After(u)', k \notin T
             PROVE  k \in After(u)
  OBVIOUS
<1>3. k \in Pair
  BY <1>1 DEF After
<1>4. CASE Fine(u)'
  <2>1. k \in Damaged' /\ k \notin Own(u)'
    BY <1>4 DEF After
  <2>2. k \in Damaged /\ k \notin Own(u)
    BY <1>2, <1>3, <2>1
  <2> QED
    BY <2>2 DEF After
<1>5. CASE ~Fine(u)'
  <2>1. PICK l \in Own(u)' : ~RightAfter(u, l)'
    BY <1>5 DEF Fine
  <2>2. CASE l \in T
    <3>1. k \notin Own(u)'
      BY <2>2
    <3>2. k \in Damaged /\ k \notin Own(u)
      BY <1>2, <1>3, <1>5, <3>1 DEF After
    <3> QED
      BY <3>2 DEF After
  <2>3. CASE l \notin T
    <3>1. l \in Own(u) /\ ~RightAfter(u, l)
      BY <1>1, <1>2, <2>1, <2>3
    <3>2. ~Fine(u)
      BY <3>1 DEF Fine
    <3>3. k \in Damaged \/ k \in Own(u)
      BY <1>2, <1>3, <1>5 DEF After
    <3> QED
      BY <3>2, <3>3 DEF After
  <2> QED
    BY <2>2, <2>3
<1> QED
  BY <1>4, <1>5

\* What BeginKeepsBounds asks of a handler, and what it does to the rest.
Begins(t, u) ==
  /\ Working(u)' => Working(u)
  /\ After(t)' \subseteq Damaged /\ Sure(t)'
  /\ Working(t)' /\ Working(u)' => /\ Own(u) \subseteq Own(u)'
                                   /\ After(u)' \ Own(t)' \subseteq After(u)

\* A handler that changes nothing of messages.
LEMMA NothingOfMessages ==
  ASSUME Lists, Threads, NEW t \in Thread, NEW u \in Thread, doing[t] = Idle,
         kept' = kept, doing' = doing, \A k : Places(k)' = Places(k),
         DOMAIN messages \subseteq DOMAIN messages'
  PROVE  Threads' /\ KnowsNoMore /\ Begins(t, u)
<1>1. Damaged' = Damaged
  BY DEF Damaged
<1>2. ~Working(t) /\ ~Working(t)' /\ doing[t].stage = "idle"
  BY DEF Working, Idle
<1>3. Own(t)' = {}
  BY <1>2 DEF Own, Owns, Working
<1>4. After(t)' = Damaged'
  BY <1>3 DEF After, Fine
<1>5. Threads'
  BY DEF Threads
<1>6. \A k : Pending(k)' <=> Pending(k)
  BY DEF Pending
<1>7. KnowsNoMore
  BY <1>6 DEF KnowsNoMore, Known, Shown
<1>8. Sure(t)'
  BY <1>2 DEF Sure
<1>9. Working(u)' => Working(u)
  BY DEF Working
<1> QED
  BY <1>1, <1>2, <1>4, <1>5, <1>7, <1>8, <1>9 DEF Begins

\* A dictionary with one room more, or with a list in place of itself.
LEMMA SamePlacesInMore ==
  ASSUME Lists, NEW r \in Room,
         messages' = With(messages, r, IF r \in DOMAIN messages THEN messages[r] ELSE << >>)
  PROVE  /\ \A k : Places(k)' = Places(k)
         /\ DOMAIN messages' = DOMAIN messages \cup {r}
         /\ messages' \in [DOMAIN messages' -> Seq(Message)]
         /\ DOMAIN messages' \subseteq Room
<1>1. PICK q : q = IF r \in DOMAIN messages THEN messages[r] ELSE << >>
  OBVIOUS
<1>2. messages' = [x \in DOMAIN messages \cup {r} |-> IF x = r THEN q ELSE messages[x]]
  BY <1>1 DEF With
<1>3. DOMAIN messages' = DOMAIN messages \cup {r} /\ DOMAIN messages' \subseteq Room
  BY <1>2 DEF Lists
<1>4. /\ \A x \in DOMAIN messages : messages'[x] = messages[x]
      /\ messages'[r] = q
  BY <1>1, <1>2
<1>5. q \in Seq(Message)
  BY <1>1, EmptyList DEF Lists
<1>6. messages' \in [DOMAIN messages' -> Seq(Message)]
  BY <1>2, <1>5 DEF Lists
<1>7. r \notin DOMAIN messages => DOMAIN messages'[r] = {}
  BY <1>1, <1>4
<1>8. \A k : Places(k)' = Places(k)
  <2> SUFFICES ASSUME NEW k
               PROVE  Places(k)' = Places(k)
    OBVIOUS
  <2>1. CASE k.room \in DOMAIN messages
    BY <1>3, <1>4, <2>1 DEF Places
  <2>2. CASE k.room \notin DOMAIN messages /\ k.room = r
    BY <1>3, <1>7, <2>2 DEF Places
  <2>3. CASE k.room \notin DOMAIN messages /\ k.room # r
    BY <1>3, <2>3 DEF Places
  <2> QED
    BY <2>1, <2>2, <2>3
<1> QED
  BY <1>3, <1>6, <1>8

\* The first half of an append: types, and what is known.
LEMMA MessageIsKnown ==
  ASSUME Lists, Threads, NEW t \in Thread, NEW e, NEW k0 \in Pair, Tells(e, k0), Known(k0),
         doing[t] = Idle, _append_message_once(t, e)
  PROVE  /\ Lists' /\ Threads' /\ KnowsNoMore /\ kept' = kept \cup {k0}
         /\ \A k : Places(k)' = Places(k)
         /\ \/ doing' = doing /\ Places(k0) # {}
            \/ /\ Goes(t, [stage |-> "append", message |-> e.message, room |-> e.room])
               /\ Places(k0) = {}
<1>1. /\ k0.message \in Message /\ k0.room \in Room /\ k0 = [message |-> e.message, room |-> e.room]
      /\ e.message = k0.message /\ e.room = k0.room
  BY DEF Tells, Pair
<1>2. PICK r : r = e.room
  OBVIOUS
<1>3. PICK q : q = IF r \in DOMAIN messages THEN messages[r] ELSE << >>
  OBVIOUS
<1>4. PICK x : x = [stage |-> "append", message |-> e.message, room |-> e.room]
  OBVIOUS
<1>5. /\ messages' = With(messages, r, q) /\ kept' = kept \cup {k0}
      /\ \/ e.message \in ToSet(q) /\ doing' = doing
         \/ e.message \notin ToSet(q) /\ Goes(t, x)
  BY <1>1, <1>2, <1>3, <1>4 DEF _append_message_once
<1>6. /\ \A k : Places(k)' = Places(k)
      /\ DOMAIN messages' = DOMAIN messages \cup {r}
      /\ messages' \in [DOMAIN messages' -> Seq(Message)] /\ DOMAIN messages' \subseteq Room
  BY <1>1, <1>2, <1>3, <1>5, SamePlacesInMore
<1>7. Lists'
  BY <1>5, <1>6 DEF Lists
<1>8. e.message \in ToSet(q) <=> Places(k0) # {}
  <2>1. CASE r \in DOMAIN messages
    BY <1>1, <1>2, <1>3, <2>1 DEF Places, ToSet
  <2>2. CASE r \notin DOMAIN messages
    <3>1. ToSet(q) = {}
      BY <1>3, <2>2, EmptyList
    <3> QED
      BY <1>1, <1>2, <2>2, <3>1 DEF Places
  <2> QED
    BY <2>1, <2>2
<1>9. x \in Step \cup {Stopped} /\ x.stage = "append" /\ x.message = k0.message /\ x.room = r
  BY <1>1, <1>2, <1>4 DEF Step
<1>10. Threads'
  <2>1. CASE doing' = doing
    BY <1>6, <2>1 DEF Threads
  <2>2. CASE Goes(t, x)
    BY <1>6, <1>9, <2>2, ThreadsGoOn
  <2> QED
    BY <1>5, <2>1, <2>2
<1>11. ASSUME NEW k \in Pair, Pending(k)'
       PROVE  Pending(k) \/ k = k0
  <2>1. PICK v \in Thread : doing'[v].stage = "append" /\ doing'[v].message = k.message
                            /\ doing'[v].room = k.room
    BY <1>11 DEF Pending
  <2>2. doing'[v] = doing[v] \/ (doing'[v] = x /\ Goes(t, x))
    BY <1>5 DEF Goes, Threads
  <2>3. doing'[v] = x => k = k0
    BY <1>1, <1>2, <1>9, <2>1, PairsAreEqual
  <2> QED
    BY <2>1, <2>2, <2>3 DEF Pending
<1>12. KnowsNoMore
  BY <1>5, <1>6, <1>11 DEF KnowsNoMore, Known, Shown
<1> QED
  BY <1>4, <1>5, <1>6, <1>7, <1>8, <1>10, <1>12

\* The first half of an append: the foresight.
LEMMA MessageBegins ==
  ASSUME Lists, Threads, NEW t \in Thread, NEW u \in Thread, t # u, doing[t] = Idle,
         NEW k0 \in Pair, NEW x, x.stage = "append", x.message = k0.message, x.room = k0.room,
         kept' = kept \cup {k0}, \A k : Places(k)' = Places(k),
         \A k, l \in Own(u)' : k = l,
         \/ doing' = doing /\ Places(k0) # {}
         \/ Goes(t, x) /\ Places(k0) = {}
  PROVE  Begins(t, u)
<1>1. ~Working(t) /\ doing[t].stage = "idle"
  BY DEF Working, Idle
<1>2. ASSUME NEW k \in Pair, k # k0
      PROVE  /\ k \in Damaged' <=> k \in Damaged
             /\ k \in kept' <=> k \in kept
  BY <1>2 DEF Damaged, Pair
<1>3. k0 \in Damaged' <=> ~One(Places(k0))
  BY DEF Damaged, Pair, One
<1>4. CASE doing' = doing /\ Places(k0) # {}
  <2>1. Own(t)' = {}
    BY <1>1, <1>4 DEF Own, Owns, Working
  <2>2. After(t)' = Damaged'
    BY <2>1 DEF After, Fine
  <2>3. k0 \in Damaged' => k0 \in Damaged
    BY <1>3, <1>4, DamagedInPlaces
  <2>4. Damaged' \subseteq Pair
    BY DEF Damaged, Pair
  <2>5. Damaged' \subseteq Damaged
    BY <1>2, <2>3, <2>4
  <2>6. ~Working(t)' /\ Sure(t)' /\ (Working(u)' => Working(u))
    BY <1>1, <1>4 DEF Working, Sure
  <2> QED
    BY <2>2, <2>5, <2>6 DEF Begins
<1>5. CASE Goes(t, x) /\ Places(k0) = {}
  <2>1. doing'[t] = x /\ doing'[u] = doing[u] /\ \A v \in Thread : v = t \/ v = u
    BY <1>5, TheOtherGoesOn DEF Thread
  <2>2. \A k \in Pair : Owns(t, k)' <=> k = k0
    <3>1. \A k \in Pair : Owns(t, k)' <=> k.message = k0.message /\ k.room = k0.room
      BY <2>1 DEF Owns
    <3> QED
      BY <3>1, PairsAreEqual
  <2>3. Own(t)' = {k0}
    BY <2>2 DEF Own
  <2>4. RightAfter(t, k0)'
    BY <1>5, <2>1 DEF RightAfter
  <2>5. After(t)' = Damaged' \ {k0}
    BY <2>3, <2>4 DEF After, Fine
  <2>6. After(t)' \subseteq Damaged
    <3>1. Damaged' \subseteq Pair
      BY DEF Damaged, Pair
    <3> QED
      BY <1>2, <2>5, <3>1
  <2>7. Sure(t)' /\ (Working(u)' => Working(u))
    BY <2>1 DEF Sure, Working
  <2>8. \A k \in Pair : Pending(k)' <=> Pending(k) \/ k = k0
    <3> SUFFICES ASSUME NEW k \in Pair
                 PROVE  Pending(k)' <=> Pending(k) \/ k = k0
      OBVIOUS
    <3>1. Pending(k) => Pending(k)'
      BY <1>1, <2>1 DEF Pending
    <3>2. k = k0 => Pending(k)'
      BY <2>1 DEF Pending
    <3>3. Pending(k)' => Pending(k) \/ (k.message = k0.message /\ k.room = k0.room)
      BY <2>1 DEF Pending
    <3> QED
      BY <3>1, <3>2, <3>3, PairsAreEqual
  <2>9. \A k \in Pair : Shown(k)' <=> Shown(k)
    BY DEF Shown
  <2>10. Own(u) \subseteq Own(u)'
    BY <2>1, <2>8, <2>9 DEF Own, Owns
  <2>11. ASSUME NEW k \in Pair, k \notin {k0}
         PROVE  /\ k \in Damaged' <=> k \in Damaged
                /\ Owns(u, k)' <=> Owns(u, k)
                /\ RightAfter(u, k)' <=> RightAfter(u, k)
    BY <1>2, <2>1, <2>8, <2>9, <2>11 DEF Owns, RightAfter
  <2>12. After(u)' \ {k0} \subseteq After(u)
    BY <2>11, OthersUntouched
  <2> QED
    BY <2>3, <2>6, <2>7, <2>10, <2>12 DEF Begins
<1> QED
  BY <1>4, <1>5

\* A search begins: types, and what is known.
LEMMA DeletionIsKnown ==
  ASSUME Lists, Threads, NEW t \in Thread, NEW e, e.message \in Message,
         IsFiniteSet(DOMAIN messages), doing[t] = Idle, _on_delete_message_response(t, e)
  PROVE  Lists' /\ Threads' /\ KnowsNoMore
<1>1. PICK x : x = [stage |-> "search", message |-> e.message, rooms |-> Cardinality(DOMAIN messages)]
  OBVIOUS
<1>2. /\ Goes(t, x) /\ messages' = messages /\ kept' \subseteq kept
  BY <1>1 DEF _on_delete_message_response
<1>3. x \in Step /\ x.stage = "search"
  BY <1>1, FS_CardinalityType DEF Step
<1>4. Threads'
  BY <1>2, <1>3, ThreadsGoOn
<1>5. Lists'
  BY <1>2 DEF Lists
<1>6. \A k : Places(k)' = Places(k)
  BY <1>2 DEF Places
<1>7. ASSUME NEW k, Pending(k)'
      PROVE  Pending(k)
  <2>1. PICK v \in Thread : doing'[v].stage = "append" /\ doing'[v].message = k.message
                            /\ doing'[v].room = k.room
    BY <1>7 DEF Pending
  <2>2. doing'[v] = doing[v] \/ doing'[v] = x
    BY <1>2 DEF Goes, Threads
  <2> QED
    BY <1>3, <2>1, <2>2 DEF Pending
<1>8. KnowsNoMore
  BY <1>2, <1>6, <1>7 DEF KnowsNoMore, Known, Shown
<1> QED
  BY <1>4, <1>5, <1>8

\* A search begins: the foresight.
LEMMA DeletionBegins ==
  ASSUME Lists, Threads, NEW t \in Thread, NEW u \in Thread, t # u, doing[t] = Idle, NEW e,
         _on_delete_message_response(t, e),
         \A k, l \in Own(u)' : k = l, \A k, l \in Own(t)' : k = l
  PROVE  Begins(t, u)
<1> DEFINE T == {k \in Pair : k.message = e.message}
<1>1. PICK x : x = [stage |-> "search", message |-> e.message, rooms |-> Cardinality(DOMAIN messages)]
  OBVIOUS
<1>2. /\ Goes(t, x) /\ messages' = messages /\ kept' = {k \in kept : k.message # e.message}
      /\ x.stage = "search" /\ x.message = e.message /\ x.rooms = Cardinality(DOMAIN messages)
  BY <1>1 DEF _on_delete_message_response
<1>3. doing'[t] = x /\ doing'[u] = doing[u] /\ \A v \in Thread : v = t \/ v = u
  BY <1>2, TheOtherGoesOn DEF Thread
<1>4. \A k : Places(k)' = Places(k)
  BY <1>2 DEF Places
<1>5. \A k \in Pair : Shown(k)' <=> Shown(k)
  BY <1>4 DEF Shown
<1>6. \A k \in Pair : Pending(k)' <=> Pending(k)
  <2>1. doing[t].stage = "idle"
    BY DEF Idle
  <2> QED
    BY <1>2, <1>3, <2>1 DEF Pending
<1>7. \A k \in Pair : /\ k \in T => (k \in Damaged' <=> Shown(k)) /\ k \notin kept'
                      /\ k \notin T => /\ k \in Damaged' <=> k \in Damaged
                                       /\ k \in kept' <=> k \in kept
  <2> SUFFICES ASSUME NEW k \in Pair
               PROVE  /\ k \in T => (k \in Damaged' <=> Shown(k)) /\ k \notin kept'
                      /\ k \notin T => /\ k \in Damaged' <=> k \in Damaged
                                       /\ k \in kept' <=> k \in kept
    OBVIOUS
  <2>1. k \in Damaged' <=> IF k \in kept' THEN ~One(Places(k)) ELSE Places(k) # {}
    BY <1>4 DEF Damaged, Pair, One
  <2> QED
    BY <1>2, <2>1, DamagedInPlaces DEF Shown
<1>8. \A k \in Pair : k \in Own(t)' <=> k \in T /\ (Shown(k) \/ Pending(k))
  BY <1>2, <1>3, <1>5, <1>6 DEF Own, Owns
<1>9. Damaged' \subseteq Pair /\ Own(t)' \subseteq Pair /\ Own(u)' \subseteq Pair
  BY DEF Damaged, Pair, Own
<1>10. After(t)' \subseteq Damaged
  <2> SUFFICES ASSUME NEW k \in After(t)'
               PROVE  k \in Damaged
    OBVIOUS
  <2>1. k \in Pair
    BY <1>9 DEF After
  <2>2. CASE Fine(t)'
    <3>1. k \in Damaged' /\ k \notin Own(t)'
      BY <2>2 DEF After
    <3> QED
      BY <1>7, <1>8, <2>1, <3>1
  <2>3. CASE ~Fine(t)'
    <3>1. PICK l \in Own(t)' : ~RightAfter(t, l)'
      BY <2>3 DEF Fine
    <3>2. l \in Pair /\ l \in T
      BY <1>8, <1>9
    <3>3. ~\A i, j \in Places(l) : i = j
      BY <1>2, <1>3, <1>4, <1>7, <3>1, <3>2 DEF RightAfter
    <3>4. ~One(Places(l)) /\ Places(l) # {}
      BY <3>3 DEF One
    <3>5. l \in Damaged
      BY <3>2, <3>4, DamagedInPlaces
    <3>6. k \in Damaged' \/ k \in Own(t)'
      BY <2>3 DEF After
    <3>7. k \in T => k = l
      BY <1>7, <1>8, <2>1, <3>6
    <3> QED
      BY <1>7, <1>8, <2>1, <3>5, <3>6, <3>7
  <2> QED
    BY <2>2, <2>3
<1>11. Sure(t)' /\ (Working(u)' => Working(u))
  BY <1>2, <1>3 DEF Sure, Working
<1>12. Own(u) \subseteq Own(u)'
  BY <1>3, <1>4, <1>5, <1>6 DEF Own, Owns
<1>13. After(u)' \ T \subseteq After(u)
  <2>1. ASSUME NEW k \in Pair, k \notin T
        PROVE  /\ k \in Damaged' <=> k \in Damaged
               /\ Owns(u, k)' <=> Owns(u, k)
               /\ RightAfter(u, k)' <=> RightAfter(u, k)
    BY <1>3, <1>4, <1>5, <1>6, <1>7, <2>1 DEF Owns, RightAfter
  <2> HIDE DEF T
  <2> QED
    BY <2>1, OthersUntouched
<1>14. After(u)' \cap T \subseteq Own(t)'
  <2> SUFFICES ASSUME NEW k \in After(u)', k \in T
               PROVE  k \in Own(t)'
    OBVIOUS
  <2>1. k \in Pair
    OBVIOUS
  <2>2. k \in Damaged' \/ k \in Own(u)'
    BY DEF After
  <2>3. k \in Own(u)' => Shown(k) \/ Pending(k)
    <3>1. Owns(u, k)' => Shown(k)' \/ Pending(k)'
      BY DEF Owns, Shown, Pending
    <3> QED
      BY <1>5, <1>6, <2>1, <3>1 DEF Own
  <2> QED
    BY <1>7, <1>8, <2>1, <2>2, <2>3
<1> QED
  BY <1>10, <1>11, <1>12, <1>13, <1>14 DEF Begins

\* With the room goes all that was damaged in it.
LEMMA GoneBegins ==
  ASSUME Lists, Threads, NEW t \in Thread, NEW u \in Thread, doing[t] = Idle,
         NEW e, e.room \in Room, _on_delete_chatroom_response(e)
  PROVE  Lists' /\ Threads' /\ KnowsNoMore /\ Begins(t, u)
<1>1. PICK r : r = e.room
  OBVIOUS
<1>2. /\ messages' = Without(messages, {r}) /\ kept' = {k \in kept : k.room # r}
      /\ doing' = Detached({r})
  BY <1>1 DEF _on_delete_chatroom_response
<1>3. /\ DOMAIN messages' = DOMAIN messages \ {r}
      /\ \A s \in DOMAIN messages' : messages'[s] = messages[s]
      /\ messages' \in [DOMAIN messages' -> Seq(Message)]
  BY <1>2 DEF Without, Lists
<1>4. Lists'
  BY <1>2, <1>3 DEF Lists
<1>5. \A k : Places(k)' = IF k.room = r THEN {} ELSE Places(k)
  BY <1>3 DEF Places
<1>6. \A v \in Thread : \/ doing'[v] = doing[v]
                        \/ /\ doing'[v] = Idle /\ doing[v].stage \in {"append", "pop"}
                           /\ doing[v].room = r
  BY <1>2 DEF Detached
<1>7. \A v \in Thread : doing'[v].stage \in {"append", "pop"} =>
                          doing'[v] = doing[v] /\ doing[v].room # r
  BY <1>2 DEF Detached, Idle
<1>8. Threads'
  <2>1. Idle \in Step
    BY DEF Step
  <2>2. doing' \in [Thread -> Step \cup {Stopped}]
    BY <1>2, <2>1 DEF Detached, Threads
  <2>3. \A v \in Thread :
          /\ doing'[v].stage \in {"append", "pop"} => doing'[v].room \in DOMAIN messages'
          /\ doing'[v].stage = "pop" => doing'[v].index # 0
    BY <1>3, <1>7 DEF Threads
  <2> QED
    BY <2>2, <2>3 DEF Threads
<1>9. KnowsNoMore
  <2>1. \A k : Pending(k)' => Pending(k)
    BY <1>7 DEF Pending
  <2> QED
    BY <1>2, <1>5, <2>1 DEF KnowsNoMore, Known, Shown
<1>10. doing'[t] = Idle /\ ~Working(t)' /\ Sure(t)'
  BY <1>6 DEF Working, Sure, Idle
<1>11. Working(u)' => Working(u)
  BY <1>6 DEF Working, Idle
<1>12. After(t)' = Damaged'
  <2>1. Own(t)' = {}
    BY <1>10 DEF Own, Owns, Working
  <2> QED
    BY <2>1 DEF After, Fine
<1>13. Damaged' \subseteq Damaged
  BY <1>2, <1>5 DEF Damaged
<1> QED
  BY <1>4, <1>8, <1>9, <1>10, <1>11, <1>12, <1>13 DEF Begins

\* SYNC_START leaves nothing that could be damaged.
LEMMA StartWipes ==
  ASSUME Lists, Threads, interruptions' \in Nat, _on_sync_start
  PROVE  Lists' /\ Threads' /\ KnowsNoMore /\ DamageIsBounded'
<1>1. /\ messages' = << >> /\ kept' = {} /\ DOMAIN messages' = {}
      /\ \A v \in Thread : doing'[v] \in {Idle, Stopped}
      /\ doing' \in [Thread -> {Idle, Stopped}]
  BY DEF _on_sync_start
<1>2. \A v \in Thread : doing'[v].stage \in {"idle", "stopped"}
  BY <1>1 DEF Idle, Stopped
<1>3. Lists'
  <2>1. messages' \in [DOMAIN messages' -> Seq(Message)]
    BY <1>1
  <2> QED
    BY <1>1, <2>1 DEF Lists
<1>4. Threads'
  BY <1>1, <1>2 DEF Threads, Step
<1>5. \A k : Places(k)' = {}
  BY <1>1 DEF Places
<1>6. KnowsNoMore
  BY <1>1, <1>2, <1>5 DEF KnowsNoMore, Shown, Pending
<1>7. Damaged' = {}
  BY <1>1, <1>5 DEF Damaged
<1>8. ASSUME NEW v \in Thread
      PROVE  ~Working(v)' /\ WorksAlone(v)'
  <2>1. ~Working(v)' /\ Own(v)' = {}
    BY <1>2 DEF Own, Owns, Working
  <2>2. After(v)' = {} /\ Damaged' \cup Own(v)' = {}
    BY <1>7, <2>1 DEF After, Fine
  <2>3. AtMost({}, 2 * interruptions')
    BY NothingIsBounded
  <2> QED
    BY <2>1, <2>2, <2>3 DEF WorksAlone
<1>9. DamageIsBounded'
  BY <1>8 DEF DamageIsBounded
<1> QED
  BY <1>3, <1>4, <1>6, <1>9

\* There are two threads: one interruption at a time.
LEMMA Interrupted ==
  ASSUME NEW t \in Thread, NEW u \in Thread, t # u, NEW trouble, Count(t, trouble),
         interruptions \in Nat
  PROVE  interruptions' = IF Working(u) THEN interruptions + 1 ELSE interruptions
<1>1. PICK S : S = {v \in Thread \ {t} : Working(v)}
  OBVIOUS
<1>2. interruptions' = interruptions + Cardinality(S)
  BY <1>1 DEF Count
<1>3. CASE Working(u)
  <2>1. S = {u}
    BY <1>1, <1>3 DEF Thread
  <2>2. Cardinality(S) = 1
    BY <2>1, FS_Singleton
  <2> QED
    BY <1>2, <1>3, <2>2
<1>4. CASE ~Working(u)
  <2>1. S = {}
    BY <1>1, <1>4 DEF Thread
  <2>2. Cardinality(S) = 0
    BY <2>1, FS_EmptySet
  <2> QED
    BY <1>2, <1>4, <2>2
<1> QED
  BY <1>3, <1>4

\* One home each, as long as nothing new is known.
LEMMA HomesStay ==
  ASSUME OneHome, KnowsNoMore, taken \subseteq taken',
         \A k \in Pair : Travels(k)' \/ Stored(k)' => Known(k)
  PROVE  OneHome'
<1>1. \A k \in Pair : Known(k)' => Known(k)
  BY DEF Known, KnowsNoMore
<1> QED
  BY <1>1 DEF OneHome

\* A handler that begins.
LEMMA DispatchKeepsInv ==
  ASSUME Lists, Threads, OneHome, DamageIsBounded, interruptions \in Nat,
         NEW t \in Thread, NEW e \in Event \cup LoginLine, _dispatch(t, e),
         NEW trouble, Count(t, trouble),
         \A k \in Pair : Tells(e, k) => Known(k),
         taken' = taken, db' = db, \A k \in Pair : Travels(k)' => Travels(k)
  PROVE  Lists' /\ Threads' /\ OneHome' /\ DamageIsBounded' /\ interruptions' \in Nat
<1>1. PICK u \in Thread : u # t
  BY TwoThreads
<1>2. interruptions' = IF Working(u) THEN interruptions + 1 ELSE interruptions
  BY <1>1, Interrupted
<1>3. doing[t] = Idle /\ ~Working(t)
  BY DEF _dispatch, Working, Idle
<1>4. interruptions' \in Nat
  BY <1>2
<1>5. \A k \in Pair : Travels(k)' \/ Stored(k)' => Known(k)
  BY DEF Known, Stored
<1>6. ASSUME KnowsNoMore
      PROVE  OneHome'
  BY <1>5, <1>6, HomesStay
<1>7. \A k, l \in Own(u) : k = l
  BY OwnsOne
<1>8. ASSUME Lists', Threads', KnowsNoMore
      PROVE  \A v \in Thread : \A k, l \in Own(v)' : k = l
  <2>1. OneHome'
    BY <1>6, <1>8
  <2> QED
    BY <1>8, <2>1, OwnsOneThen
<1>9. ASSUME Lists', Threads', KnowsNoMore, Begins(t, u)
      PROVE  Lists' /\ Threads' /\ OneHome' /\ DamageIsBounded' /\ interruptions' \in Nat
  <2>1. \A k, l \in Own(u)' : k = l
    BY <1>8, <1>9
  <2>2. DamageIsBounded'
    BY <1>1, <1>2, <1>3, <1>7, <1>9, <2>1, BeginKeepsBounds DEF Begins
  <2> QED
    BY <1>4, <1>6, <1>9, <2>2
<1>10. CASE UNCHANGED <<messages, kept, doing>>
  <2>1. Lists' /\ \A k : Places(k)' = Places(k)
    BY <1>10 DEF Lists, Places
  <2>2. Threads' /\ KnowsNoMore /\ Begins(t, u)
    BY <1>3, <1>10, <2>1, NothingOfMessages
  <2> QED
    BY <1>9, <2>1, <2>2
<1>11. CASE e.room \in Room /\ _upsert_room(e)
  <2>1. /\ messages' = messages \/ messages' = With(messages, e.room,
             IF e.room \in DOMAIN messages THEN messages[e.room] ELSE << >>)
        /\ kept' = kept /\ doing' = doing
    BY <1>11 DEF _upsert_room
  <2>2. /\ Lists' /\ DOMAIN messages \subseteq DOMAIN messages'
        /\ \A k : Places(k)' = Places(k)
    <3>1. CASE messages' = messages
      BY <2>1, <3>1 DEF Lists, Places
    <3>2. CASE messages' = With(messages, e.room,
                 IF e.room \in DOMAIN messages THEN messages[e.room] ELSE << >>)
      BY <1>11, <2>1, <3>2, SamePlacesInMore DEF Lists
    <3> QED
      BY <2>1, <3>1, <3>2
  <2>3. Threads' /\ KnowsNoMore /\ Begins(t, u)
    BY <1>3, <2>1, <2>2, NothingOfMessages
  <2> QED
    BY <1>9, <2>2, <2>3
<1>12. CASE /\ e.room \in Room /\ e.message \in Message /\ e.kind \in {"message", "MESSAGE"}
            /\ _append_message_once(t, e)
  <2>1. PICK k0 \in Pair : k0 = [message |-> e.message, room |-> e.room]
    BY <1>12 DEF Pair
  <2>2. Tells(e, k0) /\ k0.message = e.message /\ k0.room = e.room
    BY <1>12, <2>1 DEF Tells
  <2>3. PICK x : x = [stage |-> "append", message |-> e.message, room |-> e.room]
    OBVIOUS
  <2>4. /\ Lists' /\ Threads' /\ KnowsNoMore /\ kept' = kept \cup {k0}
        /\ \A k : Places(k)' = Places(k)
        /\ \/ doing' = doing /\ Places(k0) # {}
           \/ Goes(t, x) /\ Places(k0) = {}
    BY <1>3, <1>12, <2>2, <2>3, MessageIsKnown
  <2>5. \A k, l \in Own(u)' : k = l
    BY <1>8, <2>4
  <2>6. x.stage = "append" /\ x.message = k0.message /\ x.room = k0.room
    BY <2>2, <2>3
  <2>7. Begins(t, u)
    BY <1>1, <1>3, <2>4, <2>5, <2>6, MessageBegins
  <2> QED
    BY <1>9, <2>4, <2>7
<1>13. CASE e.message \in Message /\ _on_delete_message_response(t, e)
  <2>1. IsFiniteSet(DOMAIN messages)
    BY FS_Subset, ChatEventsAssumption DEF Lists
  <2>2. Lists' /\ Threads' /\ KnowsNoMore
    BY <1>3, <1>13, <2>1, DeletionIsKnown
  <2>3. Begins(t, u)
    BY <1>1, <1>3, <1>8, <1>13, <2>2, DeletionBegins
  <2> QED
    BY <1>9, <2>2, <2>3
<1>14. CASE e.room \in Room /\ _on_delete_chatroom_response(e)
  <2>1. Lists' /\ Threads' /\ KnowsNoMore /\ Begins(t, u)
    BY <1>3, <1>14, GoneBegins
  <2> QED
    BY <1>9, <2>1
<1>15. CASE _on_sync_start
  BY <1>4, <1>6, <1>15, StartWipes
<1>16. \/ UNCHANGED <<messages, kept, doing>>
       \/ e.room \in Room /\ _upsert_room(e)
       \/ /\ e.room \in Room /\ e.message \in Message /\ e.kind \in {"message", "MESSAGE"}
          /\ _append_message_once(t, e)
       \/ e.message \in Message /\ _on_delete_message_response(t, e)
       \/ e.room \in Room /\ _on_delete_chatroom_response(e)
       \/ _on_sync_start
  <2>1. CASE e \in Event
    <3>1. CASE e.kind \in Whole
      BY <2>1, <3>1, EventKinds DEF _dispatch, Whole
    <3>2. CASE e.kind = "removed"
      BY <3>2 DEF _dispatch, _on_remove_user_response
    <3>3. CASE e.kind = "gone"
      BY <2>1, <3>3, EventKinds DEF _dispatch
    <3>4. CASE e.kind = "message"
      BY <2>1, <3>4, EventKinds DEF _dispatch
    <3>5. CASE e.kind = "deleted"
      BY <2>1, <3>5, EventKinds DEF _dispatch
    <3> QED
      BY <2>1, <3>1, <3>2, <3>3, <3>4, <3>5, EventKinds
  <2>2. CASE e \in LoginLine
    <3>1. CASE e.kind = "auth"
      BY <3>1 DEF _dispatch, Ignore, client
    <3>2. CASE e.kind = "start"
      BY <3>2 DEF _dispatch
    <3>3. CASE e.kind = "end"
      BY <3>3 DEF _dispatch, _on_sync_end
    <3>4. CASE e.kind = "CHATROOM"
      BY <2>2, <3>4, LineKinds DEF _dispatch, Ignore, client
    <3>5. CASE e.kind = "MESSAGE"
      BY <2>2, <3>5, LineKinds DEF _dispatch, Ignore, client
    <3> QED
      BY <2>2, <3>1, <3>2, <3>3, <3>4, <3>5, LineKinds
  <2> QED
    BY <2>1, <2>2
<1> QED
  BY <1>10, <1>11, <1>12, <1>13, <1>14, <1>15, <1>16


\* What is not touched is still on its way.
LEMMA SameOnTheWay ==
  ASSUME UNCHANGED network, UNCHANGED database
  PROVE  /\ \A k : Travels(k)' <=> Travels(k)
         /\ \A k : Stored(k)' <=> Stored(k)
<1>1. tcp' = tcp /\ direct' = direct /\ relay' = relay /\ db' = db
  BY DEF network, database
<1> QED
  BY <1>1 DEF Travels, Stored

\* A thread that has found a place goes on to take the message away.
LEMMA FoundKeepsBounds ==
  ASSUME Threads, NEW t \in Thread, NEW x, Goes(t, x), x.stage = "pop", Search(t),
         DamageIsBounded, interruptions' = interruptions,
         Own(t)' = Own(t), After(t)' = After(t)
  PROVE  DamageIsBounded'
<1>1. PICK u \in Thread : u # t /\ \A v \in Thread : v = t \/ v = u
  BY TwoThreads
<1>2. doing'[t] = x /\ doing'[u] = doing[u] /\ (Working(u)' <=> Working(u))
  BY <1>1, TheOtherGoesOn
<1>3. messages' = messages /\ kept' = kept /\ Working(t) /\ Working(t)' /\ Sure(t)'
  BY <1>2 DEF Search, Working, Sure
<1>4. \A k : Places(k)' = Places(k)
  BY <1>3 DEF Places
<1>5. Damaged' = Damaged
  BY <1>3, <1>4 DEF Damaged
<1>6. \A k \in Pair : (Shown(k)' <=> Shown(k)) /\ (Pending(k)' <=> Pending(k))
  <2>1. doing[t].stage = "search"
    BY DEF Search
  <2> QED
    BY <1>1, <1>2, <1>4, <2>1 DEF Shown, Pending
<1>7. Own(u)' = Own(u)
  BY <1>2, <1>4, <1>6 DEF Own, Owns
<1>8. \A k : RightAfter(u, k)' <=> RightAfter(u, k)
  BY <1>2, <1>3, <1>4 DEF RightAfter
<1>9. After(u)' = After(u)
  BY <1>5, <1>7, <1>8 DEF After, Fine
<1>10. WorksAlone(t) => WorksAlone(t)'
  BY <1>3 DEF WorksAlone
<1>11. WorkTogether(t, u) => WorkTogether(t, u)'
  BY <1>7 DEF WorkTogether
<1>12. WorkTogether(u, t) => WorkTogether(u, t)'
  BY <1>9 DEF WorkTogether
<1> QED
  BY <1>1, <1>2, <1>3, <1>10, <1>11, <1>12 DEF DamageIsBounded

\* A handler that goes on.
LEMMA WorkKeepsInv ==
  ASSUME Lists, Threads, OneHome, DamageIsBounded, interruptions \in Nat,
         NEW t \in Thread, FinishAppend(t) \/ Search(t) \/ Pop(t),
         UNCHANGED <<database, network, interruptions>>
  PROVE  Lists' /\ Threads' /\ OneHome' /\ DamageIsBounded'
<1>1. PICK u \in Thread : u # t
  BY TwoThreads
<1>2. ASSUME KnowsNoMore
      PROVE  OneHome'
  <2>1. taken' = taken
    BY DEF database
  <2>2. \A k \in Pair : Travels(k)' \/ Stored(k)' => Known(k)
    BY SameOnTheWay DEF Known
  <2> QED
    BY <1>2, <2>1, <2>2, HomesStay
<1>3. (\A k, l \in Own(t) : k = l) /\ (\A k, l \in Own(u) : k = l)
  BY OwnsOne
<1>4. ASSUME Lists', Threads', KnowsNoMore
      PROVE  \A k, l \in Own(u)' : k = l
  <2>1. OneHome'
    BY <1>2, <1>4
  <2> QED
    BY <1>4, <2>1, OwnsOneThen
<1>5. ASSUME Lists', Threads', KnowsNoMore, Working(t), NEW x, Goes(t, x), x \in {Idle, Stopped},
             \/ Damaged' \subseteq After(t)
             \/ ~Sure(t) /\ Damaged' = Damaged /\ Own(u)' = Own(u)
      PROVE  DamageIsBounded'
  <2>1. doing'[t] = x /\ Working(u)' = Working(u)
    BY <1>1, <1>5, TheOtherGoesOn
  <2>2. ~Working(t)'
    BY <1>5, <2>1 DEF Working, Idle, Stopped
  <2>3. \A k, l \in Own(u)' : k = l
    BY <1>4, <1>5
  <2> QED
    BY <1>1, <1>3, <1>5, <2>1, <2>2, <2>3, EndKeepsBounds
<1>6. CASE FinishAppend(t)
  <2>1. /\ Lists' /\ Threads' /\ KnowsNoMore /\ Working(t) /\ Goes(t, Idle)
        /\ Damaged' \subseteq After(t)
    BY <1>6, AppendGoesOn
  <2> QED
    BY <1>2, <1>5, <2>1
<1>7. CASE Pop(t)
  <2>1. PICK x : x = IF doing'[t] = Idle THEN Idle ELSE Stopped
    OBVIOUS
  <2>2. /\ Lists' /\ Threads' /\ KnowsNoMore /\ Working(t) /\ Goes(t, x)
        /\ Damaged' \subseteq After(t)
    BY <1>7, <2>1, PopGoesOn
  <2> QED
    BY <1>2, <1>5, <2>1, <2>2
<1>8. CASE Search(t)
  <2>1. /\ Lists' /\ Threads' /\ KnowsNoMore /\ kept' = kept /\ messages' = messages /\ Working(t)
        /\ \/ Goes(t, Idle) /\ Damaged' \subseteq After(t)
           \/ Goes(t, Stopped) /\ ~Sure(t)
           \/ \E x : Goes(t, x) /\ x.stage = "pop" /\ Own(t)' = Own(t) /\ After(t)' = After(t)
    BY <1>8, SearchGoesOn
  <2>2. CASE Goes(t, Idle) /\ Damaged' \subseteq After(t)
    BY <1>2, <1>5, <2>1, <2>2
  <2>3. CASE Goes(t, Stopped) /\ ~Sure(t)
    <3>1. doing'[t] = Stopped /\ doing'[u] = doing[u] /\ \A v \in Thread : v = t \/ v = u
      BY <1>1, <2>3, TheOtherGoesOn DEF Thread
    <3>2. \A k : Places(k)' = Places(k)
      BY <2>1 DEF Places
    <3>3. Damaged' = Damaged
      BY <2>1, <3>2 DEF Damaged
    <3>4. \A k \in Pair : (Shown(k)' <=> Shown(k)) /\ (Pending(k)' <=> Pending(k))
      <4>1. doing[t].stage = "search" /\ Stopped.stage = "stopped"
        BY <1>8 DEF Search, Stopped
      <4> QED
        BY <3>1, <3>2, <4>1 DEF Shown, Pending
    <3>5. Own(u)' = Own(u)
      BY <3>1, <3>2, <3>4 DEF Own, Owns
    <3> QED
      BY <1>2, <1>5, <2>1, <2>3, <3>3, <3>5
  <2>4. CASE \E x : Goes(t, x) /\ x.stage = "pop" /\ Own(t)' = Own(t) /\ After(t)' = After(t)
    BY <1>2, <1>8, <2>1, <2>4, FoundKeepsBounds
  <2> QED
    BY <1>2, <2>1, <2>2, <2>3, <2>4
<1> QED
  BY <1>6, <1>7, <1>8


-----------------------------------------------------------------------------
(***************************************************************************)
(* Steps of the servers                                                    *)
(***************************************************************************)
\* A step of the servers changes nothing of what is shown.
LEMMA NothingOfTheClient ==
  ASSUME Lists, Threads, DamageIsBounded, UNCHANGED <<client, interruptions>>
  PROVE  /\ Lists' /\ Threads' /\ DamageIsBounded' /\ kept' = kept
         /\ \A k : (Shown(k)' <=> Shown(k)) /\ (Pending(k)' <=> Pending(k))
<1>1. messages' = messages /\ doing' = doing /\ kept' = kept /\ interruptions' = interruptions
  BY DEF client
<1>2. Lists' /\ Threads'
  BY <1>1 DEF Lists, Threads
<1>3. \A k : Places(k)' = Places(k)
  BY <1>1 DEF Places
<1>4. Damaged' = Damaged
  BY <1>1, <1>3 DEF Damaged
<1>5. \A k : (Shown(k)' <=> Shown(k)) /\ (Pending(k)' <=> Pending(k))
  BY <1>1, <1>3 DEF Shown, Pending
<1>6. \A t \in Thread : Own(t)' = Own(t)
  BY <1>1, <1>3, <1>5 DEF Own, Owns
<1>7. \A t \in Thread : \A k : RightAfter(t, k)' <=> RightAfter(t, k)
  BY <1>1, <1>3 DEF RightAfter
<1>8. \A t \in Thread : After(t)' = After(t)
  BY <1>4, <1>6, <1>7 DEF After, Fine
<1>9. \A t \in Thread : (Working(t)' <=> Working(t)) /\ (Sure(t)' <=> Sure(t))
  BY <1>1 DEF Working, Sure
<1>10. \A t \in Thread : WorksAlone(t) => WorksAlone(t)'
  BY <1>1, <1>4, <1>6, <1>8, <1>9 DEF WorksAlone
<1>11. \A t, u \in Thread : WorkTogether(t, u) => WorkTogether(t, u)'
  BY <1>1, <1>6, <1>8 DEF WorkTogether
<1>12. DamageIsBounded'
  BY <1>9, <1>10, <1>11 DEF DamageIsBounded
<1> QED
  BY <1>1, <1>2, <1>5, <1>12

\* A granted request: K has the message that it makes, if it makes one.
LEMMA GrantKeepsInv ==
  ASSUME DamageInv, UNCHANGED <<client, interruptions>>, NEW e \in Event, on_data_change(e),
         DatabaseTypeOK', RoomsAreTaken', taken \subseteq taken', NEW K,
         \A k, l \in K : k = l, \A k \in K : k.message \notin taken /\ k.message \in taken',
         \A k \in Pair : Tells(e, k) \/ Stored(k)' => Known(k) \/ k \in K
  PROVE  DamageInv'
<1>1. DatabaseTypeOK /\ OnTheWay /\ Lists /\ Threads /\ OneHome /\ DamageIsBounded
      /\ interruptions \in Nat
  BY DEF DamageInv
<1>2. /\ Lists' /\ Threads' /\ DamageIsBounded' /\ kept' = kept
      /\ \A k : (Shown(k)' <=> Shown(k)) /\ (Pending(k)' <=> Pending(k))
  BY <1>1, NothingOfTheClient
<1>3. /\ direct' \in {direct, direct \cup {e}} /\ relay' = relay \cup {e}
      /\ tcp' = tcp \/ tcp' = [tcp EXCEPT ![me] = Append(@, e)]
  <2>1. \A c \in Registered : c = me
    BY Me DEF Registered
  <2> QED
    BY <2>1 DEF on_data_change
<1>4. PICK q \in Seq(Event \cup LoginLine) : q = tcp[me]
  BY <1>1, Me DEF OnTheWay
<1>5. PICK p : p = Append(q, e)
  OBVIOUS
<1>6. /\ p \in Seq(Event \cup LoginLine)
      /\ \A i \in DOMAIN p : p[i] = e \/ (i \in DOMAIN q /\ p[i] = q[i])
  BY <1>4, <1>5
<1>7. tcp' = tcp \/ tcp' = [tcp EXCEPT ![me] = p]
  BY <1>3, <1>4, <1>5
<1>8. /\ tcp' \in [Client -> Seq(Event \cup LoginLine)]
      /\ tcp'[me] = q \/ tcp'[me] = p
  BY <1>1, <1>4, <1>6, <1>7, Me DEF OnTheWay
<1>9. OnTheWay'
  BY <1>1, <1>3, <1>8 DEF OnTheWay
<1>10. \A k \in Pair : Travels(k)' => Travels(k) \/ Tells(e, k)
  <2> SUFFICES ASSUME NEW k \in Pair, Travels(k)'
               PROVE  Travels(k) \/ Tells(e, k)
    OBVIOUS
  <2>1. CASE \E f \in direct' \cup relay' : Tells(f, k)
    BY <1>3, <2>1 DEF Travels
  <2>2. CASE \E i \in DOMAIN tcp'[me] : Tells(tcp'[me][i], k)
    <3>1. PICK i \in DOMAIN tcp'[me] : Tells(tcp'[me][i], k)
      BY <2>2
    <3>2. tcp'[me][i] = e \/ (i \in DOMAIN tcp[me] /\ tcp'[me][i] = tcp[me][i])
      BY <1>4, <1>6, <1>8
    <3> QED
      BY <3>1, <3>2 DEF Travels
  <2> QED
    BY <2>1, <2>2 DEF Travels
<1>11. \A k \in Pair : Known(k)' => Known(k) \/ k \in K
  BY <1>2, <1>10 DEF Known
<1>12. OneHome'
  BY <1>1, <1>11 DEF OneHome
<1>13. interruptions' \in Nat
  BY <1>1
<1> QED
  BY <1>2, <1>9, <1>12, <1>13 DEF DamageInv


\* A granted request that is about a room.
LEMMA RoomGrantKeepsInv ==
  ASSUME DamageInv, UNCHANGED <<client, interruptions>>, NEW e \in Event, on_data_change(e),
         e.kind \notin {"message", "MESSAGE"}, NEW D, NEW F \in [D -> RoomRecord],
         D \subseteq Room, D \subseteq taken', taken \subseteq taken',
         db' = [rooms |-> F, messages |-> db.messages]
  PROVE  DamageInv'
<1>1. DatabaseTypeOK /\ clock' \in Nat
  BY DEF DamageInv, DatabaseTypeOK, on_data_change
<1>2. db.rooms' = F /\ db.messages' = db.messages /\ DOMAIN F = D
  OBVIOUS
<1>3. DatabaseTypeOK' /\ RoomsAreTaken'
  BY <1>1, <1>2 DEF DatabaseTypeOK, RoomsAreTaken
<1>4. PICK K : K = {}
  OBVIOUS
<1>5. /\ \A k, l \in K : k = l
      /\ \A k \in K : k.message \notin taken /\ k.message \in taken'
      /\ \A k \in Pair : Tells(e, k) \/ Stored(k)' => Known(k) \/ k \in K
  BY <1>2, <1>4 DEF Tells, Stored, Known
<1> QED
  BY <1>3, <1>5, GrantKeepsInv

LEMMA ChangeKeepsDamageInv ==
  ASSUME DamageInv, UNCHANGED <<client, interruptions>>,
         NEW kind \in {"added", "requested", "rejected"}, NEW r \in Room, NEW u \in User,
         NEW x \in RoomRecord, r \in DOMAIN db.rooms, ChangeRoom(kind, r, u, x)
  PROVE  DamageInv'
<1>1. PICK e : e = [kind |-> kind, at |-> clock + 1, room |-> r, user |-> u,
                    users |-> x.users, requests |-> x.requests]
  OBVIOUS
<1>2. DatabaseTypeOK /\ clock \in Nat /\ DOMAIN db.rooms \subseteq taken
  BY DEF DamageInv, DatabaseTypeOK, RoomsAreTaken
<1>3. e \in Event /\ e.kind \notin {"message", "MESSAGE"}
  BY <1>1, <1>2 DEF Event, RoomRecord
<1>4. taken' = taken /\ on_data_change(e)
  BY <1>1 DEF ChangeRoom
<1>5. PICK F : F = [db.rooms EXCEPT ![r] = x]
  OBVIOUS
<1>6. PICK D : D = DOMAIN db.rooms
  OBVIOUS
<1>7. db' = [rooms |-> F, messages |-> db.messages]
  BY <1>2, <1>5 DEF ChangeRoom, DatabaseTypeOK
<1>8. F \in [D -> RoomRecord] /\ D \subseteq Room /\ D \subseteq taken'
  BY <1>2, <1>4, <1>5, <1>6 DEF DatabaseTypeOK
<1> QED
  BY <1>3, <1>4, <1>7, <1>8, RoomGrantKeepsInv

LEMMA NewRoomKeepsDamageInv ==
  ASSUME DamageInv, UNCHANGED <<client, interruptions>>, NEW r \in Room, NewRoom(r)
  PROVE  DamageInv'
<1>1. PICK e : e = [kind |-> "created", at |-> clock + 1, room |-> r,
                    users |-> {Coordinator}, requests |-> {}]
  OBVIOUS
<1>2. PICK x : x = [users |-> {Coordinator}, requests |-> {}]
  OBVIOUS
<1>3. DatabaseTypeOK /\ clock \in Nat /\ Coordinator \in User /\ DOMAIN db.rooms \subseteq taken
  BY ChatEventsAssumption DEF DamageInv, DatabaseTypeOK, RoomsAreTaken
<1>4. e \in Event /\ e.kind \notin {"message", "MESSAGE"} /\ x \in RoomRecord
  BY <1>1, <1>2, <1>3 DEF Event, RoomRecord
<1>5. taken' = taken \cup {r} /\ on_data_change(e)
  BY <1>1 DEF NewRoom
<1>6. PICK F : F = With(db.rooms, r, x)
  OBVIOUS
<1>7. PICK D : D = DOMAIN db.rooms \cup {r}
  OBVIOUS
<1>8. db' = [rooms |-> F, messages |-> db.messages]
  BY <1>2, <1>3, <1>6 DEF NewRoom, DatabaseTypeOK
<1>9. F \in [D -> RoomRecord] /\ D \subseteq Room /\ D \subseteq taken'
  BY <1>3, <1>4, <1>5, <1>6, <1>7 DEF DatabaseTypeOK, With
<1> QED
  BY <1>4, <1>5, <1>8, <1>9, RoomGrantKeepsInv

LEMMA RemovalKeepsDamageInv ==
  ASSUME DamageInv, UNCHANGED <<client, interruptions>>, NEW r \in Room, NEW u \in User,
         RemoveUser(r, u)
  PROVE  DamageInv'
<1>1. PICK e : e = [kind |-> "removed", at |-> clock + 1, room |-> r, user |-> u]
  OBVIOUS
<1>2. DatabaseTypeOK /\ clock \in Nat /\ DOMAIN db.rooms \subseteq taken
  BY DEF DamageInv, DatabaseTypeOK, RoomsAreTaken
<1>3. e \in Event /\ e.kind \notin {"message", "MESSAGE"}
  BY <1>1, <1>2 DEF Event
<1>4. taken' = taken /\ on_data_change(e) /\ r \in DOMAIN db.rooms
  BY <1>1 DEF RemoveUser
<1>5. PICK x : x = [db.rooms[r] EXCEPT !.users = @ \ {u}]
  OBVIOUS
<1>6. x \in RoomRecord
  <2>1. db.rooms[r] \in RoomRecord
    BY <1>2, <1>4 DEF DatabaseTypeOK
  <2> QED
    BY <1>5, <2>1 DEF RoomRecord
<1>7. PICK F : F = [db.rooms EXCEPT ![r] = x]
  OBVIOUS
<1>8. PICK D : D = DOMAIN db.rooms
  OBVIOUS
<1>9. db' = [rooms |-> F, messages |-> db.messages]
  BY <1>2, <1>5, <1>7 DEF RemoveUser, DatabaseTypeOK
<1>10. F \in [D -> RoomRecord] /\ D \subseteq Room /\ D \subseteq taken'
  BY <1>2, <1>4, <1>6, <1>7, <1>8 DEF DatabaseTypeOK
<1> QED
  BY <1>3, <1>4, <1>9, <1>10, RoomGrantKeepsInv

LEMMA DeleteRoomKeepsDamageInv ==
  ASSUME DamageInv, UNCHANGED <<client, interruptions>>, NEW r \in Room, DeleteRoom(r)
  PROVE  DamageInv'
<1>1. PICK e : e = [kind |-> "gone", at |-> clock + 1, room |-> r]
  OBVIOUS
<1>2. DatabaseTypeOK /\ clock \in Nat /\ DOMAIN db.rooms \subseteq taken
  BY DEF DamageInv, DatabaseTypeOK, RoomsAreTaken
<1>3. e \in Event /\ e.kind \notin {"message", "MESSAGE"}
  BY <1>1, <1>2 DEF Event
<1>4. taken' = taken /\ on_data_change(e)
  BY <1>1 DEF DeleteRoom
<1>5. PICK F : F = Without(db.rooms, {r})
  OBVIOUS
<1>6. PICK D : D = DOMAIN db.rooms \ {r}
  OBVIOUS
<1>7. db' = [rooms |-> F, messages |-> db.messages]
  BY <1>2, <1>5 DEF DeleteRoom, DatabaseTypeOK
<1>8. F \in [D -> RoomRecord] /\ D \subseteq Room /\ D \subseteq taken'
  BY <1>2, <1>4, <1>5, <1>6 DEF DatabaseTypeOK, Without
<1> QED
  BY <1>3, <1>4, <1>7, <1>8, RoomGrantKeepsInv

\* The message that is made is in no other room: it was never heard of before.
LEMMA NewMessageKeepsDamageInv ==
  ASSUME DamageInv, UNCHANGED <<client, interruptions>>, NEW m \in Message, NEW r \in Room,
         NewMessage(m, r)
  PROVE  DamageInv'
<1>1. PICK e : e = [kind |-> "message", at |-> clock + 1, message |-> m, room |-> r]
  OBVIOUS
<1>2. DatabaseTypeOK /\ clock \in Nat /\ DOMAIN db.rooms \subseteq taken
  BY DEF DamageInv, DatabaseTypeOK, RoomsAreTaken
<1>3. e \in Event /\ e.message = m /\ e.room = r
  BY <1>1, <1>2 DEF Event
<1>4. /\ on_data_change(e) /\ r \in DOMAIN db.rooms /\ m \notin taken
      /\ taken' = taken \cup {m}
  BY <1>1 DEF NewMessage
<1>5. PICK F : F = With(db.messages, m, r)
  OBVIOUS
<1>6. db' = [rooms |-> db.rooms, messages |-> F]
  BY <1>2, <1>5 DEF NewMessage, DatabaseTypeOK
<1>7. /\ F \in [DOMAIN F -> Room] /\ DOMAIN F = DOMAIN db.messages \cup {m} /\ F[m] = r
      /\ \A n \in DOMAIN db.messages \ {m} : F[n] = db.messages[n]
  BY <1>2, <1>5 DEF With, DatabaseTypeOK
<1>8. db.rooms' = db.rooms /\ db.messages' = F
  BY <1>6
<1>9. DatabaseTypeOK' /\ RoomsAreTaken'
  <2>1. IsFiniteSet(DOMAIN F)
    BY <1>2, <1>7, FS_AddElement DEF DatabaseTypeOK
  <2>2. \A n \in DOMAIN F : F[n] \in taken'
    BY <1>2, <1>4, <1>7 DEF DatabaseTypeOK
  <2>3. DOMAIN F \subseteq Message
    BY <1>2, <1>7 DEF DatabaseTypeOK
  <2>4. clock' \in Nat
    BY <1>2, <1>4 DEF on_data_change
  <2> QED
    BY <1>2, <1>4, <1>6, <1>7, <1>8, <2>1, <2>2, <2>3, <2>4 DEF DatabaseTypeOK, RoomsAreTaken
<1>10. PICK k0 \in Pair : k0.message = m /\ k0.room = r
  <2>1. [message |-> m, room |-> r] \in Pair
    BY DEF Pair
  <2> QED
    BY <2>1
<1>11. \A k \in Pair : Tells(e, k) \/ Stored(k)' => Known(k) \/ k \in {k0}
  <2> SUFFICES ASSUME NEW k \in Pair, Tells(e, k) \/ Stored(k)'
               PROVE  Known(k) \/ k = k0
    OBVIOUS
  <2>1. CASE k.message = m
    <3>1. k.room = r
      BY <1>3, <1>7, <1>8, <2>1 DEF Tells, Stored
    <3> QED
      BY <1>10, <2>1, <3>1, PairsAreEqual
  <2>2. CASE k.message # m
    <3>1. Stored(k)
      BY <1>3, <1>7, <1>8, <2>2 DEF Tells, Stored
    <3> QED
      BY <3>1 DEF Known
  <2> QED
    BY <2>1, <2>2
<1>12. PICK K : K = {k0}
  OBVIOUS
<1>13. /\ \A k, l \in K : k = l
       /\ \A k \in K : k.message \notin taken /\ k.message \in taken'
       /\ \A k \in Pair : Tells(e, k) \/ Stored(k)' => Known(k) \/ k \in K
       /\ taken \subseteq taken'
  BY <1>4, <1>10, <1>11, <1>12
<1> QED
  BY <1>3, <1>4, <1>9, <1>13, GrantKeepsInv

LEMMA DeleteMessageKeepsDamageInv ==
  ASSUME DamageInv, UNCHANGED <<client, interruptions>>, NEW m \in Message, DeleteMessage(m)
  PROVE  DamageInv'
<1>1. PICK e : e = [kind |-> "deleted", at |-> clock + 1, message |-> m]
  OBVIOUS
<1>2. DatabaseTypeOK /\ clock \in Nat /\ DOMAIN db.rooms \subseteq taken
  BY DEF DamageInv, DatabaseTypeOK, RoomsAreTaken
<1>3. e \in Event /\ e.kind = "deleted"
  BY <1>1, <1>2 DEF Event
<1>4. on_data_change(e) /\ taken' = taken
  BY <1>1 DEF DeleteMessage
<1>5. PICK F : F = Without(db.messages, {m})
  OBVIOUS
<1>6. db' = [rooms |-> db.rooms, messages |-> F]
  BY <1>2, <1>5 DEF DeleteMessage, DatabaseTypeOK
<1>7. /\ F \in [DOMAIN F -> Room] /\ DOMAIN F = DOMAIN db.messages \ {m}
      /\ \A n \in DOMAIN db.messages \ {m} : F[n] = db.messages[n]
  BY <1>2, <1>5 DEF Without, DatabaseTypeOK
<1>8. db.rooms' = db.rooms /\ db.messages' = F
  BY <1>6
<1>9. DatabaseTypeOK' /\ RoomsAreTaken'
  <2>1. IsFiniteSet(DOMAIN F)
    BY <1>2, <1>7, FS_RemoveElement DEF DatabaseTypeOK
  <2>2. \A n \in DOMAIN F : F[n] \in taken'
    BY <1>2, <1>4, <1>7 DEF DatabaseTypeOK
  <2>3. DOMAIN F \subseteq Message
    BY <1>2, <1>7 DEF DatabaseTypeOK
  <2>4. clock' \in Nat
    BY <1>2, <1>4 DEF on_data_change
  <2> QED
    BY <1>2, <1>4, <1>6, <1>7, <1>8, <2>1, <2>2, <2>3, <2>4 DEF DatabaseTypeOK, RoomsAreTaken
<1>10. PICK K : K = {}
  OBVIOUS
<1>11. /\ taken \subseteq taken'
       /\ \A k, l \in K : k = l
       /\ \A k \in K : k.message \notin taken /\ k.message \in taken'
       /\ \A k \in Pair : Tells(e, k) \/ Stored(k)' => Known(k) \/ k \in K
  BY <1>3, <1>4, <1>7, <1>8, <1>10 DEF Tells, Stored, Known
<1> QED
  BY <1>3, <1>4, <1>9, <1>11, GrantKeepsInv


LEMMA GrantsKeepDamageInv ==
  ASSUME DamageInv, UNCHANGED <<client, interruptions>>, handleRequest
  PROVE  DamageInv'
<1>1. db.rooms \in [DOMAIN db.rooms -> RoomRecord]
  BY DEF DamageInv, DatabaseTypeOK
<1>2. ASSUME NEW r \in Room, NEW u \in User,
             AddUser(r, u) \/ Request(r, u) \/ DeleteRequest(r, u)
      PROVE  DamageInv'
  <2>1. CASE AddUser(r, u)
    <3>1. PICK x : x = [users |-> db.rooms[r].users \cup {u}, requests |-> db.rooms[r].requests \ {u}]
      OBVIOUS
    <3>2. r \in DOMAIN db.rooms /\ ChangeRoom("added", r, u, x)
      BY <2>1, <3>1 DEF AddUser
    <3>3. x \in RoomRecord
      BY <1>1, <3>1, <3>2 DEF RoomRecord
    <3> QED
      BY <3>2, <3>3, ChangeKeepsDamageInv
  <2>2. CASE Request(r, u)
    <3>1. PICK x : x = [db.rooms[r] EXCEPT !.requests = @ \cup ({u} \ db.rooms[r].users)]
      OBVIOUS
    <3>2. r \in DOMAIN db.rooms /\ ChangeRoom("requested", r, u, x)
      BY <2>2, <3>1 DEF Request
    <3>3. x \in RoomRecord
      BY <1>1, <3>1, <3>2 DEF RoomRecord
    <3> QED
      BY <3>2, <3>3, ChangeKeepsDamageInv
  <2>3. CASE DeleteRequest(r, u)
    <3>1. PICK x : x = [db.rooms[r] EXCEPT !.requests = @ \ {u}]
      OBVIOUS
    <3>2. r \in DOMAIN db.rooms /\ ChangeRoom("rejected", r, u, x)
      BY <2>3, <3>1 DEF DeleteRequest
    <3>3. x \in RoomRecord
      BY <1>1, <3>1, <3>2 DEF RoomRecord
    <3> QED
      BY <3>2, <3>3, ChangeKeepsDamageInv
  <2> QED
    BY <1>2, <2>1, <2>2, <2>3
<1> QED
  BY <1>2, NewRoomKeepsDamageInv, DeleteRoomKeepsDamageInv, RemovalKeepsDamageInv,
     NewMessageKeepsDamageInv, DeleteMessageKeepsDamageInv DEF handleRequest

\* The lines of a login tell of messages that are stored.
LEMMA LoginKeepsDamageInv ==
  ASSUME DamageInv, UNCHANGED <<client, interruptions>>, handleAuth(me)
  PROVE  DamageInv'
<1>1. DatabaseTypeOK /\ OnTheWay /\ Lists /\ Threads /\ OneHome /\ DamageIsBounded
  BY DEF DamageInv
<1>2. /\ Lists' /\ Threads' /\ DamageIsBounded' /\ kept' = kept
      /\ \A k : (Shown(k)' <=> Shown(k)) /\ (Pending(k)' <=> Pending(k))
  BY <1>1, NothingOfTheClient
<1>3. db' = db /\ taken' = taken /\ clock' = clock /\ direct' = direct /\ relay' = relay
  BY DEF handleAuth, database
<1>4. PICK q \in Seq(LoginLine) :
        /\ tcp' = [tcp EXCEPT ![me] = q]
        /\ \A l : l \in ToSet(q) <=>
                \/ l \in {Line("auth"), Line("start"), Line("end")}
                \/ \E r \in DOMAIN db.rooms : l = RoomLine(r)
                \/ \E m \in DOMAIN db.messages : l = MessageLine(m)
  BY <1>1, WhatALoginSends
<1>5. q \in Seq(Event \cup LoginLine)
  OBVIOUS
<1>6. tcp' \in [Client -> Seq(Event \cup LoginLine)] /\ tcp'[me] = q
  BY <1>1, <1>4, <1>5, Me DEF OnTheWay
<1>7. OnTheWay'
  BY <1>1, <1>3, <1>6 DEF OnTheWay
<1>8. ASSUME NEW k \in Pair, NEW i \in DOMAIN q, Tells(q[i], k)
      PROVE  Stored(k)
  <2>1. q[i] \in ToSet(q)
    BY DEF ToSet
  <2>2. q[i].kind \in {"message", "MESSAGE"}
    BY <1>8 DEF Tells
  <2>3. PICK m \in DOMAIN db.messages : q[i] = MessageLine(m)
    BY <1>4, <2>1, <2>2 DEF Line, RoomLine
  <2>4. k.message = m /\ k.room = db.messages[m]
    BY <1>8, <2>3 DEF Tells, MessageLine
  <2> QED
    BY <2>4 DEF Stored
<1>9. \A k \in Pair : Travels(k)' \/ Stored(k)' => Known(k)
  BY <1>3, <1>6, <1>8 DEF Travels, Stored, Known
<1>10. KnowsNoMore
  BY <1>2 DEF KnowsNoMore, Known
<1>11. OneHome'
  BY <1>1, <1>3, <1>9, <1>10, HomesStay
<1>12. DatabaseTypeOK' /\ RoomsAreTaken' /\ interruptions' \in Nat
  BY <1>3 DEF DamageInv, DatabaseTypeOK, RoomsAreTaken
<1> QED
  BY <1>2, <1>7, <1>11, <1>12 DEF DamageInv

\* What is unchanged, and what changes nothing but what is on its way.
LEMMA FewerOnTheWay ==
  ASSUME DamageInv, UNCHANGED <<database, client, interruptions>>, OnTheWay',
         \A k \in Pair : Travels(k)' => Travels(k)
  PROVE  DamageInv'
<1>1. DatabaseTypeOK /\ OnTheWay /\ Lists /\ Threads /\ OneHome /\ DamageIsBounded
  BY DEF DamageInv
<1>2. /\ Lists' /\ Threads' /\ DamageIsBounded' /\ kept' = kept
      /\ \A k : (Shown(k)' <=> Shown(k)) /\ (Pending(k)' <=> Pending(k))
  BY <1>1, NothingOfTheClient
<1>3. db' = db /\ taken' = taken /\ clock' = clock
  BY DEF database
<1>4. KnowsNoMore /\ \A k \in Pair : Travels(k)' \/ Stored(k)' => Known(k)
  BY <1>2, <1>3 DEF KnowsNoMore, Known, Stored
<1>5. OneHome'
  BY <1>1, <1>3, <1>4, HomesStay
<1>6. DatabaseTypeOK' /\ RoomsAreTaken' /\ interruptions' \in Nat
  BY <1>3 DEF DamageInv, DatabaseTypeOK, RoomsAreTaken
<1> QED
  BY <1>2, <1>5, <1>6 DEF DamageInv

\* A datagram, or a line, is handled.
LEMMA HandlingKeepsDamageInv ==
  ASSUME DamageInv, UNCHANGED database, OnTheWay', NEW t \in Thread,
         NEW e \in Event \cup LoginLine, _dispatch(t, e), NEW trouble, Count(t, trouble),
         \A k \in Pair : Tells(e, k) => Travels(k), \A k \in Pair : Travels(k)' => Travels(k)
  PROVE  DamageInv'
<1>1. Lists /\ Threads /\ OneHome /\ DamageIsBounded /\ interruptions \in Nat
  BY DEF DamageInv
<1>2. db' = db /\ taken' = taken /\ clock' = clock
  BY DEF database
<1>3. \A k \in Pair : Tells(e, k) => Known(k)
  BY DEF Known
<1>4. Lists' /\ Threads' /\ OneHome' /\ DamageIsBounded' /\ interruptions' \in Nat
  BY <1>1, <1>2, <1>3, DispatchKeepsInv
<1>5. DatabaseTypeOK' /\ RoomsAreTaken'
  BY <1>2 DEF DamageInv, DatabaseTypeOK, RoomsAreTaken
<1> QED
  BY <1>4, <1>5 DEF DamageInv


LEMMA ListeningKeepsDamageInv ==
  ASSUME DamageInv, _listen_loop
  PROVE  DamageInv'
<1>1. OnTheWay
  BY DEF DamageInv
<1>2. PICK q \in Seq(Event \cup LoginLine) : q = tcp[me]
  BY <1>1, Me DEF OnTheWay
<1>3. PICK h : h = Head(q)
  OBVIOUS
<1>4. PICK p : p = Tail(q)
  OBVIOUS
<1>5. /\ q # << >> /\ tcp' = [tcp EXCEPT ![me] = p] /\ direct' = direct /\ relay' = relay
      /\ UNCHANGED database /\ _dispatch("tcp", h) /\ Count("tcp", Late(h))
      /\ "tcp" \in Thread
  BY <1>2, <1>3, <1>4 DEF _listen_loop, Thread
<1>6. /\ h \in Event \cup LoginLine /\ 1 \in DOMAIN q /\ q[1] = h
      /\ p \in Seq(Event \cup LoginLine)
      /\ \A i \in DOMAIN p : i + 1 \in DOMAIN q /\ p[i] = q[i + 1]
  BY <1>3, <1>4, <1>5
<1>7. tcp' \in [Client -> Seq(Event \cup LoginLine)] /\ tcp'[me] = p
  BY <1>1, <1>5, <1>6, Me DEF OnTheWay
<1>8. OnTheWay'
  BY <1>1, <1>5, <1>7 DEF OnTheWay
<1>9. \A k \in Pair : Tells(h, k) => Travels(k)
  BY <1>2, <1>6 DEF Travels
<1>10. \A k \in Pair : Travels(k)' => Travels(k)
  <2> SUFFICES ASSUME NEW k \in Pair, Travels(k)'
               PROVE  Travels(k)
    OBVIOUS
  <2>1. CASE \E f \in direct' \cup relay' : Tells(f, k)
    BY <1>5, <2>1 DEF Travels
  <2>2. CASE \E i \in DOMAIN p : Tells(p[i], k)
    BY <1>2, <1>6, <2>2 DEF Travels
  <2> QED
    BY <1>7, <2>1, <2>2 DEF Travels
<1> QED
  BY <1>5, <1>6, <1>8, <1>9, <1>10, HandlingKeepsDamageInv

LEMMA ReceivingKeepsDamageInv ==
  ASSUME DamageInv, NEW e \in direct \cup relay, ReceiveDirect(e) \/ ReceiveRelay(e)
  PROVE  DamageInv'
<1>1. OnTheWay
  BY DEF DamageInv
<1>2. e \in Event /\ "udp" \in Thread
  BY <1>1 DEF OnTheWay, Thread
<1>3. /\ UNCHANGED database /\ tcp' = tcp /\ direct' = direct /\ relay' \subseteq relay
      /\ _dispatch("udp", e) /\ \E trouble : Count("udp", trouble)
  BY DEF ReceiveDirect, ReceiveRelay, TakeRelay, network
<1>4. PICK trouble : Count("udp", trouble)
  BY <1>3
<1>5. OnTheWay'
  BY <1>1, <1>3 DEF OnTheWay
<1>6. \A k \in Pair : /\ Tells(e, k) => Travels(k)
                      /\ Travels(k)' => Travels(k)
  BY <1>3 DEF Travels
<1> QED
  BY <1>2, <1>3, <1>4, <1>5, <1>6, HandlingKeepsDamageInv

LEMMA DamageInit == Init => DamageInv
<1> SUFFICES ASSUME Init
             PROVE  DamageInv
  OBVIOUS
<1>1. /\ relay = {} /\ direct = {} /\ tcp[me] = << >>
      /\ messages = << >> /\ kept = {} /\ interruptions = 0
      /\ doing = [t \in Thread |-> Idle] /\ db.messages = << >>
      /\ DOMAIN messages = {} /\ DOMAIN tcp[me] = {} /\ DOMAIN db.messages = {}
  BY Me DEF Init, EventsInit
<1>2. ReplicaInv(relay)
  <2>1. CalmInv /\ Calm
    BY CalmInit DEF Init, Calm
  <2> QED
    BY <2>1 DEF CalmInv
<1>3. DatabaseTypeOK /\ NetworkTypeOK /\ ClientTypeOK
  BY <1>2 DEF ReplicaInv
<1>4. RoomsAreTaken
  <2>1. \A r \in DOMAIN db.rooms : r \in Room /\ RoomIsTold(relay, r)
    BY <1>2, <1>3 DEF ReplicaInv, DatabaseTypeOK
  <2> QED
    BY <2>1 DEF RoomIsTold, RoomsAreTaken
<1>5. OnTheWay
  BY <1>1, <1>3 DEF NetworkTypeOK, OnTheWay
<1>6. Lists
  BY <1>1, <1>3 DEF ClientTypeOK, Lists
<1>7. \A t \in Thread : doing[t].stage = "idle" /\ ~Working(t)
  BY <1>1 DEF Idle, Working
<1>8. Threads
  BY <1>3, <1>7 DEF ClientTypeOK, Threads
<1>9. \A k : Places(k) = {}
  BY <1>1 DEF Places
<1>10. OneHome
  <2>1. \A k \in Pair : ~Known(k)
    BY <1>1, <1>7, <1>9 DEF Known, Travels, Stored, Shown, Pending
  <2> QED
    BY <2>1 DEF OneHome
<1>11. DamageIsBounded
  <2>1. Damaged = {}
    BY <1>1, <1>9 DEF Damaged
  <2>2. \A t \in Thread : Own(t) = {} /\ After(t) = {}
    BY <1>7, <2>1, IdleOwnsNothing
  <2>3. 2 * interruptions \in Nat
    BY <1>1
  <2>4. AtMost({}, 2 * interruptions)
    BY <2>3, NothingIsBounded
  <2>5. \A t \in Thread : WorksAlone(t)
    BY <2>1, <2>2, <2>4 DEF WorksAlone
  <2> QED
    BY <1>7, <2>5 DEF DamageIsBounded
<1> QED
  BY <1>1, <1>3, <1>4, <1>5, <1>6, <1>8, <1>10, <1>11 DEF DamageInv

LEMMA DamageNext == DamageInv /\ [Next]_vars => DamageInv'
<1> SUFFICES ASSUME DamageInv, [Next]_vars
             PROVE  DamageInv'
  OBVIOUS
<1>1. OnTheWay
  BY DEF DamageInv
<1>2. ASSUME Server, UNCHANGED <<client, troubles, interruptions>>
      PROVE  DamageInv'
  <2>1. UNCHANGED <<client, interruptions>>
    BY <1>2
  <2>2. CASE handleRequest
    BY <2>1, <2>2, GrantsKeepDamageInv
  <2>3. CASE handleAuth(me)
    BY <2>1, <2>3, LoginKeepsDamageInv
  <2>4. CASE shm_register_user(me)
    <3>1. UNCHANGED <<database, tcp, direct, relay>>
      BY <2>4 DEF shm_register_user
    <3>2. OnTheWay' /\ \A k \in Pair : Travels(k)' => Travels(k)
      BY <1>1, <3>1 DEF OnTheWay, Travels
    <3> QED
      BY <2>1, <3>1, <3>2, FewerOnTheWay
  <2> QED
    BY <1>2, <2>2, <2>3, <2>4 DEF Server
<1>3. CASE _listen_loop
  BY <1>3, ListeningKeepsDamageInv
<1>4. ASSUME NEW e \in direct, ReceiveDirect(e)
      PROVE  DamageInv'
  BY <1>4, ReceivingKeepsDamageInv
<1>5. ASSUME NEW e \in relay, ReceiveRelay(e)
      PROVE  DamageInv'
  BY <1>5, ReceivingKeepsDamageInv
<1>6. ASSUME NEW e \in relay, RelayIsLost(e)
      PROVE  DamageInv'
  <2>1. UNCHANGED <<database, client, interruptions>>
    BY <1>6 DEF RelayIsLost
  <2>2. tcp' = tcp /\ direct' = direct /\ relay' \subseteq relay
    BY <1>6 DEF RelayIsLost, LoseRelay
  <2>3. OnTheWay' /\ \A k \in Pair : Travels(k)' => Travels(k)
    BY <1>1, <2>2 DEF OnTheWay, Travels
  <2> QED
    BY <2>1, <2>3, FewerOnTheWay
<1>7. ASSUME NEW t \in Thread, Continue(t)
      PROVE  DamageInv'
  <2>1. /\ FinishAppend(t) \/ Search(t) \/ Pop(t)
        /\ UNCHANGED <<database, network, interruptions>>
    BY <1>7 DEF Continue
  <2>2. Lists' /\ Threads' /\ OneHome' /\ DamageIsBounded'
    BY <2>1, WorkKeepsInv DEF DamageInv
  <2>3. DatabaseTypeOK' /\ RoomsAreTaken' /\ OnTheWay' /\ interruptions' \in Nat
    BY <2>1 DEF DamageInv, DatabaseTypeOK, RoomsAreTaken, OnTheWay, database, network
  <2> QED
    BY <2>2, <2>3 DEF DamageInv
<1>8. CASE UNCHANGED vars
  <2>1. UNCHANGED <<database, client, interruptions>> /\ UNCHANGED <<tcp, direct, relay>>
    BY <1>8 DEF vars, network
  <2>2. OnTheWay' /\ \A k \in Pair : Travels(k)' => Travels(k)
    BY <1>1, <2>1 DEF OnTheWay, Travels
  <2> QED
    BY <2>1, <2>2, FewerOnTheWay
<1> QED
  BY <1>2, <1>3, <1>4, <1>5, <1>6, <1>7, <1>8 DEF Next

\* Whatever the threads are about to do, and whatever an exception stops, damage stays
\* within two messages for each interruption.
THEOREM DamageInvariance == Spec => []DamageInv
<1> QED
  BY DamageInit, DamageNext, PTL DEF Spec

\* Whatever is lost, duplicated and reordered, each interruption of a handler of
\* networkClient.py by the other thread does damage to two messages at the most.
THEOREM InterruptionsBoundDamage == Spec => []DamagePerInterruption
<1>1. DamageInv => DamagePerInterruption
  <2> SUFFICES ASSUME DamageInv, \A t \in Thread : ~Working(t)
               PROVE  Cardinality(Damaged) <= 2 * interruptions
    BY DEF DamagePerInterruption
  <2>1. "tcp" \in Thread /\ "udp" \in Thread
    BY DEF Thread
  <2>2. WorksAlone("tcp")
    BY <2>1 DEF DamageInv, DamageIsBounded
  <2>3. After("tcp") = Damaged
    BY <2>1, IdleOwnsNothing
  <2> QED
    BY <2>2, <2>3 DEF WorksAlone, AtMost
<1> QED
  BY <1>1, DamageInvariance, PTL


===============================================================================
