---------------------------- MODULE Client_proofs ----------------------------
(***************************************************************************)
(* What a desktop client shows, for any set of rooms and however many      *)
(* events: the lobby while callbacks are put off, and the session.         *)
(***************************************************************************)
EXTENDS LobbyWindow, DesktopSession, FiniteSetTheorems, TLAPS

-----------------------------------------------------------------------------
(***************************************************************************)
(* The lobby                                                               *)
(***************************************************************************)
Users == {Me, Other}

Task ==
  [kind : {"created", "requested", "rejected", "deleted", "gone"}, room : Room]
    \cup [kind : {"added", "removed"}, room : Room, user : Users]
    \cup [kind : {"message"}, room : Room, message : Nat]

Asking ==
  [kind : {"NEW_CHATROOM", "REQUEST", "NEW_MESSAGE", "DELETE_CHATROOM"}, room : Room]
    \cup [kind : {"ADD_USER", "REMOVE_USER", "DELETE_REQUEST"}, room : Room, user : Users]

\* What opens a view.
Openings == {"row", "stale", "toast", "dialog", "added", "deleted"}

View ==
  {Welcome} \cup [kind : {"blank"}, room : Room]
    \cup [kind : {"private"}, room : Room, by : Openings, pending : BOOLEAN]
    \cup [kind : {"chat"}, room : Room, by : Openings, shown : Seq(Nat), overtaken : Nat]

\* The user is not in the list of members that the panel offers to remove.
Dialog ==
  {None} \cup [kind : {"requested", "leave"}, room : Room]
    \cup [kind : {"panel"}, room : Room, requests : SUBSET Users, members : SUBSET {Other},
          addable : SUBSET Users]

Row == [member : BOOLEAN, fresh : BOOLEAN]

LobbyTypeOK ==
  /\ db \in [DOMAIN db -> [users : SUBSET Users, requests : SUBSET Users]]
  /\ DOMAIN db \subseteq made /\ made \subseteq Room
  /\ sent \in Seq(Asking) /\ events \in Nat
  /\ rooms \in [DOMAIN db -> [users : SUBSET Users, requests : SUBSET Users, notifications : Nat]]
  /\ messages \in [DOMAIN db -> Seq(Nat)]
  /\ tasks \in Seq(Task)
  /\ view \in View
  /\ view.kind \in {"private", "chat"} => view.room \in made
  /\ pending_rooms \subseteq made
  /\ rows \in [DOMAIN rows -> Row]
  /\ DOMAIN rows \subseteq made
  /\ toasts \subseteq Room
  /\ modal \in Dialog
  /\ moot \subseteq Room

\* The client may be ahead of the database with members it has kicked, never with the user.
MembershipIsKnown == \A r \in DOMAIN db : Me \in rooms[r].users <=> Me \in db[r].users

\* Callbacks after which the user is not in the room, or is.
Parts(t, r) == t.room = r /\ (t.kind = "gone" \/ (t.kind = "removed" /\ t.user = Me))
Joins(t, r) == t.kind = "added" /\ t.room = r /\ t.user = Me
WillPart(r) == \E i \in DOMAIN tasks : Parts(tasks[i], r)
WillJoin(r) == \E i \in DOMAIN tasks : Joins(tasks[i], r)

\* A callback that shows a room finds the user in it, or another one follows.
JoinsAreTrue ==
  \A i \in DOMAIN tasks, r \in Room : Joins(tasks[i], r) =>
    Member(rooms, r) \/ \E j \in DOMAIN tasks : i < j /\ Parts(tasks[j], r)

Listed ==
  /\ {r \in DOMAIN rows : rows[r].member} = {r \in DOMAIN rooms : Me \in rooms[r].users}
  /\ DOMAIN rows \subseteq DOMAIN rooms

Redrawing == {"created", "requested", "rejected", "added", "removed", "gone"}
ListComesTrue == Listed \/ \E i \in DOMAIN tasks : tasks[i].kind \in Redrawing

RowsComeTrue ==
  \A r \in DOMAIN rows :
    /\ rows[r].member => Member(rooms, r) \/ WillPart(r)
    /\ Member(rooms, r) => rows[r].member \/ WillJoin(r)

ViewComesTrue ==
  /\ view.kind \in {"private", "chat"} => view.room \in DOMAIN rooms \/ WillPart(view.room)
  /\ view.kind = "chat" /\ view.by \in {"row", "toast", "stale", "added"} =>
       Member(rooms, view.room) \/ WillPart(view.room)
  /\ view.kind = "private" /\ view.by = "row" => ~Member(rooms, view.room) \/ WillJoin(view.room)
  /\ view.kind = "chat" /\ view.room \in DOMAIN rooms /\ view.by \in {"row", "toast"} =>
       rooms[view.room].notifications = 0

Asked(r) == \E i \in DOMAIN sent : sent[i] = [kind |-> "REQUEST", room |-> r]
PendingComesTrue ==
  \A r \in pending_rooms \cap DOMAIN db :
    Me \in db[r].requests \/ r \in moot \/ Asked(r) \/ WillJoin(r)

LobbyInv ==
  /\ LobbyTypeOK
  /\ MembershipIsKnown
  /\ JoinsAreTrue
  /\ ListComesTrue
  /\ RowsComeTrue
  /\ ViewComesTrue
  /\ PendingComesTrue

-----------------------------------------------------------------------------
(***************************************************************************)
(* Queues of callbacks                                                     *)
(***************************************************************************)

LEMMA OneMore ==
  ASSUME NEW S, NEW s \in Seq(S), NEW x \in S, NEW t, t = Append(s, x)
  PROVE  /\ t \in Seq(S) /\ Len(s) \in Nat
         /\ \A i \in DOMAIN s : i \in DOMAIN t /\ t[i] = s[i]
         /\ Len(s) + 1 \in DOMAIN t /\ t[Len(s) + 1] = x
         /\ \A i \in DOMAIN s : i \in Nat /\ i < Len(s) + 1
         /\ \A i \in DOMAIN t : i \in DOMAIN s \/ i = Len(s) + 1
  BY SMT

LEMMA OneLess ==
  ASSUME NEW S, NEW s \in Seq(S), s # << >>
  PROVE  /\ Tail(s) \in Seq(S) /\ Head(s) = s[1] /\ 1 \in DOMAIN s /\ s[1] \in S
         /\ \A i \in DOMAIN s : i \in Nat /\ (i # 1 => i - 1 \in DOMAIN Tail(s) /\ Tail(s)[i - 1] = s[i])
         /\ \A i \in DOMAIN Tail(s) : i \in Nat /\ i + 1 \in DOMAIN s /\ i + 1 # 1 /\ Tail(s)[i] = s[i + 1]
  BY SMT

\* A change of one room in the database is followed by its callback, or needs none.
LEMMA ChangesAreTold ==
  ASSUME LobbyInv, NEW r \in Room, NEW told \in BOOLEAN, NEW c \in Task, c.room = r,
         tasks' = IF told THEN Append(tasks, c) ELSE tasks,
         view' = view,
         DOMAIN rows' = DOMAIN rows, \A x \in DOMAIN rows : rows'[x].member = rows[x].member,
         \A x : x # r => (x \in DOMAIN rooms' <=> x \in DOMAIN rooms),
         \A x \in DOMAIN rooms : x # r =>
           rooms'[x].users = rooms[x].users /\ rooms'[x].notifications = rooms[x].notifications,
         r \in DOMAIN rooms /\ r \in DOMAIN rooms' => rooms'[r].notifications = rooms[r].notifications,
         r \in DOMAIN rooms => r \in DOMAIN rooms' \/ (told /\ c.kind = "gone"),
         Member(rooms, r) /\ ~Member(rooms', r) => told /\ Parts(c, r),
         ~Member(rooms, r) /\ Member(rooms', r) =>
           told /\ c.kind \in Redrawing /\ (r \in made => Joins(c, r)),
         told /\ Joins(c, r) => Member(rooms', r),
         r \in DOMAIN rooms' => r \in DOMAIN rooms \/ r \notin made,
         pending_rooms' = pending_rooms, moot \subseteq moot', DOMAIN db' = DOMAIN rooms',
         \A x \in DOMAIN db : x # r => db'[x].requests = db[x].requests,
         \A x \in Room : x # r /\ Asked(x) => Asked(x)',
         r \in DOMAIN db' /\ Asked(r) => Asked(r)' \/ r \in moot' \/ Me \in db'[r].requests,
         r \in DOMAIN db /\ r \in DOMAIN db' /\ Me \in db[r].requests =>
           Me \in db'[r].requests \/ r \in moot' \/ (told /\ Joins(c, r))
  PROVE  JoinsAreTrue' /\ ListComesTrue' /\ RowsComeTrue' /\ ViewComesTrue' /\ PendingComesTrue'
<1> DEFINE last == Len(tasks) + 1
<1>1. /\ tasks \in Seq(Task) /\ Len(tasks) \in Nat
      /\ \A i \in DOMAIN tasks : i \in DOMAIN tasks' /\ tasks'[i] = tasks[i] /\ i \in Nat /\ i < last
      /\ told => last \in DOMAIN tasks' /\ tasks'[last] = c
      /\ \A i \in DOMAIN tasks' : i \in DOMAIN tasks \/ (told /\ i = last)
  <2>1. tasks \in Seq(Task)
    BY Zenon DEF LobbyInv, LobbyTypeOK
  <2>2. \A i \in DOMAIN tasks : i \in Nat /\ i < Len(tasks) + 1
    BY <2>1, SMT
  <2>3. CASE told
    <3>1. tasks' = Append(tasks, c)
      BY <2>3, Zenon
    <3> QED
      BY <2>1, <2>3, <3>1, OneMore, SMT
  <2>4. CASE ~told
    BY <2>1, <2>2, <2>4, SMT
  <2> QED
    BY <2>3, <2>4
<1> HIDE DEF last
<1>2. \A q \in Room : WillPart(q) => WillPart(q)'
  BY <1>1, Zenon DEF WillPart, Parts
<1>3. \A q \in Room : WillJoin(q) => WillJoin(q)'
  BY <1>1, Zenon DEF WillJoin, Joins
<1>4. told /\ Parts(c, r) => WillPart(r)'
  BY <1>1, Zenon DEF WillPart
<1>5. told /\ Joins(c, r) => WillJoin(r)'
  BY <1>1, Zenon DEF WillJoin
<1>6. /\ DOMAIN rooms = DOMAIN db /\ DOMAIN rooms \subseteq made /\ made \subseteq Room
      /\ DOMAIN rows \subseteq made
      /\ view.kind \in {"private", "chat"} => view.room \in made
  BY Zenon DEF LobbyInv, LobbyTypeOK
<1>7. \A q \in Room : q # r => (Member(rooms', q) <=> Member(rooms, q))
  BY Zenon DEF Member
<1>8. told /\ c.kind = "gone" => Parts(c, r)
  BY Zenon DEF Parts
<1>9. \A q \in Room : Member(rooms, q) => Member(rooms', q) \/ WillPart(q)'
  BY <1>4, <1>7, Zenon
<1>10. \A q \in made : Member(rooms', q) => Member(rooms, q) \/ WillJoin(q)'
  BY <1>5, <1>6, <1>7, Zenon
<1>11. JoinsAreTrue'
  <2> SUFFICES ASSUME NEW i \in DOMAIN tasks', NEW q \in Room, Joins(tasks'[i], q), ~Member(rooms', q)
               PROVE  \E j \in DOMAIN tasks' : i < j /\ Parts(tasks'[j], q)
    BY DEF JoinsAreTrue, Joins, Parts, Member
  <2>1. i \in DOMAIN tasks
    BY <1>1, Zenon DEF Joins
  <2>2. Joins(tasks[i], q)
    BY <1>1, <2>1, Zenon
  <2>3. CASE Member(rooms, q)
    <3>1. q = r /\ told /\ Parts(c, r)
      BY <1>7, <2>3, Zenon
    <3> QED
      BY <1>1, <2>1, <3>1, Zenon
  <2>4. CASE ~Member(rooms, q)
    <3>1. PICK j \in DOMAIN tasks : i < j /\ Parts(tasks[j], q)
      BY <2>1, <2>2, <2>4, Zenon DEF LobbyInv, JoinsAreTrue
    <3> QED
      BY <1>1, <3>1, Zenon
  <2> QED
    BY <2>3, <2>4
<1>12. ListComesTrue'
  <2>1. CASE \E i \in DOMAIN tasks : tasks[i].kind \in Redrawing
    BY <1>1, <2>1, Zenon DEF ListComesTrue
  <2>2. CASE told /\ c.kind \in Redrawing
    BY <1>1, <2>2, Zenon DEF ListComesTrue
  <2>3. CASE Listed /\ ~(told /\ c.kind \in Redrawing)
    <3>1. Parts(c, r) => c.kind \in Redrawing
      BY SMT DEF Parts, Redrawing
    <3>2. \A q : Member(rooms', q) <=> Member(rooms, q)
      <4>1. \A q : q # r => (Member(rooms', q) <=> Member(rooms, q))
        BY Zenon DEF Member
      <4> QED
        BY <2>3, <3>1, <4>1, Zenon
    <3>3. DOMAIN rows \subseteq DOMAIN rooms'
      BY <1>8, <2>3, <3>1, Zenon DEF Listed
    <3>4. {q \in DOMAIN rows' : rows'[q].member} = {q \in DOMAIN rooms' : Me \in rooms'[q].users}
      BY <2>3, <3>2, SMT DEF Listed, Member
    <3> QED
      BY <3>3, <3>4, Zenon DEF ListComesTrue, Listed
  <2> QED
    BY <2>1, <2>2, <2>3, Zenon DEF LobbyInv, ListComesTrue
<1>13. RowsComeTrue'
  <2> SUFFICES ASSUME NEW q \in DOMAIN rows
               PROVE  /\ rows[q].member => Member(rooms', q) \/ WillPart(q)'
                      /\ Member(rooms', q) => rows[q].member \/ WillJoin(q)'
    BY Zenon DEF RowsComeTrue, WillPart, WillJoin, Member
  <2>1. q \in Room /\ q \in made
    BY <1>6, Zenon
  <2>2. /\ rows[q].member => Member(rooms, q) \/ WillPart(q)
        /\ Member(rooms, q) => rows[q].member \/ WillJoin(q)
    BY Zenon DEF LobbyInv, RowsComeTrue
  <2> QED
    BY <1>2, <1>3, <1>9, <1>10, <2>1, <2>2, Zenon
<1>14. ViewComesTrue'
  <2> SUFFICES ASSUME view.kind \in {"private", "chat"} PROVE ViewComesTrue'
    BY Zenon DEF ViewComesTrue
  <2> DEFINE q == view.room
  <2>1. q \in Room /\ q \in made
    BY <1>6, Zenon
  <2>2. q \in DOMAIN rooms => q \in DOMAIN rooms' \/ WillPart(q)'
    BY <1>4, <1>8, Zenon
  <2>3. /\ q \in DOMAIN rooms \/ WillPart(q)
        /\ view.kind = "chat" /\ view.by \in {"row", "toast", "stale", "added"} =>
             Member(rooms, q) \/ WillPart(q)
        /\ view.kind = "private" /\ view.by = "row" => ~Member(rooms, q) \/ WillJoin(q)
        /\ view.kind = "chat" /\ q \in DOMAIN rooms /\ view.by \in {"row", "toast"} =>
             rooms[q].notifications = 0
    BY Zenon DEF LobbyInv, ViewComesTrue
  <2>4. q \in DOMAIN rooms' => q \in DOMAIN rooms \/ WillPart(q)'
    BY <1>2, <2>1, <2>3, Zenon
  <2>5. /\ q \in DOMAIN rooms' \/ WillPart(q)'
        /\ view.kind = "chat" /\ view.by \in {"row", "toast", "stale", "added"} =>
             Member(rooms', q) \/ WillPart(q)'
        /\ view.kind = "private" /\ view.by = "row" => ~Member(rooms', q) \/ WillJoin(q)'
    BY <1>2, <1>3, <1>9, <1>10, <2>1, <2>2, <2>3, Zenon
  <2>6. view.kind = "chat" /\ q \in DOMAIN rooms' /\ view.by \in {"row", "toast"} =>
          rooms'[q].notifications = 0
    BY <2>1, <2>3, Zenon DEF Member
  <2> QED
    BY <2>5, <2>6 DEF ViewComesTrue, WillPart, WillJoin, Member
<1>15. PendingComesTrue'
  <2> SUFFICES ASSUME NEW q \in pending_rooms, q \in DOMAIN db'
               PROVE  Me \in db'[q].requests \/ q \in moot' \/ Asked(q)' \/ WillJoin(q)'
    BY DEF PendingComesTrue, Asked, WillJoin
  <2>1. q \in Room /\ q \in made
    BY <1>6, Zenon DEF LobbyInv, LobbyTypeOK
  <2>2. q \in DOMAIN db
    BY <1>6, <2>1, Zenon
  <2>3. Me \in db[q].requests \/ q \in moot \/ Asked(q) \/ WillJoin(q)
    BY <2>2, Zenon DEF LobbyInv, PendingComesTrue
  <2> QED
    BY <1>3, <1>5, <2>1, <2>2, <2>3, Zenon
<1> QED
  BY <1>11, <1>12, <1>13, <1>14, <1>15

-----------------------------------------------------------------------------
(***************************************************************************)
(* The database                                                            *)
(***************************************************************************)
\* What every change in the database leaves alone.
Served ==
  /\ events' = events + 1
  /\ made' = made \cup DOMAIN db'
  /\ sent' \in Seq(Asking)
  /\ UNCHANGED <<view, pending_rooms, toasts, modal>>

LEMMA TasksGrow ==
  ASSUME LobbyTypeOK, NEW told \in BOOLEAN, NEW c \in Task, Notify(told, c)
  PROVE  tasks' \in Seq(Task) /\ tasks' = IF told THEN Append(tasks, c) ELSE tasks
  BY SMT DEF LobbyTypeOK, Notify

LEMMA RowFades ==
  ASSUME NEW p \in Row
  PROVE  [p EXCEPT !.fresh = FALSE] \in Row /\ [p EXCEPT !.fresh = FALSE].member = p.member
<1>1. [p EXCEPT !.fresh = FALSE].member = p.member
  BY DEF Row
<1> QED
  BY <1>1 DEF Row

LEMMA RoomsAreReplaced ==
  ASSUME LobbyInv, NEW r \in Room, NEW told \in BOOLEAN, NEW c \in Task, c.room = r,
         NEW R \in [users : SUBSET Users, requests : SUBSET Users], db' = With(db, r, R),
         _upsert_room(r, told, c), Served, moot \subseteq moot', moot' \subseteq Room,
         r \in DOMAIN db \/ r \notin made,
         Member(db, r) => Me \in R.users,
         ~Member(db, r) /\ Me \in R.users => told /\ c.kind \in Redrawing /\ (r \in made => Joins(c, r)),
         told /\ Joins(c, r) => Me \in R.users,
         \A x \in Room : x # r /\ Asked(x) => Asked(x)',
         Asked(r) => Asked(r)' \/ r \in moot' \/ Me \in R.requests,
         r \in DOMAIN db /\ Me \in db[r].requests =>
           Me \in R.requests \/ r \in moot' \/ (told /\ Joins(c, r))
  PROVE  LobbyInv'
<1>1. LobbyTypeOK /\ MembershipIsKnown
  BY DEF LobbyInv
<1>2. /\ db' \in [DOMAIN db' -> [users : SUBSET Users, requests : SUBSET Users]]
      /\ DOMAIN db' = DOMAIN db \cup {r}
      /\ db'[r] = R /\ \A x \in DOMAIN db : x # r => db'[x] = db[x]
  BY <1>1, SMT DEF LobbyTypeOK, With
<1>3. rooms' = With(rooms, r, [users |-> db'[r].users, requests |-> db'[r].requests,
                               notifications |-> IF r \in DOMAIN rooms THEN rooms[r].notifications ELSE 0])
  BY Zenon DEF _upsert_room
<1>4. /\ rooms' \in [DOMAIN db' -> [users : SUBSET Users, requests : SUBSET Users, notifications : Nat]]
      /\ rooms'[r].users = R.users
      /\ r \in DOMAIN rooms => rooms'[r].notifications = rooms[r].notifications
      /\ DOMAIN rooms' = DOMAIN rooms \cup {r} /\ DOMAIN rooms = DOMAIN db
      /\ \A x \in DOMAIN rooms : x # r => rooms'[x] = rooms[x]
  BY <1>1, <1>2, <1>3, SMT DEF LobbyTypeOK, With
<1>5. messages' \in [DOMAIN db' -> Seq(Nat)]
  <2>1. messages' = IF r \in DOMAIN messages THEN messages ELSE With(messages, r, << >>)
    BY Zenon DEF _upsert_room
  <2>2. << >> \in Seq(Nat)
    BY SMT
  <2>3. messages \in [DOMAIN db -> Seq(Nat)]
    BY <1>1, Zenon DEF LobbyTypeOK
  <2>4. CASE r \in DOMAIN db
    <3>1. messages' = messages /\ DOMAIN db' = DOMAIN db
      BY <1>2, <2>1, <2>3, <2>4, SMT
    <3> QED
      BY <2>3, <3>1, Zenon
  <2>5. CASE r \notin DOMAIN db
    <3>1. messages' = [x \in DOMAIN messages \cup {r} |-> IF x = r THEN << >> ELSE messages[x]]
      BY <2>1, <2>3, <2>5, SMT DEF With
    <3> QED
      BY <1>2, <2>2, <2>3, <3>1, SMT
  <2> QED
    BY <2>4, <2>5
<1>6. /\ rows' \in [DOMAIN rows -> Row]
      /\ DOMAIN rows' = DOMAIN rows
      /\ \A x \in DOMAIN rows : rows'[x].member = rows[x].member
  <2>1. rows' = IF r \in DOMAIN rows THEN [rows EXCEPT ![r].fresh = FALSE] ELSE rows
    BY Zenon DEF _upsert_room
  <2>2. rows \in [DOMAIN rows -> Row]
    BY <1>1, Zenon DEF LobbyTypeOK
  <2>3. CASE r \in DOMAIN rows
    <3> DEFINE z == [rows[r] EXCEPT !.fresh = FALSE]
    <3>1. rows' = [rows EXCEPT ![r] = z]
      BY <2>1, <2>3, Zenon
    <3>2. rows[r] \in Row
      BY <2>2, <2>3
    <3>3. z \in Row /\ z.member = rows[r].member
      BY <3>2, RowFades, Zenon
    <3> HIDE DEF z
    <3> QED
      BY <2>2, <2>3, <3>1, <3>3
  <2> QED
    BY <2>1, <2>2, <2>3, SMT
<1>7. tasks' \in Seq(Task) /\ tasks' = IF told THEN Append(tasks, c) ELSE tasks
  BY <1>1, TasksGrow, Zenon DEF _upsert_room
<1>8. LobbyTypeOK'
  BY <1>1, <1>2, <1>4, <1>5, <1>6, <1>7, SMT DEF LobbyTypeOK, Served
<1>9. MembershipIsKnown'
  BY <1>1, <1>2, <1>4, SMT DEF MembershipIsKnown
<1>10. Member(rooms, r) <=> Member(db, r)
  BY <1>1, <1>4, Zenon DEF Member, MembershipIsKnown
<1>11. Member(rooms', r) <=> Me \in R.users
  BY <1>4, Zenon DEF Member
<1>12. view' = view /\ pending_rooms' = pending_rooms
  BY Zenon DEF Served
<1>13. JoinsAreTrue' /\ ListComesTrue' /\ RowsComeTrue' /\ ViewComesTrue' /\ PendingComesTrue'
  <2>1. /\ \A x : x # r => (x \in DOMAIN rooms' <=> x \in DOMAIN rooms)
        /\ \A x \in DOMAIN rooms : x # r =>
             rooms'[x].users = rooms[x].users /\ rooms'[x].notifications = rooms[x].notifications
        /\ DOMAIN db' = DOMAIN rooms' /\ r \in DOMAIN rooms'
        /\ r \in DOMAIN rooms \/ r \notin made
    BY <1>2, <1>4, Zenon
  <2>2. \A x \in DOMAIN db : x # r => db'[x].requests = db[x].requests
    BY <1>2, Zenon
  <2>3. r \in DOMAIN db' /\ Asked(r) => Asked(r)' \/ r \in moot' \/ Me \in db'[r].requests
    BY <1>2, Zenon
  <2>4. r \in DOMAIN db /\ r \in DOMAIN db' /\ Me \in db[r].requests =>
          Me \in db'[r].requests \/ r \in moot' \/ (told /\ Joins(c, r))
    BY <1>2, Zenon
  <2> QED
    BY <1>4, <1>6, <1>7, <1>10, <1>11, <1>12, <2>1, <2>2, <2>3, <2>4, ChangesAreTold
<1> QED
  BY <1>8, <1>9, <1>13 DEF LobbyInv

LEMMA Callbacks ==
  ASSUME NEW r \in Room, NEW u \in Users, NEW m \in Nat
  PROVE  /\ \A k \in {"created", "requested", "rejected", "deleted", "gone"} :
              [kind |-> k, room |-> r] \in Task
         /\ \A k \in {"added", "removed"} : [kind |-> k, room |-> r, user |-> u] \in Task
         /\ [kind |-> "message", room |-> r, message |-> m] \in Task
<1>1. \A k \in {"created", "requested", "rejected", "deleted", "gone"} :
        [kind |-> k, room |-> r] \in
          [kind : {"created", "requested", "rejected", "deleted", "gone"}, room : Room]
  OBVIOUS
<1>2. \A k \in {"added", "removed"} :
        [kind |-> k, room |-> r, user |-> u] \in
          [kind : {"added", "removed"}, room : Room, user : Users]
  OBVIOUS
<1>3. [kind |-> "message", room |-> r, message |-> m] \in
        [kind : {"message"}, room : Room, message : Nat]
  OBVIOUS
<1> QED
  BY <1>1, <1>2, <1>3, Zenon DEF Task

LEMMA PutIsExcept ==
  ASSUME NEW f, NEW r \in DOMAIN f, NEW v
  PROVE  [f EXCEPT ![r] = v] = With(f, r, v)
<1>1. DOMAIN f \cup {r} = DOMAIN f
  OBVIOUS
<1>2. With(f, r, v) = [x \in DOMAIN f |-> IF x = r THEN v ELSE f[x]]
  BY <1>1 DEF With
<1>3. [f EXCEPT ![r] = v] = [x \in DOMAIN f |-> IF x = r THEN v ELSE f[x]]
  BY Zenon
<1> QED
  BY <1>2, <1>3, Zenon

LEMMA NewRoomKeeps ==
  ASSUME LobbyInv, NEW r \in Room, NewRoom(r), Served, \A x \in Room : Asked(x) => Asked(x)'
  PROVE  LobbyInv'
<1> DEFINE R == [users |-> IF r \in Mine THEN {Me} ELSE {}, requests |-> {}]
           c == [kind |-> "created", room |-> r]
           told == r \in Mine
<1>1. /\ r \notin made /\ db' = With(db, r, R) /\ _upsert_room(r, told, c) /\ moot' = moot
  BY Zenon DEF NewRoom
<1>2. /\ R \in [users : SUBSET Users, requests : SUBSET Users]
      /\ R.users = (IF r \in Mine THEN {Me} ELSE {})
  BY SMT DEF Users
<1>3. c \in Task /\ c.room = r /\ c.kind = "created"
  <2>1. Me \in Users /\ 0 \in Nat
    BY DEF Users
  <2> QED
    BY <2>1, Callbacks, Zenon
<1>4. ~Joins(c, r) /\ c.kind \in Redrawing /\ told \in BOOLEAN
  BY <1>3, SMT DEF Joins, Redrawing
<1>5. r \notin DOMAIN db /\ moot \subseteq Room
  BY <1>1, Zenon DEF LobbyInv, LobbyTypeOK
<1>6. ~Member(db, r) /\ (Me \in R.users => told)
  BY <1>2, <1>5, Zenon DEF Member
<1> HIDE DEF R, c, told
<1>7. /\ moot \subseteq moot' /\ moot' \subseteq Room
      /\ ~Member(db, r) /\ Me \in R.users => told /\ c.kind \in Redrawing /\ (r \in made => Joins(c, r))
      /\ \A x \in Room : x # r /\ Asked(x) => Asked(x)'
      /\ Asked(r) => Asked(r)' \/ r \in moot' \/ Me \in R.requests
  BY <1>1, <1>4, <1>5, <1>6, Zenon
<1> QED
  BY <1>1, <1>2, <1>3, <1>4, <1>5, <1>6, <1>7, RoomsAreReplaced, SMTT(30)

LEMMA AddUserKeeps ==
  ASSUME LobbyInv, NEW r \in Room, NEW u \in Users, AddUser(r, u), Served,
         \A x \in Room : Asked(x) => Asked(x)'
  PROVE  LobbyInv'
<1> DEFINE R == [users |-> db[r].users \cup {u}, requests |-> db[r].requests \ {u}]
           c == [kind |-> "added", room |-> r, user |-> u]
           told == r \in Mine \/ u = Me
<1>1. /\ r \in DOMAIN db
      /\ db' = [db EXCEPT ![r] = [users |-> db[r].users \cup {u}, requests |-> db[r].requests \ {u}]]
      /\ _upsert_room(r, told, c) /\ moot' = moot
  BY SMT DEF AddUser
<1>2. /\ db \in [DOMAIN db -> [users : SUBSET Users, requests : SUBSET Users]]
      /\ db[r] \in [users : SUBSET Users, requests : SUBSET Users]
      /\ moot \subseteq Room
  BY <1>1 DEF LobbyInv, LobbyTypeOK
<1>3. /\ R \in [users : SUBSET Users, requests : SUBSET Users]
      /\ R.users = db[r].users \cup {u} /\ R.requests = db[r].requests \ {u}
  BY <1>2, SMT
<1>4. c \in Task /\ c.room = r /\ c.kind = "added" /\ c.user = u
  <2>1. 0 \in Nat
    OBVIOUS
  <2> QED
    BY <2>1, Callbacks, Zenon
<1>5. (Joins(c, r) <=> u = Me) /\ c.kind \in Redrawing /\ told \in BOOLEAN /\ (u = Me => told)
  BY <1>4, SMT DEF Joins, Redrawing
<1>6. db' = With(db, r, R)
  <2>1. db' = [db EXCEPT ![r] = R]
    BY <1>1, Zenon
  <2> HIDE DEF R
  <2> QED
    BY <2>1, PutIsExcept, <1>1, Zenon
<1>7. Member(db, r) <=> Me \in db[r].users
  BY <1>1, Zenon DEF Member
<1> HIDE DEF R, c, told
<1>8. /\ moot \subseteq moot' /\ moot' \subseteq Room
      /\ Member(db, r) => Me \in R.users
      /\ ~Member(db, r) /\ Me \in R.users => told /\ c.kind \in Redrawing /\ (r \in made => Joins(c, r))
      /\ told /\ Joins(c, r) => Me \in R.users
      /\ \A x \in Room : x # r /\ Asked(x) => Asked(x)'
      /\ Asked(r) => Asked(r)' \/ r \in moot' \/ Me \in R.requests
      /\ r \in DOMAIN db /\ Me \in db[r].requests =>
           Me \in R.requests \/ r \in moot' \/ (told /\ Joins(c, r))
  BY <1>1, <1>2, <1>3, <1>5, <1>7, Zenon
<1> QED
  BY <1>1, <1>3, <1>4, <1>5, <1>6, <1>8, RoomsAreReplaced, SMTT(30)

\* The request itself may be the one that is under way no more.
LEMMA RequestKeeps ==
  ASSUME LobbyInv, NEW r \in Room, NEW u \in Users, Request(r, u), Served,
         \A x \in Room : (x # r \/ u # Me) /\ Asked(x) => Asked(x)'
  PROVE  LobbyInv'
<1> DEFINE R == [db[r] EXCEPT !.requests = @ \cup ({u} \ db[r].users)]
           c == [kind |-> "requested", room |-> r]
           told == r \in Mine \/ u = Me
<1>1. /\ r \in DOMAIN db
      /\ db' = [db EXCEPT ![r].requests = @ \cup ({u} \ db[r].users)]
      /\ _upsert_room(r, told, c)
      /\ moot' = IF u = Me /\ Me \in db[r].users THEN moot \cup {r} ELSE moot
  BY SMT DEF Request
<1>2. /\ db[r] \in [users : SUBSET Users, requests : SUBSET Users]
      /\ moot \subseteq Room
  BY <1>1 DEF LobbyInv, LobbyTypeOK
<1>3. /\ R \in [users : SUBSET Users, requests : SUBSET Users]
      /\ R.users = db[r].users /\ R.requests = db[r].requests \cup ({u} \ db[r].users)
  BY <1>2, SMT
<1>4. c \in Task /\ c.room = r /\ c.kind = "requested"
  <2>1. 0 \in Nat
    OBVIOUS
  <2> QED
    BY <2>1, Callbacks, Zenon
<1>5. ~Joins(c, r) /\ told \in BOOLEAN
  BY <1>4, SMT DEF Joins
<1>6. db' = With(db, r, R)
  <2>1. db' = [db EXCEPT ![r] = R]
    BY <1>1, Zenon
  <2> HIDE DEF R
  <2> QED
    BY <1>1, <2>1, PutIsExcept, Zenon
<1>7. Member(db, r) <=> Me \in db[r].users
  BY <1>1, Zenon DEF Member
<1> HIDE DEF R, c, told
<1>8. moot \subseteq moot' /\ moot' \subseteq Room /\ (u = Me /\ Me \in db[r].users => r \in moot')
  BY <1>1, <1>2
<1>9. /\ Member(db, r) => Me \in R.users
      /\ ~Member(db, r) /\ Me \in R.users => told /\ c.kind \in Redrawing /\ (r \in made => Joins(c, r))
      /\ told /\ Joins(c, r) => Me \in R.users
      /\ \A x \in Room : x # r /\ Asked(x) => Asked(x)'
      /\ r \in DOMAIN db /\ Me \in db[r].requests =>
           Me \in R.requests \/ r \in moot' \/ (told /\ Joins(c, r))
  BY <1>1, <1>3, <1>5, <1>7, SMT
<1>10. Asked(r) => Asked(r)' \/ r \in moot' \/ Me \in R.requests
  <2>1. CASE u = Me
    BY <1>3, <1>8, <2>1
  <2>2. CASE u # Me
    BY <2>2, Zenon
  <2> QED
    BY <2>1, <2>2
<1> QED
  BY <1>1, <1>3, <1>4, <1>5, <1>6, <1>8, <1>9, <1>10, RoomsAreReplaced, SMTT(30)

LEMMA DeleteRequestKeeps ==
  ASSUME LobbyInv, NEW r \in Room, NEW u \in Users, DeleteRequest(r, u), Served,
         \A x \in Room : Asked(x) => Asked(x)'
  PROVE  LobbyInv'
<1> DEFINE R == [db[r] EXCEPT !.requests = @ \ {u}]
           c == [kind |-> "rejected", room |-> r]
           told == r \in Mine \/ u = Me
<1>1. /\ r \in DOMAIN db
      /\ db' = [db EXCEPT ![r].requests = @ \ {u}]
      /\ _upsert_room(r, told, c)
      /\ moot' = IF u = Me THEN moot \cup {r} ELSE moot
  BY SMT DEF DeleteRequest
<1>2. /\ db[r] \in [users : SUBSET Users, requests : SUBSET Users]
      /\ moot \subseteq Room
  BY <1>1 DEF LobbyInv, LobbyTypeOK
<1>3. /\ R \in [users : SUBSET Users, requests : SUBSET Users]
      /\ R.users = db[r].users /\ R.requests = db[r].requests \ {u}
  BY <1>2, SMT
<1>4. c \in Task /\ c.room = r /\ c.kind = "rejected"
  <2>1. 0 \in Nat
    OBVIOUS
  <2> QED
    BY <2>1, Callbacks, Zenon
<1>5. ~Joins(c, r) /\ told \in BOOLEAN
  BY <1>4, SMT DEF Joins
<1>6. db' = With(db, r, R)
  <2>1. db' = [db EXCEPT ![r] = R]
    BY <1>1, Zenon
  <2> HIDE DEF R
  <2> QED
    BY <1>1, <2>1, PutIsExcept, Zenon
<1>7. Member(db, r) <=> Me \in db[r].users
  BY <1>1, Zenon DEF Member
<1> HIDE DEF R, c, told
<1>8. moot \subseteq moot' /\ moot' \subseteq Room /\ (u = Me => r \in moot')
  BY <1>1, <1>2
<1>9. /\ Member(db, r) => Me \in R.users
      /\ ~Member(db, r) /\ Me \in R.users => told /\ c.kind \in Redrawing /\ (r \in made => Joins(c, r))
      /\ told /\ Joins(c, r) => Me \in R.users
      /\ \A x \in Room : x # r /\ Asked(x) => Asked(x)'
      /\ Asked(r) => Asked(r)' \/ r \in moot' \/ Me \in R.requests
      /\ r \in DOMAIN db /\ Me \in db[r].requests =>
           Me \in R.requests \/ r \in moot' \/ (told /\ Joins(c, r))
  BY <1>1, <1>3, <1>5, <1>7, <1>8, SMT
<1> QED
  BY <1>1, <1>3, <1>4, <1>5, <1>6, <1>8, <1>9, RoomsAreReplaced, SMTT(30)

LEMMA RemoveUserKeeps ==
  ASSUME LobbyInv, NEW r \in Room, NEW u \in Users, RemoveUser(r, u), Served,
         \A x \in Room : Asked(x) => Asked(x)'
  PROVE  LobbyInv'
<1> DEFINE c == [kind |-> "removed", room |-> r, user |-> u]
           told == Me \in db[r].users
           Stored == [users : SUBSET Users, requests : SUBSET Users]
           Known == [users : SUBSET Users, requests : SUBSET Users, notifications : Nat]
<1>1. LobbyTypeOK /\ MembershipIsKnown
  BY DEF LobbyInv
<1>2. /\ r \in DOMAIN db /\ db' = [db EXCEPT ![r].users = @ \ {u}]
      /\ rooms' = [rooms EXCEPT ![r].users = @ \ {u}]
      /\ Notify(told, c) /\ messages' = messages /\ rows' = rows /\ moot' = moot
  BY Zenon DEF RemoveUser
<1>3. db \in [DOMAIN db -> Stored] /\ rooms \in [DOMAIN db -> Known]
  BY <1>1, Zenon DEF LobbyTypeOK
<1>4. /\ db' \in [DOMAIN db -> Stored] /\ DOMAIN db' = DOMAIN db
      /\ db'[r].users = db[r].users \ {u}
      /\ \A x \in DOMAIN db : db'[x].requests = db[x].requests
      /\ \A x \in DOMAIN db : x # r => db'[x] = db[x]
  BY <1>2, <1>3, SMT
<1>5. /\ rooms' \in [DOMAIN db -> Known] /\ DOMAIN rooms' = DOMAIN db /\ DOMAIN rooms = DOMAIN db
      /\ rooms'[r].users = rooms[r].users \ {u}
      /\ \A x \in DOMAIN db : rooms'[x].notifications = rooms[x].notifications
      /\ \A x \in DOMAIN db : x # r => rooms'[x] = rooms[x]
  BY <1>2, <1>3, SMT
<1>6. c \in Task /\ c.room = r /\ c.kind = "removed" /\ c.user = u
  <2>1. 0 \in Nat
    OBVIOUS
  <2> QED
    BY <2>1, Callbacks, Zenon
<1>7. ~Joins(c, r) /\ (u = Me => Parts(c, r)) /\ told \in BOOLEAN
  BY <1>6, SMT DEF Joins, Parts
<1> HIDE DEF c, told
<1>8. tasks' \in Seq(Task) /\ tasks' = IF told THEN Append(tasks, c) ELSE tasks
  BY <1>1, <1>2, <1>6, <1>7, TasksGrow, Zenon
<1>9. LobbyTypeOK'
  <2>1. messages' = messages /\ rows' = rows /\ moot' = moot
    BY <1>2, Zenon
  <2>2. DOMAIN db' = DOMAIN db /\ db' \in [DOMAIN db -> Stored] /\ rooms' \in [DOMAIN db -> Known]
    BY <1>4, <1>5, Zenon
  <2> QED
    BY <1>1, <1>8, <2>1, <2>2, SMT DEF LobbyTypeOK, Served
<1>10. MembershipIsKnown'
  BY <1>1, <1>2, <1>4, <1>5, SMT DEF MembershipIsKnown
<1>11. Member(rooms, r) <=> told
  BY <1>1, <1>2, <1>5, Zenon DEF Member, MembershipIsKnown, told
<1>12. Member(rooms', r) <=> Member(rooms, r) /\ u # Me
  BY <1>2, <1>5, SMT DEF Member
<1>13. view' = view /\ pending_rooms' = pending_rooms
  BY Zenon DEF Served
<1>14. JoinsAreTrue' /\ ListComesTrue' /\ RowsComeTrue' /\ ViewComesTrue' /\ PendingComesTrue'
  <2>1. /\ \A x : x # r => (x \in DOMAIN rooms' <=> x \in DOMAIN rooms)
        /\ \A x \in DOMAIN rooms : x # r =>
             rooms'[x].users = rooms[x].users /\ rooms'[x].notifications = rooms[x].notifications
        /\ DOMAIN db' = DOMAIN rooms' /\ r \in DOMAIN rooms' /\ r \in DOMAIN rooms
        /\ \A x \in DOMAIN rows : rows'[x].member = rows[x].member
        /\ DOMAIN rows' = DOMAIN rows /\ moot \subseteq moot'
    BY <1>2, <1>4, <1>5, Zenon
  <2>2. /\ \A x \in DOMAIN db : x # r => db'[x].requests = db[x].requests
        /\ r \in DOMAIN db' /\ Asked(r) => Asked(r)' \/ r \in moot' \/ Me \in db'[r].requests
        /\ r \in DOMAIN db /\ r \in DOMAIN db' /\ Me \in db[r].requests =>
             Me \in db'[r].requests \/ r \in moot' \/ (told /\ Joins(c, r))
        /\ r \in DOMAIN rooms /\ r \in DOMAIN rooms' => rooms'[r].notifications = rooms[r].notifications
    BY <1>4, <1>5, Zenon
  <2> QED
    BY <1>6, <1>7, <1>8, <1>11, <1>12, <1>13, <2>1, <2>2, ChangesAreTold
<1> QED
  BY <1>9, <1>10, <1>14 DEF LobbyInv

\* What tells of messages does not change rooms.
LEMMA MessagesKeep ==
  ASSUME LobbyInv, NEW r \in Room, NewMessage(r) \/ DeleteMessage(r), Served,
         \A x \in Room : Asked(x) => Asked(x)'
  PROVE  LobbyInv'
<1>1. LobbyTypeOK
  BY DEF LobbyInv
<1>2. messages \in [DOMAIN db -> Seq(Nat)] /\ events' \in Nat /\ tasks \in Seq(Task)
  BY <1>1, SMT DEF LobbyTypeOK, Served
<1>3. \E told \in BOOLEAN, c \in Task :
         /\ tasks' \in Seq(Task) /\ tasks' = IF told THEN Append(tasks, c) ELSE tasks
         /\ c.room = r /\ c.kind \in {"message", "deleted"}
         /\ r \in DOMAIN db /\ messages' \in [DOMAIN db -> Seq(Nat)]
         /\ UNCHANGED <<db, rooms, rows, moot>>
  <2>1. CASE NewMessage(r)
    <3> DEFINE c == [kind |-> "message", room |-> r, message |-> events']
               told == Me \in db[r].users
    <3>1. /\ r \in DOMAIN db /\ messages' = [messages EXCEPT ![r] = Append(@, events')]
          /\ Notify(told, c) /\ UNCHANGED <<db, rooms, rows, moot>>
      BY <2>1, Zenon DEF NewMessage
    <3>2. c \in Task /\ c.room = r /\ c.kind = "message"
      <4>1. Me \in Users
        BY DEF Users
      <4> QED
        BY <1>2, <4>1, Callbacks, Zenon
    <3>3. told \in BOOLEAN
      OBVIOUS
    <3>4. messages' \in [DOMAIN db -> Seq(Nat)]
      BY <1>2, <3>1, SMT
    <3> HIDE DEF c, told
    <3> QED
      BY <1>1, <3>1, <3>2, <3>3, <3>4, TasksGrow
  <2>2. CASE DeleteMessage(r)
    <3> DEFINE c == [kind |-> "deleted", room |-> r]
    <3>1. PICK i \in DOMAIN messages[r] : messages' = [messages EXCEPT ![r] = RemoveAt(@, i)]
      BY <2>2, Zenon DEF DeleteMessage
    <3>2. r \in DOMAIN db /\ Notify(TRUE, c) /\ UNCHANGED <<db, rooms, rows, moot>>
      BY <2>2, Zenon DEF DeleteMessage
    <3>3. c \in Task /\ c.room = r /\ c.kind = "deleted"
      <4>1. Me \in Users
        BY DEF Users
      <4> QED
        BY <1>2, <4>1, Callbacks, Zenon
    <3>4. messages' \in [DOMAIN db -> Seq(Nat)]
      <4>1. messages[r] \in Seq(Nat)
        BY <1>2, <3>2
      <4>2. RemoveAt(messages[r], i) \in Seq(Nat)
        BY <4>1, SMT DEF RemoveAt
      <4> QED
        BY <1>2, <3>1, <4>2
    <3> HIDE DEF c
    <3> QED
      BY <1>1, <3>2, <3>3, <3>4, TasksGrow
  <2> QED
    BY <2>1, <2>2
<1>4. PICK told \in BOOLEAN, c \in Task :
         /\ tasks' \in Seq(Task) /\ tasks' = IF told THEN Append(tasks, c) ELSE tasks
         /\ c.room = r /\ c.kind \in {"message", "deleted"}
         /\ r \in DOMAIN db /\ messages' \in [DOMAIN db -> Seq(Nat)]
         /\ UNCHANGED <<db, rooms, rows, moot>>
  BY <1>3, Zenon
<1>5. LobbyTypeOK'
  BY <1>1, <1>4, SMT DEF LobbyTypeOK, Served
<1>6. MembershipIsKnown'
  BY <1>4, Zenon DEF LobbyInv, MembershipIsKnown
<1>7. ~Joins(c, r)
  BY <1>4, SMT DEF Joins
<1>8. view' = view /\ pending_rooms' = pending_rooms
  BY Zenon DEF Served
<1>9. /\ DOMAIN rooms = DOMAIN db /\ db' = db /\ rooms' = rooms /\ rows' = rows /\ moot' = moot
      /\ Member(rooms', r) <=> Member(rooms, r)
  BY <1>1, <1>4, Zenon DEF LobbyTypeOK, Member
<1>10. JoinsAreTrue' /\ ListComesTrue' /\ RowsComeTrue' /\ ViewComesTrue' /\ PendingComesTrue'
  BY <1>4, <1>7, <1>8, <1>9, ChangesAreTold
<1> QED
  BY <1>5, <1>6, <1>10 DEF LobbyInv

LEMMA DeleteRoomKeeps ==
  ASSUME LobbyInv, NEW r \in Room, DeleteRoom(r), Served, \A x \in Room : Asked(x) => Asked(x)'
  PROVE  LobbyInv'
<1> DEFINE c == [kind |-> "gone", room |-> r]
           Stored == [users : SUBSET Users, requests : SUBSET Users]
           Known == [users : SUBSET Users, requests : SUBSET Users, notifications : Nat]
           D == DOMAIN db \ {r}
<1>1. LobbyTypeOK /\ MembershipIsKnown
  BY DEF LobbyInv
<1>2. /\ r \in DOMAIN db /\ db' = Without(db, r) /\ rooms' = Without(rooms, r)
      /\ messages' = Without(messages, r) /\ Notify(TRUE, c) /\ rows' = rows /\ moot' = moot
  BY Zenon DEF DeleteRoom
<1>3. /\ db \in [DOMAIN db -> Stored] /\ rooms \in [DOMAIN db -> Known]
      /\ messages \in [DOMAIN db -> Seq(Nat)]
  BY <1>1, Zenon DEF LobbyTypeOK
<1>4. /\ DOMAIN db' = D /\ db' \in [D -> Stored] /\ \A x \in D : db'[x] = db[x]
  BY <1>2, <1>3, SMT DEF Without
<1>5. /\ DOMAIN rooms' = D /\ rooms' \in [D -> Known] /\ \A x \in D : rooms'[x] = rooms[x]
      /\ DOMAIN rooms = DOMAIN db
  BY <1>2, <1>3, SMT DEF Without
<1>6. messages' \in [D -> Seq(Nat)]
  BY <1>2, <1>3, SMT DEF Without
<1>7. c \in Task /\ c.room = r /\ c.kind = "gone"
  <2>1. 0 \in Nat /\ Me \in Users
    BY DEF Users
  <2> QED
    BY <2>1, Callbacks, Zenon
<1>8. ~Joins(c, r) /\ Parts(c, r)
  BY <1>7, SMT DEF Joins, Parts
<1> HIDE DEF c
<1>9. tasks' \in Seq(Task) /\ tasks' = IF TRUE THEN Append(tasks, c) ELSE tasks
  BY <1>1, <1>2, <1>7, <1>8, TasksGrow, Zenon
<1>10. LobbyTypeOK'
  <2>1. rows' = rows /\ moot' = moot
    BY <1>2, Zenon
  <2>2. DOMAIN db' \subseteq DOMAIN db /\ db' \in [DOMAIN db' -> Stored] /\ rooms' \in [DOMAIN db' -> Known]
        /\ messages' \in [DOMAIN db' -> Seq(Nat)]
    BY <1>4, <1>5, <1>6, Zenon
  <2> QED
    BY <1>1, <1>9, <2>1, <2>2, SMT DEF LobbyTypeOK, Served
<1>11. MembershipIsKnown'
  BY <1>1, <1>4, <1>5, Zenon DEF MembershipIsKnown
<1>12. r \notin DOMAIN rooms' /\ ~Member(rooms', r)
  BY <1>5, Zenon DEF Member
<1>13. view' = view /\ pending_rooms' = pending_rooms
  BY Zenon DEF Served
<1>14. JoinsAreTrue' /\ ListComesTrue' /\ RowsComeTrue' /\ ViewComesTrue' /\ PendingComesTrue'
  <2>1. /\ \A x : x # r => (x \in DOMAIN rooms' <=> x \in DOMAIN rooms)
        /\ \A x \in DOMAIN rooms : x # r =>
             rooms'[x].users = rooms[x].users /\ rooms'[x].notifications = rooms[x].notifications
        /\ DOMAIN db' = DOMAIN rooms' /\ r \notin DOMAIN db' /\ r \in DOMAIN rooms
        /\ \A x \in DOMAIN rows : rows'[x].member = rows[x].member
        /\ DOMAIN rows' = DOMAIN rows /\ moot \subseteq moot'
        /\ \A x \in DOMAIN db : x # r => db'[x].requests = db[x].requests
    BY <1>2, <1>4, <1>5, SMT
  <2> QED
    BY <1>7, <1>8, <1>9, <1>12, <1>13, <2>1, ChangesAreTold
<1> QED
  BY <1>10, <1>11, <1>14 DEF LobbyInv

\* The requests that are left when one was handled.
LEMMA OthersAreStillAsked ==
  ASSUME sent \in Seq(Asking), sent # << >>, sent' = Tail(sent)
  PROVE  /\ sent' \in Seq(Asking) /\ Head(sent) \in Asking
         /\ \A x \in Room : Head(sent) # [kind |-> "REQUEST", room |-> x] /\ Asked(x) => Asked(x)'
<1>1. /\ Tail(sent) \in Seq(Asking) /\ Head(sent) = sent[1] /\ sent[1] \in Asking
      /\ \A i \in DOMAIN sent : i # 1 => i - 1 \in DOMAIN Tail(sent) /\ Tail(sent)[i - 1] = sent[i]
  BY OneLess
<1>2. ASSUME NEW x \in Room, Head(sent) # [kind |-> "REQUEST", room |-> x], Asked(x) PROVE Asked(x)'
  <2>1. PICK i \in DOMAIN sent : sent[i] = [kind |-> "REQUEST", room |-> x]
    BY <1>2, Zenon DEF Asked
  <2>2. i # 1
    BY <1>1, <1>2, <2>1, Zenon
  <2>3. i - 1 \in DOMAIN sent' /\ sent'[i - 1] = [kind |-> "REQUEST", room |-> x]
    BY <1>1, <2>1, <2>2, Zenon
  <2> QED
    BY <2>3, Zenon DEF Asked
<1> QED
  BY <1>1, <1>2, Zenon

\* A refusal or a state that the database leaves as it is.
LEMMA NothingChanges ==
  ASSUME LobbyInv, Served, UNCHANGED <<db, replica, tasks, rows, moot>>,
         \A x \in pending_rooms \cap DOMAIN db : Asked(x) => Asked(x)'
  PROVE  LobbyInv'
<1>1. /\ db' = db /\ rooms' = rooms /\ messages' = messages /\ tasks' = tasks /\ rows' = rows
      /\ moot' = moot /\ view' = view /\ pending_rooms' = pending_rooms
  BY Zenon DEF Served, replica
<1>2. LobbyTypeOK'
  BY <1>1, SMT DEF LobbyInv, LobbyTypeOK, Served
<1>3. MembershipIsKnown' /\ JoinsAreTrue' /\ ListComesTrue' /\ RowsComeTrue'
  BY <1>1, Zenon DEF LobbyInv, MembershipIsKnown, JoinsAreTrue, Member, ListComesTrue, Listed,
                     RowsComeTrue, WillPart, WillJoin
<1>4. ViewComesTrue'
  BY <1>1, Zenon DEF LobbyInv, ViewComesTrue, Member, WillPart, WillJoin
<1>5. PendingComesTrue'
  <2> SUFFICES ASSUME NEW x \in pending_rooms \cap DOMAIN db
               PROVE  Me \in db[x].requests \/ x \in moot \/ Asked(x)' \/ WillJoin(x)
    BY <1>1, Zenon DEF PendingComesTrue, Asked, WillJoin
  <2> QED
    BY Zenon DEF LobbyInv, PendingComesTrue
<1> QED
  BY <1>2, <1>3, <1>4, <1>5 DEF LobbyInv

LEMMA Kinds ==
  ASSUME NEW q \in Asking
  PROVE  /\ q.room \in Room
         /\ q.kind \in {"NEW_CHATROOM", "REQUEST", "NEW_MESSAGE", "DELETE_CHATROOM", "ADD_USER",
                        "REMOVE_USER", "DELETE_REQUEST"}
         /\ q.kind \in {"ADD_USER", "REMOVE_USER", "DELETE_REQUEST"} => q.user \in Users
         /\ q.kind = "REQUEST" => q = [kind |-> "REQUEST", room |-> q.room]
         /\ q.kind # "REQUEST" => \A x \in Room : q # [kind |-> "REQUEST", room |-> x]
<1> DEFINE A == [kind : {"NEW_CHATROOM", "REQUEST", "NEW_MESSAGE", "DELETE_CHATROOM"}, room : Room]
           B == [kind : {"ADD_USER", "REMOVE_USER", "DELETE_REQUEST"}, room : Room, user : Users]
<1>1. CASE q \in A
  BY <1>1, SMT
<1>2. CASE q \in B
  BY <1>2, SMT
<1> QED
  BY <1>1, <1>2, Zenon DEF Asking

LEMMA AnswerKeeps == ASSUME LobbyInv, Served, Answer PROVE LobbyInv'
<1> DEFINE q == Head(sent)
<1>1. /\ sent # << >> /\ sent' = Tail(sent)
      /\ \/ Refused(q) /\ UNCHANGED <<db, replica, tasks, rows, moot>>
         \/ ~Refused(q) /\ Grant(q)
  BY Zenon DEF Answer
<1>2. sent \in Seq(Asking)
  BY Zenon DEF LobbyInv, LobbyTypeOK
<1>3. /\ q \in Asking
      /\ \A x \in Room : q # [kind |-> "REQUEST", room |-> x] /\ Asked(x) => Asked(x)'
  BY <1>1, <1>2, OthersAreStillAsked, Zenon
<1> HIDE DEF q
<1>4. /\ q.room \in Room
      /\ q.kind \in {"NEW_CHATROOM", "REQUEST", "NEW_MESSAGE", "DELETE_CHATROOM", "ADD_USER",
                     "REMOVE_USER", "DELETE_REQUEST"}
      /\ q.kind \in {"ADD_USER", "REMOVE_USER", "DELETE_REQUEST"} => q.user \in Users
      /\ q.kind = "REQUEST" => q = [kind |-> "REQUEST", room |-> q.room]
      /\ q.kind # "REQUEST" => \A x \in Room : q # [kind |-> "REQUEST", room |-> x]
  BY <1>3, Kinds, Zenon
<1>5. q.kind # "REQUEST" => \A x \in Room : Asked(x) => Asked(x)'
  BY <1>3, <1>4, Zenon
<1>6. q.kind = "REQUEST" => \A x \in Room : x # q.room /\ Asked(x) => Asked(x)'
  <2> SUFFICES ASSUME q.kind = "REQUEST", NEW x \in Room, x # q.room, Asked(x) PROVE Asked(x)'
    BY DEF Asked
  <2>1. q.room # x => [kind |-> "REQUEST", room |-> q.room] # [kind |-> "REQUEST", room |-> x]
    BY SMT
  <2> QED
    BY <1>3, <1>4, <2>1, Zenon
<1>7. CASE Refused(q) /\ UNCHANGED <<db, replica, tasks, rows, moot>>
  <2>1. q.kind = "REQUEST" => q.room \notin DOMAIN db
    BY <1>7, SMT DEF Refused
  <2>2. pending_rooms \cap DOMAIN db \subseteq Room
    BY Zenon DEF LobbyInv, LobbyTypeOK
  <2>3. \A x \in pending_rooms \cap DOMAIN db : Asked(x) => Asked(x)'
    BY <1>5, <1>6, <2>1, <2>2, Zenon
  <2> QED
    BY <1>7, <2>3, NothingChanges, Zenon
<1>8. CASE Grant(q)
  <2>1. CASE q.kind = "NEW_CHATROOM"
    <3>1. NewRoom(q.room)
      BY <1>8, <2>1, SMT DEF Grant
    <3> QED
      BY <1>4, <1>5, <2>1, <3>1, NewRoomKeeps
  <2>2. CASE q.kind = "ADD_USER"
    <3>1. AddUser(q.room, q.user)
      BY <1>8, <2>2, SMT DEF Grant
    <3> QED
      BY <1>4, <1>5, <2>2, <3>1, AddUserKeeps
  <2>3. CASE q.kind = "REMOVE_USER"
    <3>1. RemoveUser(q.room, q.user)
      BY <1>8, <2>3, SMT DEF Grant
    <3> QED
      BY <1>4, <1>5, <2>3, <3>1, RemoveUserKeeps
  <2>4. CASE q.kind = "REQUEST"
    <3>1. Request(q.room, Me)
      BY <1>8, <2>4, SMT DEF Grant
    <3>2. Me \in Users /\ \A x \in Room : (x # q.room \/ Me # Me) /\ Asked(x) => Asked(x)'
      BY <1>6, <2>4, Zenon DEF Users
    <3> QED
      BY <1>4, <3>1, <3>2, RequestKeeps
  <2>5. CASE q.kind = "DELETE_REQUEST"
    <3>1. DeleteRequest(q.room, q.user)
      BY <1>8, <2>5, SMT DEF Grant
    <3> QED
      BY <1>4, <1>5, <2>5, <3>1, DeleteRequestKeeps
  <2>6. CASE q.kind = "NEW_MESSAGE"
    <3>1. NewMessage(q.room)
      BY <1>8, <2>6, SMT DEF Grant
    <3> QED
      BY <1>4, <1>5, <2>6, <3>1, MessagesKeep
  <2>7. CASE q.kind = "DELETE_CHATROOM"
    <3>1. DeleteRoom(q.room)
      BY <1>8, <2>7, SMT DEF Grant
    <3> QED
      BY <1>4, <1>5, <2>7, <3>1, DeleteRoomKeeps
  <2> QED
    BY <1>4, <2>1, <2>2, <2>3, <2>4, <2>5, <2>6, <2>7, Zenon
<1> QED
  BY <1>1, <1>7, <1>8

LEMMA OthersAskKeeps == ASSUME LobbyInv, Served, OthersAsk PROVE LobbyInv'
<1>1. sent' = sent
  BY Zenon DEF OthersAsk
<1>2. \A x \in Room : Asked(x) => Asked(x)'
  BY <1>1, Zenon DEF Asked
<1>3. Me \in Users /\ Other \in Users
  BY DEF Users
<1>4. PICK r \in Room :
       \/ NewRoom(r) \/ DeleteRoom(r)
       \/ \E u \in Users : AddUser(r, u) \/ RemoveUser(r, u) \/ DeleteRequest(r, u)
       \/ Request(r, Other)
       \/ NewMessage(r) \/ DeleteMessage(r)
  BY <1>3 DEF OthersAsk, Users
<1>5. CASE NewRoom(r)
  BY <1>2, <1>5, NewRoomKeeps
<1>6. CASE DeleteRoom(r)
  BY <1>2, <1>6, DeleteRoomKeeps
<1>7. CASE \E u \in Users : AddUser(r, u) \/ RemoveUser(r, u) \/ DeleteRequest(r, u)
  BY <1>2, <1>7, AddUserKeeps, RemoveUserKeeps, DeleteRequestKeeps
<1>8. CASE Request(r, Other)
  <2>1. \A x \in Room : (x # r \/ Other # Me) /\ Asked(x) => Asked(x)'
    BY <1>2, Zenon
  <2> QED
    BY <1>3, <1>8, <2>1, RequestKeeps
<1>9. CASE NewMessage(r) \/ DeleteMessage(r)
  BY <1>2, <1>9, MessagesKeep
<1> QED
  BY <1>4, <1>5, <1>6, <1>7, <1>8, <1>9, Zenon

LEMMA DatabaseKeeps == ASSUME LobbyInv, Database PROVE LobbyInv'
<1>1. sent' \in Seq(Asking)
  <2>1. sent \in Seq(Asking)
    BY Zenon DEF LobbyInv, LobbyTypeOK
  <2>2. CASE Answer
    BY <2>1, <2>2, OthersAreStillAsked, Zenon DEF Answer
  <2>3. CASE OthersAsk
    BY <2>1, <2>3, Zenon DEF OthersAsk
  <2> QED
    BY <2>2, <2>3, Zenon DEF Database
<1>2. Served
  BY <1>1, Zenon DEF Served, Database
<1> QED
  BY <1>2, AnswerKeeps, OthersAskKeeps, Zenon DEF Database

-----------------------------------------------------------------------------
(***************************************************************************)
(* The window                                                              *)
(***************************************************************************)

LEMMA SidebarIsTrue ==
  ASSUME NEW R
  PROVE  /\ Sidebar(R) \in [DOMAIN R -> Row] /\ DOMAIN Sidebar(R) = DOMAIN R
         /\ \A r \in DOMAIN R : Sidebar(R)[r].member <=> Me \in R[r].users
<1>1. \A r \in DOMAIN R : Sidebar(R)[r] = [member |-> Me \in R[r].users, fresh |-> TRUE]
  BY DEF Sidebar
<1>2. \A r \in DOMAIN R : Sidebar(R)[r].member <=> Me \in R[r].users
  <2> SUFFICES ASSUME NEW r \in DOMAIN R PROVE Sidebar(R)[r].member = (Me \in R[r].users)
    BY Zenon
  <2>1. \A b : [member |-> b, fresh |-> TRUE].member = b
    OBVIOUS
  <2>2. [member |-> Me \in R[r].users, fresh |-> TRUE].member = (Me \in R[r].users)
    BY <2>1, Zenon
  <2>3. Sidebar(R)[r] = [member |-> Me \in R[r].users, fresh |-> TRUE]
    BY <1>1, Zenon
  <2> QED
    BY <2>2, <2>3, Zenon
<1>3. \A b \in BOOLEAN : [member |-> b, fresh |-> TRUE] \in Row
  BY DEF Row
<1>4. \A r \in DOMAIN R : [member |-> Me \in R[r].users, fresh |-> TRUE] \in Row
  <2>1. \A r \in DOMAIN R : (Me \in R[r].users) \in BOOLEAN
    OBVIOUS
  <2> QED
    BY <1>3, <2>1, Zenon
<1> QED
  BY <1>1, <1>2, <1>4 DEF Sidebar

LEMMA ChatIsShown ==
  ASSUME LobbyTypeOK, tasks' \in Seq(Task), NEW r \in Room, NEW by \in Openings, show_chat_view(r, by)
  PROVE  /\ view' \in View
         /\ r \in DOMAIN rooms => view'.kind = "chat" /\ view'.room = r /\ view'.by = by
         /\ r \notin DOMAIN rooms => view'.kind = "blank"
<1> DEFINE late == {i \in DOMAIN tasks' : tasks'[i].kind = "message" /\ tasks'[i].room = r}
<1>1. Cardinality(late) \in Nat
  <2>1. DOMAIN tasks' = 1 .. Len(tasks') /\ Len(tasks') \in Nat
    BY SMT
  <2>2. IsFiniteSet(DOMAIN tasks')
    BY <2>1, FS_Interval
  <2> QED
    BY <2>2, FS_Subset, FS_CardinalityType
<1>2. CASE r \in DOMAIN rooms
  <2>1. view' = [kind |-> "chat", room |-> r, by |-> by, shown |-> messages[r],
                 overtaken |-> Cardinality(late)]
    BY <1>2, Zenon DEF show_chat_view
  <2> HIDE DEF late
  <2>2. messages[r] \in Seq(Nat)
    BY <1>2 DEF LobbyTypeOK
  <2>3. view' \in [kind : {"chat"}, room : Room, by : Openings, shown : Seq(Nat), overtaken : Nat]
    BY <1>1, <2>1, <2>2, SMT
  <2>4. view'.kind = "chat" /\ view'.room = r /\ view'.by = by
    BY <2>1, SMT
  <2> QED
    BY <1>2, <2>3, <2>4, Zenon DEF View
<1>3. CASE r \notin DOMAIN rooms
  <2>1. view' = [kind |-> "blank", room |-> r]
    BY <1>3, Zenon DEF show_chat_view, Blank
  <2>2. view' \in [kind : {"blank"}, room : Room] /\ view'.kind = "blank"
    BY <2>1, SMT
  <2> QED
    BY <1>3, <2>2, Zenon DEF View
<1> QED
  BY <1>2, <1>3, Zenon

LEMMA RoomIsShown ==
  ASSUME LobbyTypeOK, NEW r \in Room, NEW by \in Openings, show_private_room_view(r, by)
  PROVE  /\ view' \in View
         /\ r \in DOMAIN rooms => view'.kind = "private" /\ view'.room = r /\ view'.by = by
         /\ r \notin DOMAIN rooms => view'.kind = "blank"
<1>1. CASE r \in DOMAIN rooms
  <2>1. view' = [kind |-> "private", room |-> r, by |-> by, pending |-> r \in pending_rooms]
    BY <1>1, Zenon DEF show_private_room_view
  <2>2. \A p \in BOOLEAN : [kind |-> "private", room |-> r, by |-> by, pending |-> p] \in
          [kind : {"private"}, room : Room, by : Openings, pending : BOOLEAN]
    OBVIOUS
  <2>3. (r \in pending_rooms) \in BOOLEAN
    OBVIOUS
  <2>4. view' \in [kind : {"private"}, room : Room, by : Openings, pending : BOOLEAN]
    BY <2>1, <2>2, <2>3, Zenon
  <2>5. view'.kind = "private" /\ view'.room = r /\ view'.by = by
    BY <2>1
  <2> QED
    BY <1>1, <2>4, <2>5, Zenon DEF View
<1>2. CASE r \notin DOMAIN rooms
  <2>1. view' = [kind |-> "blank", room |-> r]
    BY <1>2, Zenon DEF show_private_room_view, Blank
  <2>2. view' \in [kind : {"blank"}, room : Room] /\ view'.kind = "blank"
    BY <2>1, SMT
  <2> QED
    BY <1>2, <2>2, Zenon DEF View
<1> QED
  BY <1>1, <1>2, Zenon

\* The client changes numbers and lists of its rooms, not who of them has the user.
SameMembers ==
  /\ rooms' \in [DOMAIN db -> [users : SUBSET Users, requests : SUBSET Users, notifications : Nat]]
  /\ \A r \in DOMAIN db : Me \in rooms'[r].users <=> Me \in rooms[r].users

\* The view stays, and a number in it may only become 0; or another one takes its place.
ViewMoves ==
  \/ /\ view'.kind = view.kind
     /\ view.kind \in {"private", "chat"} => view'.room = view.room /\ view'.by = view.by
     /\ \A r \in DOMAIN rooms : view.kind = "chat" /\ r = view.room =>
          rooms'[r].notifications \in {rooms[r].notifications, 0}
  \/ view'.kind \notin {"private", "chat"}
  \/ /\ view'.kind = "private" /\ view'.room \in DOMAIN rooms
     /\ view'.by = "row" => ~Member(rooms, view'.room) \/ WillJoin(view'.room)
  \/ /\ view'.kind = "chat" /\ view'.room \in DOMAIN rooms
     /\ view'.by \in {"row", "toast", "stale", "added"} =>
          Member(rooms, view'.room) \/ WillPart(view'.room)
     /\ view'.by \in {"row", "toast"} => rooms'[view'.room].notifications = 0

LEMMA MembersStay ==
  ASSUME LobbyTypeOK, SameMembers
  PROVE  DOMAIN rooms' = DOMAIN rooms /\ \A r : Member(rooms', r) <=> Member(rooms, r)
<1>1. DOMAIN rooms' = DOMAIN rooms /\ DOMAIN rooms = DOMAIN db
  BY DEF LobbyTypeOK, SameMembers
<1> QED
  BY <1>1, Zenon DEF Member, SameMembers

LEMMA WindowKeeps ==
  ASSUME LobbyInv, SameMembers, ViewMoves,
         UNCHANGED <<db, made, events, messages, tasks, moot>>,
         rows' = rows \/ rows' = Sidebar(rooms),
         sent' \in Seq(Asking), \A x \in Room : Asked(x) => Asked(x)',
         toasts' \subseteq Room, modal' \in Dialog, view' \in View,
         pending_rooms' \subseteq made, \A x \in pending_rooms' : x \in pending_rooms \/ Asked(x)'
  PROVE  LobbyInv'
<1>1. LobbyTypeOK
  BY DEF LobbyInv
<1>2. DOMAIN rooms' = DOMAIN rooms /\ \A r : Member(rooms', r) <=> Member(rooms, r)
  BY <1>1, MembersStay, Zenon
<1>3. /\ db' = db /\ made' = made /\ events' = events /\ messages' = messages /\ tasks' = tasks
      /\ moot' = moot /\ DOMAIN rooms = DOMAIN db
      /\ DOMAIN rows \subseteq made /\ DOMAIN rooms \subseteq made
      /\ pending_rooms \subseteq Room /\ made \subseteq Room
      /\ view.kind \in {"private", "chat"} => view.room \in made
  BY <1>1, Zenon DEF LobbyTypeOK
<1>4. rows' \in [DOMAIN rows' -> Row] /\ DOMAIN rows' \subseteq made
  <2>1. CASE rows' = rows
    BY <1>1, <2>1, Zenon DEF LobbyTypeOK
  <2>2. CASE rows' = Sidebar(rooms)
    BY <1>3, <2>2, SidebarIsTrue
  <2> QED
    BY <2>1, <2>2
<1>5. \A r : (WillPart(r)' <=> WillPart(r)) /\ (WillJoin(r)' <=> WillJoin(r))
  BY <1>3, Zenon DEF WillPart, WillJoin
<1>6. LobbyTypeOK'
  <2>1. view'.kind \in {"private", "chat"} => view'.room \in made
    BY <1>3, Zenon DEF ViewMoves
  <2> QED
    BY <1>1, <1>3, <1>4, <2>1, SMT DEF LobbyTypeOK, SameMembers
<1>7. MembershipIsKnown'
  BY <1>3, Zenon DEF LobbyInv, MembershipIsKnown, SameMembers
<1>8. JoinsAreTrue'
  BY <1>2, <1>3, Zenon DEF LobbyInv, JoinsAreTrue, Member
<1>9. ListComesTrue' /\ RowsComeTrue'
  <2>1. CASE rows' = rows
    <3>1. Listed => Listed'
      BY <1>2, <2>1, SMT DEF Listed, Member
    <3>2. ListComesTrue'
      BY <1>3, <3>1, Zenon DEF LobbyInv, ListComesTrue
    <3>3. \A r \in DOMAIN rows :
            /\ rows[r].member => Member(rooms', r) \/ WillPart(r)'
            /\ Member(rooms', r) => rows[r].member \/ WillJoin(r)'
      BY <1>2, <1>5, Zenon DEF LobbyInv, RowsComeTrue
    <3> QED
      BY <2>1, <3>2, <3>3 DEF RowsComeTrue, Member, WillPart, WillJoin
  <2>2. CASE rows' = Sidebar(rooms)
    <3>1. /\ DOMAIN rows' = DOMAIN rooms'
          /\ \A r \in DOMAIN rows' : rows'[r].member <=> Member(rooms', r)
      BY <1>2, <2>2, SidebarIsTrue, SMT DEF Member
    <3>2. Listed'
      BY <3>1, SMT DEF Listed, Member
    <3> QED
      BY <3>1, <3>2 DEF ListComesTrue, RowsComeTrue, Member
  <2> QED
    BY <2>1, <2>2
<1>10. ViewComesTrue'
  <2> DEFINE Fits ==
        /\ view'.kind \in {"private", "chat"} => view'.room \in DOMAIN rooms \/ WillPart(view'.room)
        /\ view'.kind = "chat" /\ view'.by \in {"row", "toast", "stale", "added"} =>
             Member(rooms, view'.room) \/ WillPart(view'.room)
        /\ view'.kind = "private" /\ view'.by = "row" =>
             ~Member(rooms, view'.room) \/ WillJoin(view'.room)
        /\ view'.kind = "chat" /\ view'.room \in DOMAIN rooms /\ view'.by \in {"row", "toast"} =>
             rooms'[view'.room].notifications = 0
  <2> SUFFICES Fits
    BY <1>2, <1>3, Zenon DEF ViewComesTrue, Member, WillPart, WillJoin
  <2>1. ASSUME view'.kind = view.kind,
               view.kind \in {"private", "chat"} => view'.room = view.room /\ view'.by = view.by,
               \A r \in DOMAIN rooms : view.kind = "chat" /\ r = view.room =>
                 rooms'[r].notifications \in {rooms[r].notifications, 0}
        PROVE  Fits
    <3>1. CASE view.kind \in {"private", "chat"}
      BY <2>1, <3>1 DEF LobbyInv, ViewComesTrue
    <3>2. CASE view.kind \notin {"private", "chat"}
      BY <2>1, <3>2
    <3> QED
      BY <3>1, <3>2
  <2>2. CASE view'.kind \notin {"private", "chat"}
    BY <2>2
  <2>3. CASE /\ view'.kind = "private" /\ view'.room \in DOMAIN rooms
             /\ view'.by = "row" => ~Member(rooms, view'.room) \/ WillJoin(view'.room)
    BY <2>3, SMT
  <2>4. CASE /\ view'.kind = "chat" /\ view'.room \in DOMAIN rooms
             /\ view'.by \in {"row", "toast", "stale", "added"} =>
                  Member(rooms, view'.room) \/ WillPart(view'.room)
             /\ view'.by \in {"row", "toast"} => rooms'[view'.room].notifications = 0
    BY <2>4, SMT
  <2> QED
    BY <2>1, <2>2, <2>3, <2>4, Zenon DEF ViewMoves
<1>11. PendingComesTrue'
  <2> SUFFICES ASSUME NEW x \in pending_rooms', x \in DOMAIN db
               PROVE  Me \in db[x].requests \/ x \in moot \/ Asked(x)' \/ WillJoin(x)'
    BY <1>3, Zenon DEF PendingComesTrue, Asked, WillJoin
  <2> QED
    BY <1>3, <1>5, Zenon DEF LobbyInv, PendingComesTrue
<1> QED
  BY <1>6, <1>7, <1>8, <1>9, <1>10, <1>11 DEF LobbyInv

\* What an action of the user leaves alone.
LEMMA WhatStays ==
  ASSUME LobbyTypeOK
  PROVE  /\ rooms' = rooms => SameMembers
         /\ rooms' = rooms /\ view' = view => ViewMoves
         /\ sent' = sent => sent' \in Seq(Asking) /\ \A x \in Room : Asked(x) => Asked(x)'
         /\ pending_rooms' \subseteq pending_rooms =>
              pending_rooms' \subseteq made /\ \A x \in pending_rooms' : x \in pending_rooms \/ Asked(x)'
         /\ toasts' \subseteq toasts => toasts' \subseteq Room
         /\ modal' = modal => modal' \in Dialog
         /\ view' = view => view' \in View
         /\ view' = Welcome => view' \in View /\ ViewMoves
         /\ tasks' = tasks => tasks' \in Seq(Task)
<1>1. rooms' = rooms => SameMembers
  BY Zenon DEF LobbyTypeOK, SameMembers
<1>2. rooms' = rooms /\ view' = view => ViewMoves
  BY SMT DEF ViewMoves
<1>3. sent' = sent => sent' \in Seq(Asking) /\ \A x \in Room : Asked(x) => Asked(x)'
  BY Zenon DEF LobbyTypeOK, Asked
<1>4. view' = Welcome => view' \in View /\ ViewMoves
  <2>1. Welcome.kind = "welcome"
    BY SMT DEF Welcome
  <2>2. view' = Welcome => view'.kind \notin {"private", "chat"}
    BY <2>1, SMT
  <2> QED
    BY <2>2, Zenon DEF View, ViewMoves
<1> QED
  BY <1>1, <1>2, <1>3, <1>4, Zenon DEF LobbyTypeOK

LEMMA RequestsAreSent ==
  ASSUME LobbyTypeOK, NEW requests \in Seq(Asking), Send(requests)
  PROVE  /\ sent' \in Seq(Asking) /\ \A x \in Room : Asked(x) => Asked(x)'
         /\ \A i \in DOMAIN requests : \E j \in DOMAIN sent' : sent'[j] = requests[i]
<1>1. sent \in Seq(Asking) /\ sent' = sent \o requests
  BY Zenon DEF LobbyTypeOK, Send
<1>2. /\ sent' \in Seq(Asking)
      /\ \A i \in DOMAIN sent : i \in DOMAIN sent' /\ sent'[i] = sent[i]
      /\ \A i \in DOMAIN requests : Len(sent) + i \in DOMAIN sent' /\ sent'[Len(sent) + i] = requests[i]
  BY <1>1, SMT
<1>3. \A x \in Room : Asked(x) => Asked(x)'
  BY <1>2, Zenon DEF Asked
<1> QED
  BY <1>2, <1>3, Zenon

LEMMA Requests ==
  ASSUME NEW r \in Room, NEW u \in Users
  PROVE  /\ \A k \in {"NEW_CHATROOM", "REQUEST", "NEW_MESSAGE", "DELETE_CHATROOM"} :
              [kind |-> k, room |-> r] \in Asking
         /\ \A k \in {"ADD_USER", "REMOVE_USER", "DELETE_REQUEST"} :
              [kind |-> k, room |-> r, user |-> u] \in Asking
<1>1. \A k \in {"NEW_CHATROOM", "REQUEST", "NEW_MESSAGE", "DELETE_CHATROOM"} :
        [kind |-> k, room |-> r] \in
          [kind : {"NEW_CHATROOM", "REQUEST", "NEW_MESSAGE", "DELETE_CHATROOM"}, room : Room]
  OBVIOUS
<1>2. \A k \in {"ADD_USER", "REMOVE_USER", "DELETE_REQUEST"} :
        [kind |-> k, room |-> r, user |-> u] \in
          [kind : {"ADD_USER", "REMOVE_USER", "DELETE_REQUEST"}, room : Room, user : Users]
  OBVIOUS
<1> QED
  BY <1>1, <1>2, Zenon DEF Asking

LEMMA OneRequest ==
  ASSUME NEW q \in Asking
  PROVE  <<q>> \in Seq(Asking)
  BY SMT

\* What is in a view or in a dialog.
LEMMA Shapes ==
  ASSUME LobbyTypeOK
  PROVE  /\ view.kind \in {"private", "chat"} => view.room \in Room /\ view.room \in made
         /\ view.kind = "private" => current_room = view.room
         /\ view.kind = "chat" => current_room = view.room /\ view.by \in Openings
         /\ modal.kind \in {"requested", "leave", "panel"} => modal.room \in Room
         /\ modal.kind = "panel" => /\ modal.requests \in SUBSET Users /\ modal.members \in SUBSET {Other}
                                    /\ modal.addable \in SUBSET Users
         /\ None \in Dialog
<1>1. view \in View /\ modal \in Dialog /\ made \subseteq Room
      /\ (view.kind \in {"private", "chat"} => view.room \in made)
  BY Zenon DEF LobbyTypeOK
<1>2. /\ view.kind = "private" => "room" \in DOMAIN view
      /\ view.kind = "chat" => "room" \in DOMAIN view /\ view.by \in Openings
  BY <1>1, SMT DEF View, Welcome
<1>3. /\ modal.kind \in {"requested", "leave", "panel"} => modal.room \in Room
      /\ modal.kind = "panel" => /\ modal.requests \in SUBSET Users /\ modal.members \in SUBSET {Other}
                                 /\ modal.addable \in SUBSET Users
  BY <1>1, SMT DEF Dialog, None
<1> QED
  BY <1>1, <1>2, <1>3, Zenon DEF current_room, Dialog

LEMMA NumberGoes ==
  ASSUME LobbyTypeOK, NEW r \in DOMAIN rooms, NEW n \in Nat,
         rooms' = [rooms EXCEPT ![r].notifications = n]
  PROVE  /\ SameMembers /\ rooms'[r].notifications = n
         /\ \A x \in DOMAIN rooms : x # r => rooms'[x].notifications = rooms[x].notifications
<1> DEFINE Known == [users : SUBSET Users, requests : SUBSET Users, notifications : Nat]
<1>1. rooms \in [DOMAIN db -> Known] /\ r \in DOMAIN db
  BY DEF LobbyTypeOK
<1>2. /\ rooms' \in [DOMAIN db -> Known] /\ rooms'[r].notifications = n
      /\ \A x \in DOMAIN db : rooms'[x].users = rooms[x].users
      /\ \A x \in DOMAIN db : x # r => rooms'[x].notifications = rooms[x].notifications
  BY <1>1, SMT
<1> QED
  BY <1>1, <1>2 DEF SameMembers

LEMMA ClickKeeps == ASSUME LobbyInv, NEW r \in Room, _click(r) PROVE LobbyInv'
<1>1. LobbyTypeOK
  BY DEF LobbyInv
<1> DEFINE by == IF rows[r].fresh THEN "row" ELSE "stale"
<1>2. /\ r \in DOMAIN rows /\ tasks' = tasks
      /\ IF rows[r].member THEN show_chat_view(r, by) ELSE show_private_room_view(r, "row")
      /\ rooms' = IF rows[r].member /\ rows[r].fresh /\ r \in DOMAIN rooms
                  THEN [rooms EXCEPT ![r].notifications = 0] ELSE rooms
      /\ rows' = rows \/ rows' = Sidebar(rooms)
      /\ UNCHANGED <<db, made, sent, events, messages, pending_rooms, toasts, modal, moot>>
  BY SMT DEF _click, refresh_sidebar, server
<1>3. tasks' \in Seq(Task)
  BY <1>1, <1>2, Zenon DEF LobbyTypeOK
<1>4. SameMembers /\ (rows[r].member /\ rows[r].fresh /\ r \in DOMAIN rooms => rooms'[r].notifications = 0)
  <2>1. CASE rows[r].member /\ rows[r].fresh /\ r \in DOMAIN rooms
    <3>1. rooms' = [rooms EXCEPT ![r].notifications = 0]
      BY <1>2, <2>1, Zenon
    <3>2. 0 \in Nat
      OBVIOUS
    <3> QED
      BY <1>1, <2>1, <3>1, <3>2, NumberGoes, Zenon
  <2>2. CASE ~(rows[r].member /\ rows[r].fresh /\ r \in DOMAIN rooms)
    <3>1. rooms' = rooms
      BY <1>2, <2>2, Zenon
    <3> QED
      BY <1>1, <2>2, <3>1, WhatStays, Zenon
  <2> QED
    BY <2>1, <2>2, Zenon
<1>5. /\ rows[r].member => Member(rooms, r) \/ WillPart(r)
      /\ Member(rooms, r) => rows[r].member \/ WillJoin(r)
  BY <1>2, Zenon DEF LobbyInv, RowsComeTrue
<1>6. view' \in View /\ ViewMoves
  <2>1. CASE rows[r].member
    <3>1. by \in Openings /\ (by \in {"row", "toast"} => rows[r].fresh)
      BY Zenon DEF Openings
    <3>2. show_chat_view(r, by)
      BY <1>2, <2>1, Zenon
    <3> HIDE DEF by
    <3>3. /\ view' \in View
          /\ r \in DOMAIN rooms => view'.kind = "chat" /\ view'.room = r /\ view'.by = by
          /\ r \notin DOMAIN rooms => view'.kind = "blank"
      BY <1>1, <1>3, <3>1, <3>2, ChatIsShown, Zenon
    <3> QED
      BY <1>4, <1>5, <2>1, <3>1, <3>3 DEF ViewMoves
  <2>2. CASE ~rows[r].member
    <3>1. show_private_room_view(r, "row")
      BY <1>2, <2>2, Zenon
    <3>3. "row" \in Openings
      BY Zenon DEF Openings
    <3>2. /\ view' \in View
          /\ r \in DOMAIN rooms => view'.kind = "private" /\ view'.room = r /\ view'.by = "row"
          /\ r \notin DOMAIN rooms => view'.kind = "blank"
      BY <1>1, <3>1, <3>3, RoomIsShown, Zenon
    <3> QED
      BY <1>5, <2>2, <3>2 DEF ViewMoves
  <2> QED
    BY <2>1, <2>2, Zenon
<1>7. /\ sent' \in Seq(Asking) /\ \A x \in Room : Asked(x) => Asked(x)'
      /\ pending_rooms' \subseteq made /\ \A x \in pending_rooms' : x \in pending_rooms \/ Asked(x)'
      /\ toasts' \subseteq Room /\ modal' \in Dialog
  <2>1. /\ sent' = sent /\ modal' = modal /\ pending_rooms' \subseteq pending_rooms
        /\ toasts' \subseteq toasts
    BY <1>2, SMT
  <2> QED
    BY <1>1, <2>1, WhatStays, Zenon
<1> QED
  BY <1>2, <1>4, <1>6, <1>7, WindowKeeps, Zenon

LEMMA ToastKeeps == ASSUME LobbyInv, NEW r \in Room, _toast_click(r) \/ Expire(r) PROVE LobbyInv'
<1>1. LobbyTypeOK
  BY DEF LobbyInv
<1>2. /\ UNCHANGED <<db, made, sent, events, messages, pending_rooms, modal, moot, tasks>>
      /\ toasts' \subseteq toasts
      /\ \/ UNCHANGED <<rooms, view, rows>>
         \/ /\ Member(rooms, r) /\ rooms' = [rooms EXCEPT ![r].notifications = 0]
            /\ show_chat_view(r, "toast") /\ rows' = Sidebar(rooms)
  <2>1. CASE _toast_click(r)
    BY <2>1, SMT DEF _toast_click, _close_toast, refresh_sidebar, server
  <2>2. CASE Expire(r)
    BY <2>2, SMT DEF Expire, _close_toast, server, replica
  <2> QED
    BY <2>1, <2>2, Zenon
<1>3. tasks' \in Seq(Task)
  BY <1>1, <1>2, Zenon DEF LobbyTypeOK
<1>4. /\ sent' \in Seq(Asking) /\ \A x \in Room : Asked(x) => Asked(x)'
      /\ pending_rooms' \subseteq made /\ \A x \in pending_rooms' : x \in pending_rooms \/ Asked(x)'
      /\ toasts' \subseteq Room /\ modal' \in Dialog
  <2>1. /\ sent' = sent /\ modal' = modal /\ pending_rooms' \subseteq pending_rooms
        /\ toasts' \subseteq toasts
    BY <1>2, SMT
  <2> QED
    BY <1>1, <2>1, WhatStays, Zenon
<1>5. CASE UNCHANGED <<rooms, view, rows>>
  <2>1. rooms' = rooms /\ view' = view /\ rows' = rows
    BY <1>5, Zenon
  <2>2. SameMembers /\ ViewMoves /\ view' \in View
    BY <1>1, <2>1, WhatStays, Zenon
  <2> QED
    BY <1>2, <1>4, <2>1, <2>2, WindowKeeps, Zenon
<1>6. CASE /\ Member(rooms, r) /\ rooms' = [rooms EXCEPT ![r].notifications = 0]
           /\ show_chat_view(r, "toast") /\ rows' = Sidebar(rooms)
  <2>1. r \in DOMAIN rooms
    BY <1>6, Zenon DEF Member
  <2>5. 0 \in Nat
    OBVIOUS
  <2>6. "toast" \in Openings
    BY Zenon DEF Openings
  <2>2. SameMembers /\ rooms'[r].notifications = 0
    BY <1>1, <1>6, <2>1, <2>5, NumberGoes, Zenon
  <2>3. view' \in View /\ view'.kind = "chat" /\ view'.room = r /\ view'.by = "toast"
    BY <1>1, <1>3, <1>6, <2>1, <2>6, ChatIsShown, Zenon
  <2>4. ViewMoves
    BY <1>6, <2>1, <2>2, <2>3, Zenon DEF ViewMoves
  <2> QED
    BY <1>2, <1>4, <1>6, <2>2, <2>3, <2>4, WindowKeeps, Zenon
<1> QED
  BY <1>2, <1>5, <1>6, Zenon

LEMMA SendKeeps == ASSUME LobbyInv, send_message \/ do_create PROVE LobbyInv'
<1>1. LobbyTypeOK
  BY DEF LobbyInv
<1>2. UNCHANGED <<db, made, events, rooms, messages, tasks, view, pending_rooms, rows, toasts, modal, moot>>
  BY SMT DEF send_message, do_create, replica, window
<1>3. \E requests \in Seq(Asking) : Send(requests)
  <2>1. CASE send_message
    <3>1. current_room \in Room /\ Send(<<[kind |-> "NEW_MESSAGE", room |-> current_room]>>)
      BY <1>1, <2>1, Shapes DEF send_message, chat_history
    <3>2. [kind |-> "NEW_MESSAGE", room |-> current_room] \in Asking
      BY <3>1, SMT DEF Asking
    <3> QED
      BY <3>1, <3>2, OneRequest, Zenon
  <2>2. CASE do_create
    <3>1. PICK r \in Mine : Send(<<[kind |-> "NEW_CHATROOM", room |-> r]>>)
      BY <2>2, Zenon DEF do_create
    <3>2. [kind |-> "NEW_CHATROOM", room |-> r] \in Asking
      BY LobbyAssumption, SMT DEF Asking
    <3> QED
      BY <3>1, <3>2, OneRequest, Zenon
  <2> QED
    BY <2>1, <2>2, Zenon
<1>4. sent' \in Seq(Asking) /\ \A x \in Room : Asked(x) => Asked(x)'
  BY <1>1, <1>3, RequestsAreSent, Zenon
<1>5. /\ SameMembers /\ ViewMoves /\ toasts' \subseteq Room /\ modal' \in Dialog /\ view' \in View
      /\ pending_rooms' \subseteq made /\ \A x \in pending_rooms' : x \in pending_rooms \/ Asked(x)'
  <2>1. /\ rooms' = rooms /\ view' = view /\ modal' = modal /\ pending_rooms' \subseteq pending_rooms
        /\ toasts' \subseteq toasts
    BY <1>2, Zenon
  <2> QED
    BY <1>1, <2>1, WhatStays, Zenon
<1> QED
  BY <1>2, <1>4, <1>5, WindowKeeps, Zenon

LEMMA JoinKeeps == ASSUME LobbyInv, request_join_from_view PROVE LobbyInv'
<1> DEFINE q == [kind |-> "REQUEST", room |-> view.room]
<1>1. LobbyTypeOK
  BY DEF LobbyInv
<1>2. /\ UNCHANGED <<db, made, events, rooms, messages, tasks, view, rows, toasts, moot>>
      /\ view.kind = "private" /\ Send(<<q>>)
      /\ pending_rooms' = pending_rooms \cup {view.room}
      /\ modal' = [kind |-> "requested", room |-> view.room]
  BY SMT DEF request_join_from_view, replica
<1>3. view.room \in Room /\ view.room \in made
  BY <1>1, <1>2, Shapes, Zenon
<1>4. <<q>> \in Seq(Asking) /\ 1 \in DOMAIN <<q>> /\ <<q>>[1] = q
  BY <1>3, SMT DEF Asking
<1>5. sent' \in Seq(Asking) /\ (\A x \in Room : Asked(x) => Asked(x)') /\ Asked(view.room)'
  <2>1. /\ sent' \in Seq(Asking) /\ \A x \in Room : Asked(x) => Asked(x)'
        /\ \A i \in DOMAIN <<q>> : \E j \in DOMAIN sent' : sent'[j] = <<q>>[i]
    BY <1>1, <1>2, <1>4, RequestsAreSent, Zenon
  <2>2. \E j \in DOMAIN sent' : sent'[j] = q
    BY <1>4, <2>1, Zenon
  <2>3. view' = view
    BY <1>2, Zenon
  <2> QED
    BY <2>1, <2>2, <2>3, Zenon DEF Asked
<1>6. modal' \in Dialog
  BY <1>2, <1>3, SMT DEF Dialog
<1>7. pending_rooms' \subseteq made /\ \A x \in pending_rooms' : x \in pending_rooms \/ Asked(x)'
  <2>1. pending_rooms \subseteq made /\ view' = view
    BY <1>1, <1>2, Zenon DEF LobbyTypeOK
  <2> QED
    BY <1>2, <1>3, <1>5, <2>1, Zenon
<1>8. SameMembers /\ ViewMoves /\ toasts' \subseteq Room /\ view' \in View
  <2>1. rooms' = rooms /\ view' = view /\ toasts' \subseteq toasts
    BY <1>2, Zenon
  <2> QED
    BY <1>1, <2>1, WhatStays, Zenon
<1> QED
  BY <1>2, <1>5, <1>6, <1>7, <1>8, WindowKeeps, Zenon

LEMMA RequestSentKeeps == ASSUME LobbyInv, RequestSent PROVE LobbyInv'
<1>1. LobbyTypeOK
  BY DEF LobbyInv
<1>2. /\ UNCHANGED <<db, made, sent, events, rooms, messages, tasks, pending_rooms, rows, toasts, moot>>
      /\ modal.kind = "requested" /\ modal' = None /\ show_private_room_view(modal.room, "dialog")
  BY SMT DEF RequestSent, replica, server
<1>3. modal.room \in Room /\ modal' \in Dialog
  BY <1>1, <1>2, Shapes, Zenon
<1>4. "dialog" \in Openings /\ "dialog" # "row"
  BY SMT DEF Openings
<1>5. /\ view' \in View
      /\ modal.room \in DOMAIN rooms => view'.kind = "private" /\ view'.room = modal.room /\ view'.by = "dialog"
      /\ modal.room \notin DOMAIN rooms => view'.kind = "blank"
  BY <1>1, <1>2, <1>3, <1>4, RoomIsShown, Zenon
<1>6. ViewMoves
  BY <1>4, <1>5, SMT DEF ViewMoves
<1>7. /\ SameMembers /\ toasts' \subseteq Room
      /\ sent' \in Seq(Asking) /\ \A x \in Room : Asked(x) => Asked(x)'
      /\ pending_rooms' \subseteq made /\ \A x \in pending_rooms' : x \in pending_rooms \/ Asked(x)'
  <2>1. /\ rooms' = rooms /\ sent' = sent /\ pending_rooms' \subseteq pending_rooms
        /\ toasts' \subseteq toasts
    BY <1>2, Zenon
  <2> QED
    BY <1>1, <2>1, WhatStays, Zenon
<1> QED
  BY <1>2, <1>3, <1>5, <1>6, <1>7, WindowKeeps, Zenon

LEMMA PanelIsDialog ==
  ASSUME LobbyTypeOK, NEW r,
         NEW R \in [DOMAIN db -> [users : SUBSET Users, requests : SUBSET Users, notifications : Nat]]
  PROVE  Panel(R, r) \in Dialog
<1>1. CASE r \in DOMAIN R
  <2>1. DOMAIN R \subseteq Room
    BY Zenon DEF LobbyTypeOK
  <2>2. r \in Room /\ R[r].requests \in SUBSET Users /\ R[r].users \in SUBSET Users
    BY <1>1, <2>1, SMT
  <2>3. R[r].users \ {Me} \in SUBSET {Other} /\ Users \ R[r].users \in SUBSET Users
    BY <2>2, SMT DEF Users
  <2> HIDE DEF Users
  <2>4. [kind |-> "panel", room |-> r, requests |-> R[r].requests, members |-> R[r].users \ {Me},
         addable |-> Users \ R[r].users]
          \in [kind : {"panel"}, room : Room, requests : SUBSET Users, members : SUBSET {Other},
               addable : SUBSET Users]
    BY <2>2, <2>3, SMT
  <2> QED
    BY <1>1, <2>4, Zenon DEF Panel, Dialog, Users
<1>2. CASE r \notin DOMAIN R
  BY <1>2, Zenon DEF Panel, Dialog
<1> QED
  BY <1>1, <1>2, Zenon

LEMMA DialogKeeps == ASSUME LobbyInv, leave_room \/ Cancel \/ open_coordinator_panel PROVE LobbyInv'
<1>1. LobbyTypeOK
  BY DEF LobbyInv
<1>2. UNCHANGED <<db, made, sent, events, rooms, messages, tasks, view, pending_rooms, rows, toasts, moot>>
  BY SMT DEF leave_room, Cancel, open_coordinator_panel, replica, server
<1>3. modal' \in Dialog
  <2>1. CASE leave_room
    <3>1. view.room \in Room /\ modal' = [kind |-> "leave", room |-> view.room]
      BY <1>1, <2>1, Shapes DEF leave_room, chat_history
    <3> QED
      BY <3>1, SMT DEF Dialog
  <2>2. CASE Cancel
    BY <2>2, Zenon DEF Cancel, Dialog
  <2>3. CASE open_coordinator_panel
    <3>1. rooms \in [DOMAIN db -> [users : SUBSET Users, requests : SUBSET Users, notifications : Nat]]
      BY <1>1, Zenon DEF LobbyTypeOK
    <3>2. modal' = Panel(rooms, view.room)
      BY <2>3, Zenon DEF open_coordinator_panel
    <3> QED
      BY <1>1, <3>1, <3>2, PanelIsDialog, Zenon
  <2> QED
    BY <2>1, <2>2, <2>3, Zenon
<1>4. /\ SameMembers /\ ViewMoves /\ toasts' \subseteq Room /\ view' \in View
      /\ sent' \in Seq(Asking) /\ \A x \in Room : Asked(x) => Asked(x)'
      /\ pending_rooms' \subseteq made /\ \A x \in pending_rooms' : x \in pending_rooms \/ Asked(x)'
  <2>1. /\ rooms' = rooms /\ view' = view /\ sent' = sent /\ pending_rooms' \subseteq pending_rooms
        /\ toasts' \subseteq toasts
    BY <1>2, Zenon
  <2> QED
    BY <1>1, <2>1, WhatStays, Zenon
<1> QED
  BY <1>2, <1>3, <1>4, WindowKeeps, Zenon

\* A dialog ends with requests, and the sidebar is drawn again.
LEMMA RequestsKeep ==
  ASSUME LobbyInv, confirm_leave \/ delete_room_action \/ (\E u \in Users : _add(u))
  PROVE  LobbyInv'
<1>1. LobbyTypeOK
  BY DEF LobbyInv
<1>2. /\ UNCHANGED <<db, made, events, rooms, messages, tasks, toasts, moot>>
      /\ modal.kind \in {"leave", "panel"} /\ modal' = None /\ rows' = Sidebar(rooms)
      /\ view' = view \/ view' = Welcome
      /\ pending_rooms' \subseteq pending_rooms
  <2>1. CASE confirm_leave
    BY <2>1, SMT DEF confirm_leave, refresh_sidebar
  <2>2. CASE delete_room_action
    BY <2>2, SMT DEF delete_room_action, refresh_sidebar
  <2>3. CASE \E u \in Users : _add(u)
    BY <2>3, SMT DEF _add, refresh_sidebar
  <2> QED
    BY <2>1, <2>2, <2>3, Zenon
<1>3. modal.room \in Room /\ modal' \in Dialog
  BY <1>1, <1>2, Shapes, Zenon
<1>4. \E requests \in Seq(Asking) : Send(requests)
  <2>1. CASE confirm_leave
    <3> DEFINE q1 == [kind |-> "NEW_MESSAGE", room |-> modal.room]
               q2 == [kind |-> "REMOVE_USER", room |-> modal.room, user |-> Me]
    <3>1. q1 \in Asking /\ q2 \in Asking
      BY <1>3, SMT DEF Asking, Users
    <3>2. Send(<<q1, q2>>)
      BY <2>1, Zenon DEF confirm_leave
    <3> HIDE DEF q1, q2
    <3>3. <<q1, q2>> \in Seq(Asking)
      BY <3>1, SMT
    <3> QED
      BY <3>2, <3>3, Zenon
  <2>2. CASE delete_room_action
    <3>1. [kind |-> "DELETE_CHATROOM", room |-> modal.room] \in Asking
      BY <1>3, SMT DEF Asking
    <3> QED
      BY <2>2, <3>1, OneRequest, Zenon DEF delete_room_action
  <2>3. CASE \E u \in Users : _add(u)
    <3>1. PICK u \in Users : Send(<<[kind |-> "ADD_USER", room |-> modal.room, user |-> u]>>)
      BY <2>3, Zenon DEF _add
    <3>2. [kind |-> "ADD_USER", room |-> modal.room, user |-> u] \in Asking
      BY <1>3, SMT DEF Asking
    <3> QED
      BY <3>1, <3>2, OneRequest, Zenon
  <2> QED
    BY <2>1, <2>2, <2>3, Zenon
<1>5. sent' \in Seq(Asking) /\ \A x \in Room : Asked(x) => Asked(x)'
  BY <1>1, <1>4, RequestsAreSent, Zenon
<1>6. /\ SameMembers /\ ViewMoves /\ toasts' \subseteq Room /\ view' \in View
      /\ pending_rooms' \subseteq made /\ \A x \in pending_rooms' : x \in pending_rooms \/ Asked(x)'
  <2>1. rooms' = rooms /\ toasts' \subseteq toasts
    BY <1>2, Zenon
  <2> QED
    BY <1>1, <1>2, <2>1, WhatStays, Zenon
<1> QED
  BY <1>2, <1>3, <1>5, <1>6, WindowKeeps, Zenon

\* The dictionary may be changed, but not whether the user is a member.
LEMMA EditKeeps ==
  ASSUME LobbyInv, modal.kind = "panel", NEW q \in Asking, NEW room, Edit(q, room),
         modal.room \in DOMAIN rooms =>
           /\ room \in [users : SUBSET Users, requests : SUBSET Users, notifications : Nat]
           /\ Me \in room.users <=> Me \in rooms[modal.room].users
  PROVE  LobbyInv'
<1> DEFINE Known == [users : SUBSET Users, requests : SUBSET Users, notifications : Nat]
<1>1. LobbyTypeOK
  BY DEF LobbyInv
<1>2. /\ UNCHANGED <<db, made, events, messages, tasks, pending_rooms, rows, toasts, moot>>
      /\ Send(<<q>>) /\ show_chat_view(modal.room, "dialog") /\ modal' = Panel(rooms', modal.room)
      /\ rooms' = IF modal.room \in DOMAIN rooms THEN [rooms EXCEPT ![modal.room] = room] ELSE rooms
  BY SMT DEF Edit
<1>3. rooms \in [DOMAIN db -> Known] /\ DOMAIN rooms = DOMAIN db
  BY <1>1, Zenon DEF LobbyTypeOK
<1>4. /\ rooms' \in [DOMAIN db -> Known]
      /\ \A r \in DOMAIN db : Me \in rooms'[r].users <=> Me \in rooms[r].users
  <2>1. CASE modal.room \in DOMAIN rooms
    <3>1. /\ rooms' = [rooms EXCEPT ![modal.room] = room] /\ room \in Known
          /\ Me \in room.users <=> Me \in rooms[modal.room].users
      BY <1>2, <2>1, Zenon
    <3> HIDE DEF Known
    <3>2. /\ rooms' \in [DOMAIN db -> Known]
          /\ \A r \in DOMAIN db : rooms'[r] = IF r = modal.room THEN room ELSE rooms[r]
      BY <1>3, <2>1, <3>1, SMT
    <3> QED
      BY <3>1, <3>2, Zenon
  <2>2. CASE modal.room \notin DOMAIN rooms
    BY <1>2, <1>3, <2>2, Zenon
  <2> QED
    BY <2>1, <2>2, Zenon
<1>5. SameMembers
  BY <1>4, Zenon DEF SameMembers
<1>6. modal.room \in Room
  BY <1>1, Shapes, Zenon
<1>7. tasks' \in Seq(Task) /\ "dialog" \in Openings /\ "dialog" \notin {"row", "toast", "stale", "added"}
  <2>1. tasks' \in Seq(Task)
    BY <1>1, <1>2, Zenon DEF LobbyTypeOK
  <2>2. "dialog" \in Openings /\ "dialog" \notin {"row", "toast", "stale", "added"}
    BY SMT DEF Openings
  <2> QED
    BY <2>1, <2>2, Zenon
<1>8. /\ view' \in View
      /\ modal.room \in DOMAIN rooms => view'.kind = "chat" /\ view'.room = modal.room /\ view'.by = "dialog"
      /\ modal.room \notin DOMAIN rooms => view'.kind = "blank"
  BY <1>1, <1>2, <1>6, <1>7, ChatIsShown, Zenon
<1>9. ViewMoves
  BY <1>8, SMT DEF ViewMoves
<1>10. modal' \in Dialog
  BY <1>1, <1>2, <1>4, PanelIsDialog, Zenon
<1>11. <<q>> \in Seq(Asking)
  BY OneRequest, Zenon
<1>12. sent' \in Seq(Asking) /\ \A x \in Room : Asked(x) => Asked(x)'
  BY <1>1, <1>2, <1>11, RequestsAreSent, Zenon
<1>13. /\ toasts' \subseteq Room
       /\ pending_rooms' \subseteq made /\ \A x \in pending_rooms' : x \in pending_rooms \/ Asked(x)'
  <2>1. toasts' \subseteq toasts /\ pending_rooms' \subseteq pending_rooms
    BY <1>2, Zenon
  <2> QED
    BY <1>1, <2>1, WhatStays, Zenon
<1> QED
  BY <1>2, <1>5, <1>8, <1>9, <1>10, <1>12, <1>13, WindowKeeps, Zenon

LEMMA PanelKeeps ==
  ASSUME LobbyInv, NEW u \in Users, accept_action(u) \/ reject_action(u) \/ kick_action(u)
  PROVE  LobbyInv'
<1> DEFINE Known == [users : SUBSET Users, requests : SUBSET Users, notifications : Nat]
           R == rooms[modal.room]
<1>1. LobbyTypeOK
  BY DEF LobbyInv
<1>2. modal.kind = "panel"
  BY Zenon DEF accept_action, reject_action, kick_action
<1>3. modal.room \in Room /\ modal.members \in SUBSET {Other}
  BY <1>1, <1>2, Shapes, Zenon
<1>4. modal.room \in DOMAIN rooms => R \in Known
  <2>1. rooms \in [DOMAIN db -> Known]
    BY <1>1, Zenon DEF LobbyTypeOK
  <2> HIDE DEF Known
  <2> QED
    BY <2>1, SMT
<1>5. CASE accept_action(u) \/ reject_action(u)
  <2> DEFINE room == [R EXCEPT !.requests = @ \ {u}]
  <2>1. PICK q \in Asking : Edit(q, room)
    <3>1. /\ [kind |-> "ADD_USER", room |-> modal.room, user |-> u] \in Asking
          /\ [kind |-> "DELETE_REQUEST", room |-> modal.room, user |-> u] \in Asking
      BY <1>3, SMT DEF Asking
    <3> QED
      BY <1>5, <3>1, Zenon DEF accept_action, reject_action
  <2>2. modal.room \in DOMAIN rooms => room \in Known /\ room.users = R.users
    <3> HIDE DEF R
    <3> QED
      BY <1>4, SMT
  <2> HIDE DEF room
  <2> QED
    BY <1>2, <2>1, <2>2, EditKeeps, Zenon
<1>6. CASE kick_action(u)
  <2> DEFINE room == [R EXCEPT !.users = @ \ {u}]
  <2>1. PICK q \in Asking : Edit(q, room)
    <3>1. [kind |-> "REMOVE_USER", room |-> modal.room, user |-> u] \in Asking
      BY <1>3, SMT DEF Asking
    <3> QED
      BY <1>6, <3>1, Zenon DEF kick_action
  <2>2. u # Me
    BY <1>3, <1>6, LobbyAssumption, SMT DEF kick_action
  <2>3. modal.room \in DOMAIN rooms => room \in Known /\ (Me \in room.users <=> Me \in R.users)
    <3> HIDE DEF R
    <3> QED
      BY <1>4, <2>2, SMT
  <2> HIDE DEF room
  <2> QED
    BY <1>2, <2>1, <2>3, EditKeeps, Zenon
<1> QED
  BY <1>5, <1>6

-----------------------------------------------------------------------------
(***************************************************************************)
(* The callbacks                                                           *)
(***************************************************************************)
\* The view goes on as it was, unless the callback is about whether the user is in its room;
\* or nothing is left of it; or it is a chat, opened because the user was added or because a
\* message was deleted.
ViewRuns(c) ==
  \/ /\ view'.kind = view.kind
     /\ view.kind \in {"private", "chat"} =>
          /\ view'.room = view.room /\ view'.by = view.by
          /\ ~Parts(c, view.room)
     /\ view.kind = "private" => ~Joins(c, view.room)
     /\ view.kind = "chat" /\ view.room \in DOMAIN rooms =>
          rooms'[view.room].notifications = rooms[view.room].notifications
  \/ view'.kind \notin {"private", "chat"}
  \/ /\ view'.kind = "chat" /\ view'.room \in DOMAIN rooms
     /\ \/ view'.by = "added" /\ Joins(c, view'.room)
        \/ view'.by = "deleted"

LEMMA RunKeeps ==
  ASSUME LobbyInv, tasks # << >>, tasks' = Tail(tasks), NEW c, c = Head(tasks),
         SameMembers, ViewRuns(c), UNCHANGED <<db, made, sent, events, messages, modal, moot>>,
         \/ rows' = Sidebar(rooms)
         \/ rows' = rows /\ (c.kind \in Redrawing => Joins(c, c.room) /\ c.room \notin DOMAIN rooms),
         toasts' \subseteq Room, view' \in View,
         pending_rooms' \subseteq pending_rooms, \A r \in pending_rooms' : ~Joins(c, r)
  PROVE  LobbyInv'
<1>1. LobbyTypeOK
  BY DEF LobbyInv
<1>2. DOMAIN rooms' = DOMAIN rooms /\ \A r : Member(rooms', r) <=> Member(rooms, r)
  BY <1>1, MembersStay, Zenon
<1>3. /\ db' = db /\ made' = made /\ sent' = sent /\ events' = events /\ messages' = messages
      /\ modal' = modal /\ moot' = moot /\ DOMAIN rooms = DOMAIN db
      /\ DOMAIN rows \subseteq made /\ DOMAIN rooms \subseteq made
      /\ pending_rooms \subseteq made /\ made \subseteq Room
      /\ view.kind \in {"private", "chat"} => view.room \in made
  BY <1>1, Zenon DEF LobbyTypeOK
<1>4. /\ tasks' \in Seq(Task) /\ c = tasks[1] /\ 1 \in DOMAIN tasks /\ c \in Task
      /\ \A i \in DOMAIN tasks : i \in Nat /\ (i # 1 => i - 1 \in DOMAIN tasks' /\ tasks'[i - 1] = tasks[i])
      /\ \A i \in DOMAIN tasks' : i \in Nat /\ i + 1 \in DOMAIN tasks /\ i + 1 # 1 /\ tasks'[i] = tasks[i + 1]
  <2>1. tasks \in Seq(Task)
    BY <1>1, Zenon DEF LobbyTypeOK
  <2>2. /\ Tail(tasks) \in Seq(Task) /\ Head(tasks) = tasks[1] /\ 1 \in DOMAIN tasks /\ tasks[1] \in Task
        /\ \A i \in DOMAIN tasks : i \in Nat /\ (i # 1 => i - 1 \in DOMAIN Tail(tasks) /\ Tail(tasks)[i - 1] = tasks[i])
        /\ \A i \in DOMAIN Tail(tasks) : i \in Nat /\ i + 1 \in DOMAIN tasks /\ i + 1 # 1 /\ Tail(tasks)[i] = tasks[i + 1]
    BY <2>1, OneLess, Zenon
  <2> QED
    BY <2>2, Zenon
<1>5. \A r : WillPart(r) => Parts(c, r) \/ WillPart(r)'
  BY <1>4, Zenon DEF WillPart
<1>6. \A r : WillJoin(r) => Joins(c, r) \/ WillJoin(r)'
  BY <1>4, Zenon DEF WillJoin
<1>7. c.room \in Room
  BY <1>4, SMT DEF Task
<1>8. \A r \in Room : Joins(c, r) => Member(rooms, r) \/ WillPart(r)'
  <2> SUFFICES ASSUME NEW r \in Room, Joins(c, r), ~Member(rooms, r) PROVE WillPart(r)'
    OBVIOUS
  <2>1. PICK j \in DOMAIN tasks : 1 < j /\ Parts(tasks[j], r)
    BY <1>4, Zenon DEF LobbyInv, JoinsAreTrue
  <2>2. j # 1
    BY <1>4, <2>1, SMT
  <2> QED
    BY <1>4, <2>1, <2>2, Zenon DEF WillPart
<1>9. rows' \in [DOMAIN rows' -> Row] /\ DOMAIN rows' \subseteq made
  <2>1. CASE rows' = rows
    BY <1>1, <2>1, Zenon DEF LobbyTypeOK
  <2>2. CASE rows' = Sidebar(rooms)
    BY <1>3, <2>2, SidebarIsTrue
  <2> QED
    BY <2>1, <2>2, Zenon
<1>10. LobbyTypeOK'
  <2>1. view'.kind \in {"private", "chat"} => view'.room \in made
    BY <1>3, Zenon DEF ViewRuns
  <2>2. pending_rooms' \subseteq made
    BY <1>3, Zenon
  <2> QED
    BY <1>1, <1>3, <1>4, <1>9, <2>1, <2>2, SMT DEF LobbyTypeOK, SameMembers
<1>11. MembershipIsKnown'
  BY <1>3, Zenon DEF LobbyInv, MembershipIsKnown, SameMembers
<1>12. JoinsAreTrue'
  <2> SUFFICES ASSUME NEW i \in DOMAIN tasks', NEW r \in Room, Joins(tasks'[i], r), ~Member(rooms', r)
               PROVE  \E j \in DOMAIN tasks' : i < j /\ Parts(tasks'[j], r)
    BY DEF JoinsAreTrue, Joins, Parts, Member
  <2>1. i + 1 \in DOMAIN tasks /\ Joins(tasks[i + 1], r) /\ ~Member(rooms, r)
    BY <1>2, <1>4, Zenon
  <2>2. PICK j \in DOMAIN tasks : i + 1 < j /\ Parts(tasks[j], r)
    BY <2>1, Zenon DEF LobbyInv, JoinsAreTrue
  <2>3. j # 1 /\ i < j - 1
    BY <1>4, <2>2, SMT
  <2> QED
    BY <1>4, <2>2, <2>3, Zenon
<1>13. ListComesTrue' /\ RowsComeTrue'
  <2>1. CASE rows' = Sidebar(rooms)
    <3>1. /\ DOMAIN rows' = DOMAIN rooms'
          /\ \A r \in DOMAIN rows' : rows'[r].member <=> Member(rooms', r)
      BY <1>2, <2>1, SidebarIsTrue, SMT DEF Member
    <3>2. Listed'
      BY <3>1, SMT DEF Listed, Member
    <3> QED
      BY <3>1, <3>2 DEF ListComesTrue, RowsComeTrue, Member
  <2>2. CASE rows' = rows /\ (c.kind \in Redrawing => Joins(c, c.room) /\ c.room \notin DOMAIN rooms)
    <3>1. Listed => Listed'
      BY <1>2, <2>2, SMT DEF Listed, Member
    <3>2. (\E i \in DOMAIN tasks : tasks[i].kind \in Redrawing) =>
            \E i \in DOMAIN tasks' : tasks'[i].kind \in Redrawing
      <4>1. \A r : WillPart(r)' => \E i \in DOMAIN tasks' : tasks'[i].kind \in Redrawing
        <5>1. \A t, r : Parts(t, r) => t.kind \in Redrawing
          BY SMT DEF Parts, Redrawing
        <5> QED
          BY <5>1, Zenon DEF WillPart
      <4>2. c.kind \in Redrawing => WillPart(c.room)'
        BY <1>7, <1>8, <2>2, Zenon DEF Member
      <4> QED
        BY <1>4, <4>1, <4>2, Zenon
    <3>3. ListComesTrue'
      BY <3>1, <3>2, Zenon DEF LobbyInv, ListComesTrue
    <3>4. \A r : ~Parts(c, r)
      BY <2>2, SMT DEF Parts, Joins, Redrawing
    <3>5. \A r : Joins(c, r) => r \notin DOMAIN rooms
      <4>1. \A r : Joins(c, r) => c.kind \in Redrawing /\ c.room = r
        BY SMT DEF Joins, Redrawing
      <4> QED
        BY <2>2, <4>1, Zenon
    <3>6. \A r \in DOMAIN rows :
            /\ rows[r].member => Member(rooms', r) \/ WillPart(r)'
            /\ Member(rooms', r) => rows[r].member \/ WillJoin(r)'
      <4> SUFFICES ASSUME NEW r \in DOMAIN rows
                   PROVE  /\ rows[r].member => Member(rooms, r) \/ WillPart(r)'
                          /\ Member(rooms, r) => rows[r].member \/ WillJoin(r)'
        BY <1>2, Zenon
      <4>1. /\ rows[r].member => Member(rooms, r) \/ WillPart(r)
            /\ Member(rooms, r) => rows[r].member \/ WillJoin(r)
        BY Zenon DEF LobbyInv, RowsComeTrue
      <4> QED
        BY <1>5, <1>6, <3>4, <3>5, <4>1, Zenon DEF Member
    <3> QED
      BY <2>2, <3>3, <3>6 DEF RowsComeTrue, Member, WillPart, WillJoin
  <2> QED
    BY <2>1, <2>2, Zenon
<1>14. ViewComesTrue'
  <2> DEFINE P(x) == \E i \in DOMAIN tasks' : Parts(tasks'[i], x)
             J(x) == \E i \in DOMAIN tasks' : Joins(tasks'[i], x)
             Fits ==
               /\ view'.kind \in {"private", "chat"} => view'.room \in DOMAIN rooms \/ P(view'.room)
               /\ view'.kind = "chat" /\ view'.by \in {"row", "toast", "stale", "added"} =>
                    Member(rooms, view'.room) \/ P(view'.room)
               /\ view'.kind = "private" /\ view'.by = "row" =>
                    ~Member(rooms, view'.room) \/ J(view'.room)
               /\ view'.kind = "chat" /\ view'.room \in DOMAIN rooms /\ view'.by \in {"row", "toast"} =>
                    rooms'[view'.room].notifications = 0
  <2>1. /\ \A r : WillPart(r) => Parts(c, r) \/ P(r)
        /\ \A r : WillJoin(r) => Joins(c, r) \/ J(r)
        /\ \A r \in Room : Joins(c, r) => Member(rooms, r) \/ P(r)
    BY <1>5, <1>6, <1>8, Zenon DEF WillPart, WillJoin
  <2> HIDE DEF P, J
  <2> SUFFICES Fits
    BY <1>2, Zenon DEF ViewComesTrue, Member, WillPart, WillJoin, P, J
  <2>2. CASE /\ view'.kind = view.kind
             /\ view.kind \in {"private", "chat"} =>
                  /\ view'.room = view.room /\ view'.by = view.by
                  /\ ~Parts(c, view.room)
             /\ view.kind = "private" => ~Joins(c, view.room)
             /\ view.kind = "chat" /\ view.room \in DOMAIN rooms =>
                  rooms'[view.room].notifications = rooms[view.room].notifications
    <3>1. CASE view.kind = "private"
      BY <2>1, <2>2, <3>1 DEF LobbyInv, ViewComesTrue
    <3>2. CASE view.kind = "chat"
      BY <2>1, <2>2, <3>2 DEF LobbyInv, ViewComesTrue
    <3>3. CASE view.kind \notin {"private", "chat"}
      BY <2>2, <3>3
    <3> QED
      BY <3>1, <3>2, <3>3
  <2>3. CASE view'.kind \notin {"private", "chat"}
    BY <2>3
  <2>4. CASE /\ view'.kind = "chat" /\ view'.room \in DOMAIN rooms
             /\ \/ view'.by = "added" /\ Joins(c, view'.room)
                \/ view'.by = "deleted"
    <3>1. view'.room \in Room
      BY <1>3, <2>4, Zenon
    <3> QED
      BY <2>1, <2>4, <3>1, SMT
  <2> QED
    BY <2>2, <2>3, <2>4, Zenon DEF ViewRuns
<1>15. PendingComesTrue'
  <2> SUFFICES ASSUME NEW x \in pending_rooms', x \in DOMAIN db
               PROVE  Me \in db[x].requests \/ x \in moot \/ Asked(x) \/ WillJoin(x)'
    BY <1>3, Zenon DEF PendingComesTrue, Asked, WillJoin
  <2> QED
    BY <1>3, <1>6, Zenon DEF LobbyInv, PendingComesTrue
<1> QED
  BY <1>10, <1>11, <1>12, <1>13, <1>14, <1>15 DEF LobbyInv

LEMMA TaskKinds ==
  ASSUME NEW c \in Task
  PROVE  /\ c.room \in Room
         /\ c.kind \in {"created", "requested", "rejected", "deleted", "gone", "added", "removed", "message"}
         /\ c.kind = "message" => c.message \in Nat
         /\ c.kind \in {"added", "removed"} => c.user \in Users
<1>1. CASE c \in [kind : {"created", "requested", "rejected", "deleted", "gone"}, room : Room]
  BY <1>1, SMT
<1>2. CASE c \in [kind : {"added", "removed"}, room : Room, user : Users]
  BY <1>2, SMT
<1>3. CASE c \in [kind : {"message"}, room : Room, message : Nat]
  BY <1>3, SMT
<1> QED
  BY <1>1, <1>2, <1>3, Zenon DEF Task

\* What the callbacks that draw the sidebar again need.
LEMMA DrawnAgain ==
  ASSUME LobbyInv, tasks # << >>, tasks' = Tail(tasks), NEW c, c = Head(tasks),
         UNCHANGED <<server, messages, modal, moot>>, UNCHANGED <<rooms, toasts>>,
         rows' = Sidebar(rooms) \/ (rows' = rows /\ (c.kind \in Redrawing => Joins(c, c.room) /\ c.room \notin DOMAIN rooms)),
         ViewRuns(c), view' \in View,
         pending_rooms' \subseteq pending_rooms, \A r \in pending_rooms' : ~Joins(c, r)
  PROVE  LobbyInv'
<1>1. /\ UNCHANGED <<db, made, sent, events, messages, modal, moot>>
      /\ rooms' = rooms /\ toasts' \subseteq toasts
  BY Zenon DEF server
<1>2. SameMembers /\ toasts' \subseteq Room
  BY <1>1, WhatStays, Zenon DEF LobbyInv
<1> QED
  BY <1>1, <1>2, RunKeeps, Zenon

LEMMA SameViewRuns ==
  ASSUME LobbyTypeOK, NEW c, view' = view, rooms' = rooms,
         view.kind \in {"private", "chat"} => ~Parts(c, view.room),
         view.kind = "private" => ~Joins(c, view.room)
  PROVE  ViewRuns(c) /\ view' \in View
<1>1. view' \in View
  BY Zenon DEF LobbyTypeOK
<1>2. ViewRuns(c)
  BY SMT DEF ViewRuns
<1> QED
  BY <1>1, <1>2

\* The callbacks after which the user is not in the room any more.
LEMMA PartingKeeps ==
  ASSUME LobbyInv, tasks # << >>, tasks' = Tail(tasks), NEW c, c = Head(tasks),
         UNCHANGED <<server, messages, modal, moot>>,
         \/ c.kind = "removed" /\ on_user_removed(c.room, c.user)
         \/ c.kind = "gone" /\ on_room_deleted(c.room)
         \/ c.kind \in {"created", "requested", "rejected"} /\ on_room_created
  PROVE  LobbyInv'
<1>1. LobbyTypeOK
  BY DEF LobbyInv
<1>2. /\ rooms' = rooms /\ toasts' = toasts /\ rows' = Sidebar(rooms)
      /\ pending_rooms' \subseteq pending_rooms
      /\ c.kind # "added" /\ c.kind \in {"removed", "gone", "created", "requested", "rejected"}
      /\ view' = IF (c.kind = "gone" \/ (c.kind = "removed" /\ c.user = Me)) /\ c.room = current_room
                 THEN Welcome ELSE view
  <2>1. CASE c.kind = "removed" /\ on_user_removed(c.room, c.user)
    BY <2>1, SMT DEF on_user_removed, refresh_sidebar
  <2>2. CASE c.kind = "gone" /\ on_room_deleted(c.room)
    BY <2>2, SMT DEF on_room_deleted, refresh_sidebar
  <2>3. CASE c.kind \in {"created", "requested", "rejected"} /\ on_room_created
    BY <2>3, SMT DEF on_room_created, refresh_sidebar
  <2> QED
    BY <2>1, <2>2, <2>3, Zenon
<1>3. \A r : ~Joins(c, r)
  BY <1>2, Zenon DEF Joins
<1>4. ViewRuns(c) /\ view' \in View
  <2>1. CASE view' = Welcome
    <3>1. Welcome.kind = "welcome"
      BY SMT DEF Welcome
    <3>2. view'.kind \notin {"private", "chat"}
      BY <2>1, <3>1, SMT
    <3> QED
      BY <2>1, <3>2, Zenon DEF ViewRuns, View
  <2>2. CASE view' # Welcome
    <3>1. view' = view /\ ~((c.kind = "gone" \/ (c.kind = "removed" /\ c.user = Me)) /\ c.room = current_room)
      BY <1>2, <2>2, Zenon
    <3>2. view.kind \in {"private", "chat"} => current_room = view.room
      BY <1>1, Shapes
    <3>3. view.kind \in {"private", "chat"} => ~Parts(c, view.room)
      BY <3>1, <3>2, Zenon DEF Parts
    <3> QED
      BY <1>1, <1>2, <1>3, <3>1, <3>3, SameViewRuns, Zenon
  <2> QED
    BY <2>1, <2>2, Zenon
<1>5. UNCHANGED <<rooms, toasts>>
  BY <1>2, Zenon
<1> QED
  BY <1>2, <1>3, <1>4, <1>5, DrawnAgain, Zenon

LEMMA AddedKeeps ==
  ASSUME LobbyInv, tasks # << >>, tasks' = Tail(tasks), NEW c \in Task, c = Head(tasks),
         UNCHANGED <<server, messages, modal, moot>>, tasks' \in Seq(Task),
         c.kind = "added", on_user_added(c.room, c.user)
  PROVE  LobbyInv'
<1>1. LobbyTypeOK /\ c.room \in Room
  BY TaskKinds DEF LobbyInv
<1>2. /\ UNCHANGED <<rooms, toasts>>
      /\ pending_rooms' = IF c.user = Me THEN pending_rooms \ {c.room} ELSE pending_rooms
      /\ IF c.user = Me THEN show_chat_view(c.room, "added") ELSE view' = view
      /\ rows' = IF c.user = Me /\ c.room \notin DOMAIN rooms THEN rows ELSE Sidebar(rooms)
  BY SMT DEF on_user_added, refresh_sidebar
<1>3. \A r : Joins(c, r) <=> c.user = Me /\ r = c.room
  BY Zenon DEF Joins
<1>4. \A r : ~Parts(c, r)
  BY SMT DEF Parts
<1>5. pending_rooms' \subseteq pending_rooms /\ \A r \in pending_rooms' : ~Joins(c, r)
  BY <1>2, <1>3, Zenon
<1>6. rows' = Sidebar(rooms) \/ (rows' = rows /\ (c.kind \in Redrawing => Joins(c, c.room) /\ c.room \notin DOMAIN rooms))
  BY <1>2, <1>3, Zenon
<1>7. ViewRuns(c) /\ view' \in View
  <2>1. CASE c.user = Me
    <3>1. "added" \in Openings
      BY Zenon DEF Openings
    <3>2. /\ view' \in View
          /\ c.room \in DOMAIN rooms => view'.kind = "chat" /\ view'.room = c.room /\ view'.by = "added"
          /\ c.room \notin DOMAIN rooms => view'.kind = "blank"
      BY <1>1, <1>2, <2>1, <3>1, ChatIsShown, Zenon
    <3> QED
      BY <1>3, <2>1, <3>2, SMT DEF ViewRuns
  <2>2. CASE c.user # Me
    <3>1. view' = view /\ rooms' = rooms
      BY <1>2, <2>2, Zenon
    <3> QED
      BY <1>1, <1>3, <1>4, <2>2, <3>1, SameViewRuns, Zenon
  <2> QED
    BY <2>1, <2>2, Zenon
<1> QED
  BY <1>2, <1>5, <1>6, <1>7, DrawnAgain, Zenon

LEMMA DeletedKeeps ==
  ASSUME LobbyInv, tasks # << >>, tasks' = Tail(tasks), NEW c \in Task, c = Head(tasks),
         UNCHANGED <<server, messages, modal, moot>>, tasks' \in Seq(Task),
         c.kind = "deleted", on_message_deleted(c.room)
  PROVE  LobbyInv'
<1> DEFINE by == IF chat_history THEN view.by ELSE "deleted"
<1>1. LobbyTypeOK /\ c.room \in Room
  BY TaskKinds DEF LobbyInv
<1>2. /\ UNCHANGED <<rooms, toasts>> /\ pending_rooms' = pending_rooms /\ rows' = rows
      /\ IF c.room = current_room THEN show_chat_view(c.room, by) ELSE view' = view
  BY SMT DEF on_message_deleted
<1>3. c.kind \notin Redrawing /\ \A r : ~Joins(c, r) /\ ~Parts(c, r)
  BY SMT DEF Redrawing, Joins, Parts
<1>4. ViewRuns(c) /\ view' \in View
  <2>1. CASE c.room = current_room
    <3>1. by \in Openings /\ (view.kind = "chat" => by = view.by /\ c.room = view.room)
             /\ (view.kind # "chat" => by = "deleted")
      <4>1. "deleted" \in Openings
        BY Zenon DEF Openings
      <4> QED
        BY <1>1, <2>1, <4>1, Shapes, Zenon DEF chat_history
    <3>2. show_chat_view(c.room, by)
      BY <1>2, <2>1, Zenon
    <3> HIDE DEF by
    <3>3. /\ view' \in View
          /\ c.room \in DOMAIN rooms => view'.kind = "chat" /\ view'.room = c.room /\ view'.by = by
          /\ c.room \notin DOMAIN rooms => view'.kind = "blank"
      BY <1>1, <3>1, <3>2, ChatIsShown, Zenon
    <3>4. rooms' = rooms
      BY <1>2, Zenon
    <3> QED
      BY <1>3, <3>1, <3>3, <3>4, SMT DEF ViewRuns
  <2>2. CASE c.room # current_room
    <3>1. view' = view /\ rooms' = rooms
      BY <1>2, <2>2, Zenon
    <3> QED
      BY <1>1, <1>3, <3>1, SameViewRuns, Zenon
  <2> QED
    BY <2>1, <2>2, Zenon
<1>5. pending_rooms' \subseteq pending_rooms
  BY <1>2, Zenon
<1> QED
  BY <1>2, <1>3, <1>4, <1>5, DrawnAgain, Zenon

LEMMA HistoryGrows ==
  ASSUME NEW S, NEW s \in S,
         NEW v \in [kind : {"chat"}, room : Room, by : Openings, shown : S, overtaken : Nat]
  PROVE  /\ [v EXCEPT !.shown = s] \in
              [kind : {"chat"}, room : Room, by : Openings, shown : S, overtaken : Nat]
         /\ [v EXCEPT !.shown = s].room = v.room /\ [v EXCEPT !.shown = s].by = v.by
         /\ [v EXCEPT !.shown = s].kind = "chat"
  OBVIOUS

\* A message is added to the chat, or counted for a room that is not shown.
LEMMA MessageKeeps ==
  ASSUME LobbyInv, tasks # << >>, tasks' = Tail(tasks), NEW c \in Task, c = Head(tasks),
         UNCHANGED <<server, messages, modal, moot>>, pending_rooms' = pending_rooms,
         c.kind = "message", on_new_message(c.room, c.message)
  PROVE  LobbyInv'
<1>1. LobbyTypeOK /\ c.room \in Room /\ c.message \in Nat
  BY TaskKinds DEF LobbyInv
<1>2. UNCHANGED <<db, made, sent, events, messages, modal, moot>>
  BY Zenon DEF server
<1>3. c.kind \notin Redrawing /\ \A r : ~Joins(c, r) /\ ~Parts(c, r)
  BY SMT DEF Redrawing, Joins, Parts
<1>4. pending_rooms' \subseteq pending_rooms /\ view \in View /\ toasts \subseteq Room
  BY <1>1, Zenon DEF LobbyTypeOK
<1>5. CASE chat_history /\ c.room = current_room
  <2>1. /\ view' = [view EXCEPT !.shown = Append(@, c.message)] /\ view.kind = "chat"
        /\ rooms' = rooms /\ rows' = rows /\ toasts' \subseteq toasts
    BY <1>5, SMT DEF on_new_message, chat_history
  <2>2. view \in [kind : {"chat"}, room : Room, by : Openings, shown : Seq(Nat), overtaken : Nat]
    BY <1>4, <2>1, SMT DEF View, Welcome
  <2>3. view.shown \in Seq(Nat)
    BY <2>2, SMT
  <2>4. Append(view.shown, c.message) \in Seq(Nat)
    BY <1>1, <2>3, SMT
  <2> DEFINE shown == Append(view.shown, c.message)
  <2>5. view' = [view EXCEPT !.shown = shown]
    BY <2>1, Zenon
  <2> HIDE DEF shown
  <2>6. /\ view' \in [kind : {"chat"}, room : Room, by : Openings, shown : Seq(Nat), overtaken : Nat]
        /\ view'.room = view.room /\ view'.by = view.by /\ view'.kind = "chat"
    <3>1. shown \in Seq(Nat)
      BY <2>4 DEF shown
    <3> QED
      BY <2>2, <2>5, <3>1, HistoryGrows, Zenon
  <2>7. view' \in View
    BY <2>6, Zenon DEF View
  <2>8. ViewRuns(c)
    BY <1>3, <2>1, <2>6, SMT DEF ViewRuns
  <2>9. SameMembers /\ toasts' \subseteq Room
    BY <1>1, <2>1, WhatStays, Zenon
  <2> QED
    BY <1>2, <1>3, <1>4, <2>1, <2>7, <2>8, <2>9, RunKeeps, Zenon
<1>6. CASE ~(chat_history /\ c.room = current_room) /\ Member(rooms, c.room)
  <2>1. /\ rooms' = [rooms EXCEPT ![c.room].notifications = @ + 1]
        /\ rows' = Sidebar(rooms) /\ toasts' = toasts \cup {c.room} /\ view' = view
    BY <1>6, SMT DEF on_new_message, refresh_sidebar
  <2>2. c.room \in DOMAIN rooms
    BY <1>6, Zenon DEF Member
  <2> DEFINE n == rooms[c.room].notifications + 1
  <2>3. n \in Nat
    BY <1>1, <2>2, SMT DEF LobbyTypeOK
  <2>4. rooms' = [rooms EXCEPT ![c.room].notifications = n]
    BY <2>1, Zenon
  <2> HIDE DEF n
  <2>5. SameMembers /\ \A x \in DOMAIN rooms : x # c.room => rooms'[x].notifications = rooms[x].notifications
    BY <1>1, <2>2, <2>3, <2>4, NumberGoes, Zenon
  <2>6. view.kind = "chat" => view.room # c.room
    BY <1>1, <1>6, Shapes, Zenon DEF chat_history
  <2>7. ViewRuns(c)
    BY <1>3, <2>1, <2>5, <2>6, SMT DEF ViewRuns
  <2>8. view' \in View /\ toasts' \subseteq Room
    BY <1>1, <1>4, <2>1, Zenon
  <2> QED
    BY <1>2, <1>3, <1>4, <2>1, <2>5, <2>7, <2>8, RunKeeps, Zenon
<1>7. CASE ~(chat_history /\ c.room = current_room) /\ ~Member(rooms, c.room)
  <2>1. UNCHANGED <<rooms, toasts>> /\ rows' = rows /\ view' = view /\ rooms' = rooms
    BY <1>7, SMT DEF on_new_message
  <2>2. ViewRuns(c) /\ view' \in View
    BY <1>1, <1>3, <2>1, SameViewRuns, Zenon
  <2> QED
    BY <1>3, <1>4, <2>1, <2>2, DrawnAgain, Zenon
<1> QED
  BY <1>5, <1>6, <1>7, Zenon

LEMMA RunTaskKeeps == ASSUME LobbyInv, RunTask PROVE LobbyInv'
<1> DEFINE c == Head(tasks)
<1>1. /\ tasks # << >> /\ tasks' = Tail(tasks) /\ UNCHANGED <<server, messages, modal, moot>>
      /\ CASE c.kind = "message" -> on_new_message(c.room, c.message) /\ UNCHANGED pending_rooms
           [] c.kind = "added" -> on_user_added(c.room, c.user)
           [] c.kind = "removed" -> on_user_removed(c.room, c.user)
           [] c.kind = "deleted" -> on_message_deleted(c.room)
           [] c.kind = "gone" -> on_room_deleted(c.room)
           [] c.kind \in {"created", "requested", "rejected"} -> on_room_created
  BY Zenon DEF RunTask
<1>2. c \in Task /\ tasks' \in Seq(Task)
  <2>1. tasks \in Seq(Task)
    BY Zenon DEF LobbyInv, LobbyTypeOK
  <2> QED
    BY <1>1, <2>1, SMT
<1> HIDE DEF c
<1>3. c.kind \in {"created", "requested", "rejected", "deleted", "gone", "added", "removed", "message"}
  BY <1>2, TaskKinds, Zenon
<1>4. c = Head(tasks)
  BY DEF c
<1>6. CASE c.kind = "message"
  <2>1. on_new_message(c.room, c.message) /\ pending_rooms' = pending_rooms
    BY <1>1, <1>6, SMT
  <2> QED
    BY <1>1, <1>2, <1>4, <1>6, <2>1, MessageKeeps, Zenon
<1>7. CASE c.kind = "added"
  <2>1. on_user_added(c.room, c.user)
    BY <1>1, <1>7, SMT
  <2> QED
    BY <1>1, <1>2, <1>4, <1>7, <2>1, AddedKeeps, Zenon
<1>8. CASE c.kind = "deleted"
  <2>1. on_message_deleted(c.room)
    BY <1>1, <1>8, SMT
  <2> QED
    BY <1>1, <1>2, <1>4, <1>8, <2>1, DeletedKeeps, Zenon
<1>9. CASE c.kind = "removed"
  <2>1. on_user_removed(c.room, c.user)
    BY <1>1, <1>9, SMT
  <2> QED
    BY <1>1, <1>4, <1>9, <2>1, PartingKeeps, Zenon
<1>10. CASE c.kind = "gone"
  <2>1. on_room_deleted(c.room)
    BY <1>1, <1>10, SMT
  <2> QED
    BY <1>1, <1>4, <1>10, <2>1, PartingKeeps, Zenon
<1>11. CASE c.kind \in {"created", "requested", "rejected"}
  <2>1. on_room_created
    <3>1. CASE c.kind = "created"
      BY <1>1, <3>1, SMT
    <3>2. CASE c.kind = "requested"
      BY <1>1, <3>2, SMT
    <3>3. CASE c.kind = "rejected"
      BY <1>1, <3>3, SMT
    <3> QED
      BY <1>11, <3>1, <3>2, <3>3, Zenon
  <2> QED
    BY <1>1, <1>4, <1>11, <2>1, PartingKeeps, Zenon
<1> QED
  BY <1>3, <1>6, <1>7, <1>8, <1>9, <1>10, <1>11, Zenon

-----------------------------------------------------------------------------
(***************************************************************************)
(* The lobby, from its first step on                                       *)
(***************************************************************************)

LEMMA LobbyStarts == LobbyInit => LobbyInv
<1> SUFFICES ASSUME LobbyInit PROVE LobbyInv
  OBVIOUS
<1>1. PICK R \in SUBSET Room : db \in [R -> [users : SUBSET Users, requests : {{}}]]
  BY Zenon DEF LobbyInit, Users
<1> HIDE DEF Users
<1>2. /\ DOMAIN db = R /\ DOMAIN db \subseteq Room
      /\ \A r \in DOMAIN db : db[r] \in [users : SUBSET Users, requests : SUBSET Users]
      /\ db \in [DOMAIN db -> [users : SUBSET Users, requests : SUBSET Users]]
  BY <1>1, SMT
<1>3. /\ made = DOMAIN db /\ sent = << >> /\ events = 0 /\ tasks = << >>
      /\ rooms = [r \in DOMAIN db |-> [users |-> db[r].users, requests |-> {}, notifications |-> 0]]
      /\ messages = [r \in DOMAIN db |-> << >>]
      /\ view = Welcome /\ pending_rooms = {} /\ rows = Sidebar(rooms)
      /\ toasts = {} /\ modal = None /\ moot = {}
  BY Zenon DEF LobbyInit
<1>4. /\ rooms \in [DOMAIN db -> [users : SUBSET Users, requests : SUBSET Users, notifications : Nat]]
      /\ \A r \in DOMAIN db : rooms[r].users = db[r].users
  <2>1. \A r \in DOMAIN db :
          /\ [users |-> db[r].users, requests |-> {}, notifications |-> 0]
               \in [users : SUBSET Users, requests : SUBSET Users, notifications : Nat]
          /\ [users |-> db[r].users, requests |-> {}, notifications |-> 0].users = db[r].users
    <3> SUFFICES ASSUME NEW r \in DOMAIN db
                 PROVE  /\ [users |-> db[r].users, requests |-> {}, notifications |-> 0]
                             \in [users : SUBSET Users, requests : SUBSET Users, notifications : Nat]
                        /\ [users |-> db[r].users, requests |-> {}, notifications |-> 0].users = db[r].users
      OBVIOUS
    <3>1. db[r].users \in SUBSET Users
      BY <1>2, SMT
    <3> QED
      BY <3>1, SMT
  <2> QED
    BY <1>3, <2>1, Zenon
<1>5. DOMAIN rooms = DOMAIN db
  BY <1>3, Zenon
<1>6. /\ rows \in [DOMAIN db -> Row] /\ DOMAIN rows = DOMAIN db
      /\ \A r \in DOMAIN db : rows[r].member <=> Me \in rooms[r].users
  BY <1>3, <1>5, SidebarIsTrue, Zenon
<1>7. messages \in [DOMAIN db -> Seq(Nat)]
  BY <1>3, SMT
<1>8. view.kind = "welcome"
  BY <1>3, SMT DEF Welcome
<1>9. /\ tasks \in Seq(Task) /\ sent \in Seq(Asking) /\ events \in Nat
      /\ view.kind \notin {"private", "chat"} /\ DOMAIN tasks = {}
  BY <1>3, <1>8, SMT
<1>10. LobbyTypeOK
  BY <1>2, <1>3, <1>4, <1>6, <1>7, <1>9, Zenon DEF LobbyTypeOK, View, Dialog
<1>11. MembershipIsKnown
  BY <1>4, Zenon DEF MembershipIsKnown
<1>12. JoinsAreTrue
  BY <1>9, Zenon DEF JoinsAreTrue
<1>13. ListComesTrue
  BY <1>5, <1>6, SMT DEF ListComesTrue, Listed
<1>14. RowsComeTrue
  BY <1>5, <1>6, Zenon DEF RowsComeTrue, Member
<1>15. ViewComesTrue
  BY <1>9, Zenon DEF ViewComesTrue
<1>16. PendingComesTrue
  BY <1>3, Zenon DEF PendingComesTrue
<1> QED
  BY <1>10, <1>11, <1>12, <1>13, <1>14, <1>15, <1>16 DEF LobbyInv

LEMMA LobbyRests == ASSUME LobbyInv, UNCHANGED lobbyVars PROVE LobbyInv'
<1>1. /\ UNCHANGED <<db, made, sent, events>> /\ UNCHANGED <<rooms, messages>> /\ tasks' = tasks
      /\ UNCHANGED <<view, pending_rooms, rows, toasts, modal>> /\ moot' = moot
  BY Zenon DEF lobbyVars, server, replica, window
<1>2. /\ UNCHANGED <<db, made, events, messages, tasks, moot>>
      /\ rooms' = rooms /\ view' = view /\ rows' = rows /\ sent' = sent /\ modal' = modal
      /\ pending_rooms' \subseteq pending_rooms /\ toasts' \subseteq toasts
  BY <1>1, Zenon
<1>3. /\ SameMembers /\ ViewMoves /\ view' \in View /\ modal' \in Dialog /\ toasts' \subseteq Room
      /\ sent' \in Seq(Asking) /\ \A x \in Room : Asked(x) => Asked(x)'
      /\ pending_rooms' \subseteq made /\ \A x \in pending_rooms' : x \in pending_rooms \/ Asked(x)'
  BY <1>2, WhatStays, Zenon DEF LobbyInv
<1> QED
  BY <1>2, <1>3, WindowKeeps, Zenon

LEMMA LobbyGoesOn == LobbyInv /\ [LobbyNext]_lobbyVars => LobbyInv'
<1> SUFFICES ASSUME LobbyInv, [LobbyNext]_lobbyVars PROVE LobbyInv'
  OBVIOUS
<1>1. CASE Database
  BY <1>1, DatabaseKeeps, Zenon
<1>2. CASE RunTask
  BY <1>2, RunTaskKeeps, Zenon
<1>3. ASSUME NEW r \in Room, _click(r) \/ _toast_click(r) \/ Expire(r) PROVE LobbyInv'
  BY <1>3, ClickKeeps, ToastKeeps, Zenon
<1>4. CASE send_message \/ do_create
  BY <1>4, SendKeeps, Zenon
<1>5. CASE request_join_from_view
  BY <1>5, JoinKeeps, Zenon
<1>6. CASE RequestSent
  BY <1>6, RequestSentKeeps, Zenon
<1>7. CASE leave_room \/ Cancel \/ open_coordinator_panel
  BY <1>7, DialogKeeps, Zenon
<1>8. CASE confirm_leave \/ delete_room_action
  BY <1>8, RequestsKeep, Zenon
<1>9. ASSUME NEW u \in {Me, Other}, _add(u) \/ accept_action(u) \/ reject_action(u) \/ kick_action(u)
      PROVE  LobbyInv'
  <2>1. u \in Users
    BY DEF Users
  <2> QED
    BY <1>9, <2>1, RequestsKeep, PanelKeeps, Zenon
<1>10. CASE UNCHANGED lobbyVars
  BY <1>10, LobbyRests, Zenon
<1> QED
  BY <1>1, <1>2, <1>3, <1>4, <1>5, <1>6, <1>7, <1>8, <1>9, <1>10, Zenon DEF LobbyNext

LEMMA LobbyHolds == LobbySpec => []LobbyInv
  BY LobbyStarts, LobbyGoesOn, PTL DEF LobbySpec

LEMMA NothingIsPutOff ==
  ASSUME tasks = << >>
  PROVE  /\ ~\E i \in DOMAIN tasks : tasks[i].kind \in Redrawing
         /\ \A r : ~WillPart(r) /\ ~WillJoin(r)
<1>1. DOMAIN tasks = {}
  BY SMT
<1> QED
  BY <1>1, Zenon DEF WillPart, WillJoin

\* Whatever the user clicks while events and callbacks are under way: as soon as the callbacks
\* have run, the rows that refresh_sidebar has drawn as the user's are exactly the rooms the user
\* is a member of, and none is of a room that is gone.
THEOREM RoomsAreListed == LobbySpec => []MyRoomsAreListed
<1>1. LobbyInv => MyRoomsAreListed
  BY NothingIsPutOff, Zenon DEF LobbyInv, ListComesTrue, Listed, MyRoomsAreListed
<1> QED
  BY <1>1, LobbyHolds, PTL

\* show_chat_view and show_private_room_view, however late: as soon as the callbacks have run,
\* the panel is that of a room that is there, of the right kind unless a dialog drew it.
THEOREM ViewsAlwaysFit == LobbySpec => []ViewsFitTheRoom
<1>1. LobbyInv => ViewsFitTheRoom
  <2> SUFFICES ASSUME LobbyInv PROVE ViewsFitTheRoom
    OBVIOUS
  <2>1. tasks = << >> => \A r : ~WillPart(r) /\ ~WillJoin(r)
    BY NothingIsPutOff, Zenon
  <2> QED
    BY <2>1, Zenon DEF LobbyInv, ViewComesTrue, ViewsFitTheRoom
<1> QED
  BY <1>1, LobbyHolds, PTL

\* pending_rooms: as soon as the callbacks have run, a room with the mark of a request has the
\* request, or will have it, or the request was refused or in vain.
THEOREM PendingStaysTrue == LobbySpec => []PendingIsTrue
<1>1. LobbyInv => PendingIsTrue
  <2> SUFFICES ASSUME LobbyInv PROVE PendingIsTrue
    OBVIOUS
  <2>1. tasks = << >> => \A r : ~WillJoin(r)
    BY NothingIsPutOff, Zenon
  <2>2. DOMAIN rooms = DOMAIN db
    BY Zenon DEF LobbyInv, LobbyTypeOK
  <2> QED
    BY <2>1, <2>2, Zenon DEF LobbyInv, PendingComesTrue, PendingIsTrue, Asked
<1> QED
  BY <1>1, LobbyHolds, PTL

-----------------------------------------------------------------------------
(***************************************************************************)
(* The history of a chat                                                   *)
(***************************************************************************)
\* Messages of a room in callbacks that have not run.
Carries(t, r) == t.kind = "message" /\ t.room = r
Carrying(r) == {i \in DOMAIN tasks : Carries(tasks[i], r)}
Carried(r) == {tasks[i].message : i \in Carrying(r)}

\* Callbacks after which the chat of a room is loaded again, or no longer shown.
Withdraws(t, r) == t.kind \in {"deleted", "gone"} /\ t.room = r
Redraws(t, r) == Parts(t, r) \/ Joins(t, r) \/ Withdraws(t, r)
WillRedraw(r) == \E i \in DOMAIN tasks : Redraws(tasks[i], r)

\* The message of a callback is in the history, or another callback follows.
MessagesAreThere ==
  \A i \in DOMAIN tasks : tasks[i].kind = "message" =>
    \/ /\ tasks[i].room \in DOMAIN messages
       /\ tasks[i].message \in ToSet(messages[tasks[i].room])
    \/ \E j \in DOMAIN tasks : i < j /\ Withdraws(tasks[j], tasks[i].room)

\* What is shown of the room r and what is to come make up its history.
WholeHistory(r) ==
  /\ ToSet(view.shown) \cup Carried(r) = ToSet(messages[r])
  /\ Len(view.shown) + Cardinality(Carrying(r)) <= Len(messages[r]) + view.overtaken

HistoryComesTrue ==
  view.kind = "chat" /\ Member(rooms, view.room) /\ ~WillRedraw(view.room) =>
    WholeHistory(view.room)

HistoryInv == MessagesAreThere /\ HistoryComesTrue

LEMMA ToSetGrows ==
  ASSUME NEW S, NEW s \in Seq(S), NEW e \in S
  PROVE  /\ ToSet(Append(s, e)) = ToSet(s) \cup {e}
         /\ Len(Append(s, e)) = Len(s) + 1 /\ Len(s) \in Nat
<1> DEFINE t == Append(s, e)
<1>1. /\ Len(t) = Len(s) + 1 /\ Len(s) \in Nat
      /\ \A i \in DOMAIN s : i \in DOMAIN t /\ t[i] = s[i]
      /\ Len(s) + 1 \in DOMAIN t /\ t[Len(s) + 1] = e
      /\ \A i \in DOMAIN t : i \in DOMAIN s \/ i = Len(s) + 1
  BY SMT
<1> HIDE DEF t
<1>2. ToSet(t) = ToSet(s) \cup {e}
  BY <1>1, Zenon DEF ToSet
<1> QED
  BY <1>1, <1>2 DEF t

LEMMA CallbacksAreFinite ==
  ASSUME tasks \in Seq(Task), NEW r
  PROVE  IsFiniteSet(Carrying(r)) /\ Cardinality(Carrying(r)) \in Nat
<1>1. DOMAIN tasks = 1 .. Len(tasks) /\ 1 \in Int /\ Len(tasks) \in Int
  BY SMT
<1>2. IsFiniteSet(DOMAIN tasks)
  BY <1>1, FS_Interval
<1>3. Carrying(r) \subseteq DOMAIN tasks
  BY DEF Carrying
<1>4. IsFiniteSet(Carrying(r))
  BY <1>2, <1>3, FS_Subset
<1> QED
  BY <1>4, FS_CardinalityType

LEMMA InOneCallback ==
  ASSUME NEW r
  PROVE  /\ \A x : x \in Carried(r) <=> \E i \in DOMAIN tasks : Carries(tasks[i], r) /\ x = tasks[i].message
         /\ \A x : x \in Carried(r)' <=> \E i \in DOMAIN tasks' : Carries(tasks'[i], r) /\ x = tasks'[i].message
         /\ \A i : i \in Carrying(r) <=> i \in DOMAIN tasks /\ Carries(tasks[i], r)
         /\ \A i : i \in Carrying(r)' <=> i \in DOMAIN tasks' /\ Carries(tasks'[i], r)
         /\ WillRedraw(r) <=> \E i \in DOMAIN tasks : Redraws(tasks[i], r)
         /\ WillRedraw(r)' <=> \E i \in DOMAIN tasks' : Redraws(tasks'[i], r)
<1>1. /\ \A i : i \in Carrying(r) <=> i \in DOMAIN tasks /\ Carries(tasks[i], r)
      /\ \A i : i \in Carrying(r)' <=> i \in DOMAIN tasks' /\ Carries(tasks'[i], r)
  BY DEF Carrying, Carries
<1>2. /\ WillRedraw(r) <=> \E i \in DOMAIN tasks : Redraws(tasks[i], r)
      /\ WillRedraw(r)' <=> \E i \in DOMAIN tasks' : Redraws(tasks'[i], r)
  BY DEF WillRedraw, Redraws, Parts, Joins, Withdraws
<1>3. /\ Carried(r) = {tasks[i].message : i \in Carrying(r)}
      /\ Carried(r)' = {tasks'[i].message : i \in Carrying(r)'}
  BY DEF Carried
<1>4. \A x : x \in Carried(r) <=> \E i \in DOMAIN tasks : Carries(tasks[i], r) /\ x = tasks[i].message
  BY <1>1, <1>3, SMT
<1>5. \A x : x \in Carried(r)' <=> \E i \in DOMAIN tasks' : Carries(tasks'[i], r) /\ x = tasks'[i].message
  BY <1>1, <1>3, SMT
<1> QED
  BY <1>1, <1>2, <1>4, <1>5

LEMMA MoreIsCarried ==
  ASSUME tasks \in Seq(Task), NEW c \in Task, tasks' = Append(tasks, c), NEW r
  PROVE  /\ Carries(c, r) =>
              /\ Carried(r)' = Carried(r) \cup {c.message}
              /\ Cardinality(Carrying(r)') = Cardinality(Carrying(r)) + 1
         /\ ~Carries(c, r) =>
              /\ Carried(r)' = Carried(r)
              /\ Cardinality(Carrying(r)') = Cardinality(Carrying(r))
         /\ WillRedraw(r)' <=> WillRedraw(r) \/ Redraws(c, r)
<1>0. /\ \A x : x \in Carried(r) <=> \E i \in DOMAIN tasks : Carries(tasks[i], r) /\ x = tasks[i].message
      /\ \A x : x \in Carried(r)' <=> \E i \in DOMAIN tasks' : Carries(tasks'[i], r) /\ x = tasks'[i].message
      /\ \A i : i \in Carrying(r) <=> i \in DOMAIN tasks /\ Carries(tasks[i], r)
      /\ \A i : i \in Carrying(r)' <=> i \in DOMAIN tasks' /\ Carries(tasks'[i], r)
      /\ WillRedraw(r) <=> \E i \in DOMAIN tasks : Redraws(tasks[i], r)
      /\ WillRedraw(r)' <=> \E i \in DOMAIN tasks' : Redraws(tasks'[i], r)
  BY InOneCallback, Zenon
<1> DEFINE n == Len(tasks) + 1
<1>1. /\ \A i \in DOMAIN tasks : i \in DOMAIN tasks' /\ tasks'[i] = tasks[i]
      /\ n \in DOMAIN tasks' /\ tasks'[n] = c /\ n \notin DOMAIN tasks
      /\ \A i \in DOMAIN tasks' : i \in DOMAIN tasks \/ i = n
  BY SMT
<1> HIDE DEF n
<1>2. WillRedraw(r)' <=> WillRedraw(r) \/ Redraws(c, r)
  BY <1>1, <1>0, SMT
<1>3. CASE Carries(c, r)
  <2>1. Carrying(r)' = Carrying(r) \cup {n} /\ n \notin Carrying(r)
    BY <1>1, <1>3, <1>0, SMT
  <2>2. Cardinality(Carrying(r)') = Cardinality(Carrying(r)) + 1
    BY <2>1, CallbacksAreFinite, FS_AddElement, Zenon
  <2>3. Carried(r)' = Carried(r) \cup {c.message}
    BY <1>1, <1>3, <1>0, SMT
  <2> QED
    BY <1>2, <1>3, <2>2, <2>3
<1>4. CASE ~Carries(c, r)
  <2>1. Carrying(r)' = Carrying(r)
    <3>1. \A i : i \in Carrying(r)' <=> i \in Carrying(r)
      BY <1>0, <1>1, <1>4, SMT
    <3> QED
      BY <3>1, Zenon
  <2>2. Carried(r)' = Carried(r)
    <3>1. \A x : x \in Carried(r)' <=> x \in Carried(r)
      BY <1>0, <1>1, <1>4, SMT
    <3> QED
      BY <3>1, Zenon
  <2> QED
    BY <1>2, <1>4, <2>1, <2>2
<1> QED
  BY <1>3, <1>4

LEMMA LessIsCarried ==
  ASSUME tasks \in Seq(Task), tasks # << >>, tasks' = Tail(tasks), NEW r
  PROVE  /\ Carries(Head(tasks), r) =>
              /\ Carried(r) = Carried(r)' \cup {Head(tasks).message}
              /\ Cardinality(Carrying(r)) = Cardinality(Carrying(r)') + 1
         /\ ~Carries(Head(tasks), r) =>
              /\ Carried(r) = Carried(r)'
              /\ Cardinality(Carrying(r)) = Cardinality(Carrying(r)')
         /\ WillRedraw(r) <=> WillRedraw(r)' \/ Redraws(Head(tasks), r)
         /\ Cardinality(Carrying(r)') \in Nat
<1>0. /\ \A x : x \in Carried(r) <=> \E i \in DOMAIN tasks : Carries(tasks[i], r) /\ x = tasks[i].message
      /\ \A x : x \in Carried(r)' <=> \E i \in DOMAIN tasks' : Carries(tasks'[i], r) /\ x = tasks'[i].message
      /\ \A i : i \in Carrying(r) <=> i \in DOMAIN tasks /\ Carries(tasks[i], r)
      /\ \A i : i \in Carrying(r)' <=> i \in DOMAIN tasks' /\ Carries(tasks'[i], r)
      /\ WillRedraw(r) <=> \E i \in DOMAIN tasks : Redraws(tasks[i], r)
      /\ WillRedraw(r)' <=> \E i \in DOMAIN tasks' : Redraws(tasks'[i], r)
  BY InOneCallback, Zenon
<1> DEFINE h == Head(tasks)
           Shifted == {i + 1 : i \in Carrying(r)'}
<1>1. /\ tasks' \in Seq(Task) /\ h = tasks[1] /\ 1 \in DOMAIN tasks
      /\ \A i \in DOMAIN tasks : i \in Nat /\ (i # 1 => i - 1 \in DOMAIN tasks' /\ tasks'[i - 1] = tasks[i] /\ (i - 1) + 1 = i)
      /\ \A i \in DOMAIN tasks' : i \in Nat /\ i + 1 \in DOMAIN tasks /\ i + 1 # 1 /\ tasks'[i] = tasks[i + 1]
  BY SMT
<1> HIDE DEF h
<1>2. WillRedraw(r) <=> WillRedraw(r)' \/ Redraws(h, r)
  <2>1. ASSUME NEW i \in DOMAIN tasks, Redraws(tasks[i], r) PROVE WillRedraw(r)' \/ Redraws(h, r)
    BY <1>1, <2>1, <1>0, SMT
  <2>2. ASSUME NEW i \in DOMAIN tasks', Redraws(tasks'[i], r) PROVE WillRedraw(r)
    BY <1>1, <2>2, <1>0, SMT
  <2>3. Redraws(h, r) => WillRedraw(r)
    BY <1>1, <1>0, SMT
  <2> QED
    BY <2>1, <2>2, <2>3, <1>0, SMT
<1>3. IsFiniteSet(Carrying(r)') /\ Cardinality(Carrying(r)') \in Nat
  <2>1. DOMAIN tasks' = 1 .. Len(tasks') /\ 1 \in Int /\ Len(tasks') \in Int
    BY <1>1, SMT
  <2>2. IsFiniteSet(DOMAIN tasks')
    BY <2>1, FS_Interval
  <2>3. Carrying(r)' \subseteq DOMAIN tasks'
    BY DEF Carrying
  <2>4. IsFiniteSet(Carrying(r)')
    BY <2>2, <2>3, FS_Subset
  <2> QED
    BY <2>4, FS_CardinalityType
<1>4. IsFiniteSet(Shifted) /\ Cardinality(Shifted) = Cardinality(Carrying(r)')
  <2> DEFINE f == [i \in Carrying(r)' |-> i + 1]
  <2>1. Carrying(r)' \subseteq Nat
    BY <1>1, Zenon DEF Carrying
  <2> HIDE DEF Shifted
  <2>2. f \in Bijection(Carrying(r)', Shifted)
    <3>1. \A i \in Carrying(r)' : i + 1 \in Shifted
      BY DEF Shifted
    <3>2. f \in [Carrying(r)' -> Shifted]
      BY <3>1
    <3>3. \A i, j \in Carrying(r)' : f[i] = f[j] => i = j
      BY <2>1, SMT
    <3>4. \A k \in Shifted : \E i \in Carrying(r)' : f[i] = k
      BY DEF Shifted
    <3>5. DOMAIN f = Carrying(r)'
      OBVIOUS
    <3> HIDE DEF f
    <3>6. f \in Injection(Carrying(r)', Shifted)
      BY <3>2, <3>3, <3>5, Zenon DEF Injection, IsInjective
    <3>7. f \in Surjection(Carrying(r)', Shifted)
      BY <3>2, <3>4, Zenon DEF Surjection
    <3> QED
      BY <3>6, <3>7, Zenon DEF Bijection
  <2>3. ExistsBijection(Carrying(r)', Shifted)
    BY <2>2, Zenon DEF ExistsBijection
  <2> QED
    BY <1>3, <2>3, FS_Bijection, Zenon
<1>5. \A i : i \in Shifted <=> i \in DOMAIN tasks /\ i # 1 /\ Carries(tasks[i], r)
  <2>1. \A i : i \in Shifted <=> \E j \in Carrying(r)' : i = j + 1
    BY DEF Shifted
  <2> HIDE DEF Shifted
  <2>2. ASSUME NEW i \in DOMAIN tasks, i # 1, Carries(tasks[i], r) PROVE i \in Shifted
    <3>1. i - 1 \in DOMAIN tasks' /\ tasks'[i - 1] = tasks[i] /\ i = (i - 1) + 1
      BY <1>1, <2>2, Zenon
    <3>2. i - 1 \in Carrying(r)'
      BY <1>0, <2>2, <3>1, Zenon
    <3> QED
      BY <2>1, <3>1, <3>2, Zenon
  <2>3. ASSUME NEW i \in Shifted PROVE i \in DOMAIN tasks /\ i # 1 /\ Carries(tasks[i], r)
    <3>1. PICK j \in Carrying(r)' : i = j + 1
      BY <2>1, Zenon
    <3>2. j \in DOMAIN tasks' /\ Carries(tasks'[j], r)
      BY <1>0, <3>1, Zenon
    <3> QED
      BY <1>1, <3>1, <3>2, Zenon
  <2> QED
    BY <2>2, <2>3, Zenon
<1>6. \A x : x \in Carried(r)' <=> \E i \in DOMAIN tasks : i # 1 /\ Carries(tasks[i], r) /\ x = tasks[i].message
  <2>1. ASSUME NEW x, NEW i \in DOMAIN tasks', Carries(tasks'[i], r), x = tasks'[i].message
        PROVE  \E j \in DOMAIN tasks : j # 1 /\ Carries(tasks[j], r) /\ x = tasks[j].message
    BY <1>1, <2>1, Zenon
  <2>2. ASSUME NEW x, NEW i \in DOMAIN tasks, i # 1, Carries(tasks[i], r), x = tasks[i].message
        PROVE  \E j \in DOMAIN tasks' : Carries(tasks'[j], r) /\ x = tasks'[j].message
    BY <1>1, <2>2, Zenon
  <2> QED
    BY <2>1, <2>2, <1>0, SMT
<1> HIDE DEF Shifted
<1>7. CASE Carries(h, r)
  <2>1. Carrying(r) = Shifted \cup {1} /\ 1 \notin Shifted
    BY <1>1, <1>5, <1>7, <1>0, SMT
  <2>2. Cardinality(Carrying(r)) = Cardinality(Shifted) + 1
    BY <1>4, <2>1, FS_AddElement, Zenon
  <2>3. Carried(r) = Carried(r)' \cup {h.message}
    BY <1>1, <1>6, <1>7, <1>0, SMT
  <2> QED
    BY <1>2, <1>3, <1>4, <1>7, <2>2, <2>3 DEF h
<1>8. CASE ~Carries(h, r)
  <2>1. Carrying(r) = Shifted
    <3>1. \A i : i \in Carrying(r) <=> i \in Shifted
      BY <1>0, <1>1, <1>5, <1>8, SMT
    <3> QED
      BY <3>1, Zenon
  <2>2. Carried(r) = Carried(r)'
    <3>1. \A x : x \in Carried(r) <=> x \in Carried(r)'
      BY <1>0, <1>1, <1>6, <1>8, SMT
    <3> QED
      BY <3>1, Zenon
  <2> QED
    BY <1>2, <1>3, <1>4, <1>8, <2>1, <2>2 DEF h
<1> QED
  BY <1>7, <1>8

\* A chat that has just been drawn, with the messages the client has.
FreshView ==
  view.kind = "chat" =>
    /\ view.room \in DOMAIN messages /\ view.shown = messages[view.room]
    /\ view.overtaken = Cardinality(Carrying(view.room))

\* What the callbacks to come carry was in the history when the chat was drawn.
LEMMA FreshIsWhole ==
  ASSUME LobbyTypeOK', MessagesAreThere', FreshView'
  PROVE  HistoryComesTrue'
<1> SUFFICES ASSUME view'.kind = "chat", ~WillRedraw(view.room)' PROVE WholeHistory(view.room)'
  BY Zenon DEF HistoryComesTrue
<1> DEFINE r == view'.room
<1>1. /\ r \in DOMAIN messages' /\ view'.shown = messages'[r]
      /\ view'.overtaken = Cardinality(Carrying(view.room)')
  BY Zenon DEF FreshView
<1>2. Len(messages'[r]) \in Nat /\ view'.overtaken \in Nat
  <2>1. messages' \in [DOMAIN db' -> Seq(Nat)] /\ view' \in View
    BY Zenon DEF LobbyTypeOK
  <2>2. messages'[r] \in Seq(Nat)
    BY <1>1, <2>1
  <2>3. view' \in [kind : {"chat"}, room : Room, by : Openings, shown : Seq(Nat), overtaken : Nat]
    BY <2>1, SMT DEF View, Welcome
  <2> QED
    BY <2>2, <2>3, SMT
<1>3. ASSUME NEW x \in Carried(view.room)' PROVE x \in ToSet(messages'[r])
  <2>1. PICK i \in DOMAIN tasks' : Carries(tasks'[i], view'.room) /\ x = tasks'[i].message
    BY <1>3, InOneCallback, Zenon DEF Carried, Carrying
  <2>2. tasks'[i].kind = "message" /\ tasks'[i].room = r
    BY <2>1, Zenon DEF Carries
  <2>3. ~\E j \in DOMAIN tasks' : Withdraws(tasks'[j], r)
    BY Zenon DEF WillRedraw, Redraws, Withdraws, Parts, Joins
  <2> HIDE DEF r
  <2> QED
    BY <2>1, <2>2, <2>3, Zenon DEF MessagesAreThere, Withdraws
<1>4. ToSet(view'.shown) \cup Carried(view.room)' = ToSet(messages'[r])
  BY <1>1, <1>3, Zenon
<1>5. Len(view'.shown) + Cardinality(Carrying(view.room)') <= Len(messages'[r]) + view'.overtaken
  BY <1>1, <1>2, SMT
<1> QED
  BY <1>4, <1>5, Zenon DEF WholeHistory

LEMMA ChatIsFresh ==
  ASSUME LobbyTypeOK, NEW r, NEW by, show_chat_view(r, by), messages' = messages
  PROVE  FreshView'
<1> DEFINE late == {i \in DOMAIN tasks' : tasks'[i].kind = "message" /\ tasks'[i].room = r}
<1>1. CASE r \in DOMAIN rooms
  <2>1. view' = [kind |-> "chat", room |-> r, by |-> by, shown |-> messages[r],
                 overtaken |-> Cardinality(late)]
    BY <1>1, Zenon DEF show_chat_view
  <2>2. r \in DOMAIN messages
    BY <1>1, Zenon DEF LobbyTypeOK
  <2> HIDE DEF late
  <2>3. view'.room = r /\ view'.shown = messages[r] /\ view'.overtaken = Cardinality(late)
    BY <2>1, SMT
  <2>4. late = Carrying(view.room)'
    BY <2>3 DEF late, Carrying, Carries
  <2> QED
    BY <2>2, <2>3, <2>4, Zenon DEF FreshView
<1>2. CASE r \notin DOMAIN rooms
  <2>1. view' = [kind |-> "blank", room |-> r]
    BY <1>2, Zenon DEF show_chat_view, Blank
  <2>2. view'.kind # "chat"
    BY <2>1, SMT
  <2> QED
    BY <2>2, Zenon DEF FreshView
<1> QED
  BY <1>1, <1>2, Zenon

\* The user cannot become a member of a room that the database leaves as it is.
LEMMA MembersAreThose ==
  ASSUME LobbyInv, LobbyInv'
  PROVE  \A r : /\ Member(rooms, r) <=> Member(db, r)
                /\ Member(rooms', r) <=> Member(db', r)
<1>1. DOMAIN rooms = DOMAIN db /\ DOMAIN rooms' = DOMAIN db'
  BY Zenon DEF LobbyInv, LobbyTypeOK
<1>2. /\ \A r \in DOMAIN db : Me \in rooms[r].users <=> Me \in db[r].users
      /\ \A r \in DOMAIN db' : Me \in rooms'[r].users <=> Me \in db'[r].users
  BY Zenon DEF LobbyInv, MembershipIsKnown
<1> QED
  BY <1>1, <1>2, Zenon DEF Member

LEMMA WindowIsTrue ==
  ASSUME LobbyInv, LobbyInv', HistoryInv, db' = db, tasks' = tasks, messages' = messages,
         view' = view \/ FreshView'
  PROVE  HistoryInv'
<1>1. MessagesAreThere'
  BY Zenon DEF HistoryInv, MessagesAreThere
<1>2. CASE view' = view
  <2>1. Member(rooms', view.room) => Member(rooms, view.room)
    BY MembersAreThose, Zenon
  <2>2. WillRedraw(view.room)' <=> WillRedraw(view.room)
    BY <1>2, Zenon DEF WillRedraw
  <2>3. WholeHistory(view.room) => WholeHistory(view.room)'
    BY <1>2, Zenon DEF WholeHistory, Carried, Carrying
  <2>4. HistoryComesTrue'
    BY <1>2, <2>1, <2>2, <2>3, Zenon DEF HistoryInv, HistoryComesTrue
  <2> QED
    BY <1>1, <2>4 DEF HistoryInv
<1>3. CASE FreshView'
  BY <1>1, <1>3, FreshIsWhole, Zenon DEF HistoryInv, LobbyInv
<1> QED
  BY <1>2, <1>3

LEMMA OneMoreShown ==
  ASSUME LobbyTypeOK, view.kind = "chat", NEW m \in Nat, view' = [view EXCEPT !.shown = Append(@, m)]
  PROVE  /\ view'.kind = "chat" /\ view'.room = view.room /\ view'.overtaken = view.overtaken
         /\ ToSet(view'.shown) = ToSet(view.shown) \cup {m}
         /\ Len(view'.shown) = Len(view.shown) + 1 /\ Len(view.shown) \in Nat
<1> DEFINE more == Append(view.shown, m)
<1>1. view \in [kind : {"chat"}, room : Room, by : Openings, shown : Seq(Nat), overtaken : Nat]
  <2>1. view \in View
    BY Zenon DEF LobbyTypeOK
  <2> QED
    BY <2>1, SMT DEF View, Welcome
<1>2. view.shown \in Seq(Nat)
  BY <1>1, SMT
<1>3. view' = [view EXCEPT !.shown = more]
  BY Zenon
<1>4. ToSet(more) = ToSet(view.shown) \cup {m} /\ Len(more) = Len(view.shown) + 1 /\ Len(view.shown) \in Nat
  BY <1>2, ToSetGrows
<1> HIDE DEF more
<1>5. view'.kind = "chat" /\ view'.room = view.room /\ view'.overtaken = view.overtaken /\ view'.shown = more
  BY <1>1, <1>3, SMT
<1> QED
  BY <1>4, <1>5, Zenon

\* The first callback runs: what it carries is shown, or is not of the chat that is shown.
LEMMA RunIsTrue ==
  ASSUME LobbyInv, LobbyInv', HistoryInv, db' = db, messages' = messages,
         tasks # << >>, tasks' = Tail(tasks), NEW c \in Task, c = Head(tasks),
         \/ FreshView'
         \/ /\ view' = view
            /\ view.kind = "chat" => ~Redraws(c, view.room) /\ ~Carries(c, view.room)
         \/ /\ view.kind = "chat" /\ c.kind = "message" /\ c.room = view.room
            /\ view' = [view EXCEPT !.shown = Append(@, c.message)]
  PROVE  HistoryInv'
<1>1. /\ tasks' \in Seq(Task) /\ tasks \in Seq(Task)
      /\ \A i \in DOMAIN tasks : i \in Nat /\ (i # 1 => i - 1 \in DOMAIN tasks' /\ tasks'[i - 1] = tasks[i])
      /\ \A i \in DOMAIN tasks' : i \in Nat /\ i + 1 \in DOMAIN tasks /\ tasks'[i] = tasks[i + 1]
  <2>1. tasks \in Seq(Task)
    BY Zenon DEF LobbyInv, LobbyTypeOK
  <2> QED
    BY <2>1, OneLess
<1>2. MessagesAreThere'
  <2> SUFFICES ASSUME NEW i \in DOMAIN tasks', tasks'[i].kind = "message"
               PROVE  \/ /\ tasks'[i].room \in DOMAIN messages
                         /\ tasks'[i].message \in ToSet(messages[tasks'[i].room])
                      \/ \E j \in DOMAIN tasks' : i < j /\ Withdraws(tasks'[j], tasks'[i].room)
    BY Zenon DEF MessagesAreThere, Withdraws
  <2>1. i + 1 \in DOMAIN tasks /\ tasks[i + 1] = tasks'[i] /\ i \in Nat
    BY <1>1
  <2>2. \/ /\ tasks'[i].room \in DOMAIN messages
           /\ tasks'[i].message \in ToSet(messages[tasks'[i].room])
        \/ \E j \in DOMAIN tasks : i + 1 < j /\ Withdraws(tasks[j], tasks'[i].room)
    BY <2>1, Zenon DEF HistoryInv, MessagesAreThere
  <2>3. ASSUME NEW j \in DOMAIN tasks, i + 1 < j, Withdraws(tasks[j], tasks'[i].room)
        PROVE  \E k \in DOMAIN tasks' : i < k /\ Withdraws(tasks'[k], tasks'[i].room)
    <3>1. j # 1 /\ i < j - 1
      BY <1>1, <2>1, <2>3, SMT
    <3>2. j - 1 \in DOMAIN tasks' /\ tasks'[j - 1] = tasks[j]
      BY <1>1, <3>1, Zenon
    <3> QED
      BY <2>3, <3>1, <3>2, Zenon
  <2> QED
    BY <2>2, <2>3, Zenon
<1>3. \A r : /\ Carries(c, r) =>
                  /\ Carried(r) = Carried(r)' \cup {c.message}
                  /\ Cardinality(Carrying(r)) = Cardinality(Carrying(r)') + 1
             /\ ~Carries(c, r) =>
                  /\ Carried(r) = Carried(r)'
                  /\ Cardinality(Carrying(r)) = Cardinality(Carrying(r)')
             /\ WillRedraw(r) <=> WillRedraw(r)' \/ Redraws(c, r)
             /\ Cardinality(Carrying(r)') \in Nat
  BY <1>1, LessIsCarried, Zenon
<1>4. CASE FreshView'
  BY <1>2, <1>4, FreshIsWhole, Zenon DEF HistoryInv, LobbyInv
<1>5. ASSUME NEW r, r = view.room, view.kind = "chat", view'.kind = "chat", view'.room = r,
             view'.overtaken = view.overtaken, ~Redraws(c, r),
             ToSet(view'.shown) \cup Carried(r)' = ToSet(view.shown) \cup Carried(r),
             Len(view'.shown) + Cardinality(Carrying(r)') = Len(view.shown) + Cardinality(Carrying(r))
      PROVE  HistoryInv'
  <2>1. SUFFICES ASSUME Member(rooms', r), ~WillRedraw(r)' PROVE WholeHistory(r)'
    BY <1>2, <1>5, Zenon DEF HistoryInv, HistoryComesTrue
  <2>2. Member(rooms, r)
    BY <2>1, MembersAreThose, Zenon
  <2>3. ~WillRedraw(r)
    BY <1>3, <1>5, <2>1, Zenon
  <2>4. WholeHistory(r)
    BY <1>5, <2>2, <2>3, Zenon DEF HistoryInv, HistoryComesTrue
  <2> QED
    BY <1>5, <2>4, Zenon DEF WholeHistory
<1>6. CASE view' = view /\ (view.kind = "chat" => ~Redraws(c, view.room) /\ ~Carries(c, view.room))
  <2>1. CASE view.kind # "chat"
    <3>1. HistoryComesTrue'
      BY <1>6, <2>1, Zenon DEF HistoryComesTrue
    <3> QED
      BY <1>2, <3>1 DEF HistoryInv
  <2>2. CASE view.kind = "chat"
    <3>0. PICK r : r = view.room
      OBVIOUS
    <3>1. /\ ~Redraws(c, r) /\ view'.room = r /\ view'.kind = "chat"
          /\ view'.shown = view.shown /\ view'.overtaken = view.overtaken
      BY <1>6, <2>2, <3>0, Zenon
    <3>2. Carried(r)' = Carried(r) /\ Cardinality(Carrying(r)') = Cardinality(Carrying(r))
      BY <1>3, <1>6, <2>2, <3>0, Zenon
    <3> QED
      BY <1>5, <2>2, <3>0, <3>1, <3>2, Zenon
  <2> QED
    BY <2>1, <2>2
<1>7. CASE /\ view.kind = "chat" /\ c.kind = "message" /\ c.room = view.room
           /\ view' = [view EXCEPT !.shown = Append(@, c.message)]
  <2>1. LobbyTypeOK /\ c.message \in Nat
    BY <1>7, TaskKinds, Zenon DEF LobbyInv
  <2>0. PICK r : r = view.room
    OBVIOUS
  <2>2. /\ view'.kind = "chat" /\ view'.room = r /\ view'.overtaken = view.overtaken
        /\ ToSet(view'.shown) = ToSet(view.shown) \cup {c.message}
        /\ Len(view'.shown) = Len(view.shown) + 1 /\ Len(view.shown) \in Nat
    BY <1>7, <2>0, <2>1, OneMoreShown
  <2>3. Carries(c, r) /\ ~Redraws(c, r)
    BY <1>7, <2>0, SMT DEF Carries, Redraws, Parts, Joins, Withdraws
  <2>4. /\ Carried(r) = Carried(r)' \cup {c.message}
        /\ Cardinality(Carrying(r)) = Cardinality(Carrying(r)') + 1
        /\ Cardinality(Carrying(r)') \in Nat
    BY <1>3, <2>3, Zenon
  <2>5. ToSet(view'.shown) \cup Carried(r)' = ToSet(view.shown) \cup Carried(r)
    BY <2>2, <2>4, Zenon
  <2>6. Len(view'.shown) + Cardinality(Carrying(r)') = Len(view.shown) + Cardinality(Carrying(r))
    <3>1. \A a, b \in Nat : (a + 1) + b = a + (b + 1)
      BY SMT
    <3> QED
      BY <2>2, <2>4, <3>1, Zenon
  <2> QED
    BY <1>5, <1>7, <2>0, <2>2, <2>3, <2>5, <2>6, Zenon
<1> QED
  BY <1>4, <1>6, <1>7

\* A change of the database in one room, with the callback it puts off, or none.
LEMMA HistoryTold ==
  ASSUME LobbyInv, LobbyInv', HistoryInv, view' = view, NEW told \in BOOLEAN, NEW c \in Task,
         tasks' = IF told THEN Append(tasks, c) ELSE tasks,
         \A x \in made : Member(db', x) => Member(db, x) \/ (told /\ Joins(c, x)),
         \A x \in DOMAIN messages :
           \/ told /\ Withdraws(c, x)
           \/ x \in DOMAIN messages' /\ messages'[x] = messages[x] /\ ~Carries(c, x)
           \/ /\ x \in DOMAIN messages' /\ messages'[x] = Append(messages[x], c.message)
              /\ Carries(c, x) /\ (Member(db, x) => told),
         told /\ c.kind = "message" => c.room \in DOMAIN messages
  PROVE  HistoryInv'
<1>1. LobbyTypeOK /\ tasks \in Seq(Task) /\ messages \in [DOMAIN db -> Seq(Nat)]
  BY Zenon DEF LobbyInv, LobbyTypeOK
<1>2. c.kind = "message" => c.message \in Nat
  BY TaskKinds, Zenon
<1>3. \A x \in DOMAIN messages : /\ messages[x] \in Seq(Nat) /\ Len(messages[x]) \in Nat
  <2> SUFFICES ASSUME NEW x \in DOMAIN messages PROVE messages[x] \in Seq(Nat) /\ Len(messages[x]) \in Nat
    BY Zenon
  <2>1. messages[x] \in Seq(Nat)
    BY <1>1
  <2> QED
    BY <2>1, SMT
<1>4. \A x \in DOMAIN messages : c.message \in Nat =>
        /\ ToSet(Append(messages[x], c.message)) = ToSet(messages[x]) \cup {c.message}
        /\ Len(Append(messages[x], c.message)) = Len(messages[x]) + 1
  BY <1>3, ToSetGrows
<1>5. /\ \A i \in DOMAIN tasks : i \in DOMAIN tasks' /\ tasks'[i] = tasks[i] /\ i < Len(tasks) + 1
      /\ told => Len(tasks) + 1 \in DOMAIN tasks' /\ tasks'[Len(tasks) + 1] = c
      /\ \A i \in DOMAIN tasks' : i \in DOMAIN tasks \/ (told /\ i = Len(tasks) + 1)
  BY <1>1, SMT
<1>6. MessagesAreThere'
  <2> SUFFICES ASSUME NEW i \in DOMAIN tasks', tasks'[i].kind = "message"
               PROVE  \/ /\ tasks'[i].room \in DOMAIN messages'
                         /\ tasks'[i].message \in ToSet(messages'[tasks'[i].room])
                      \/ \E j \in DOMAIN tasks' : i < j /\ Withdraws(tasks'[j], tasks'[i].room)
    BY Zenon DEF MessagesAreThere, Withdraws
  <2>1. CASE i \in DOMAIN tasks
    <3>1. tasks'[i] = tasks[i] /\ i < Len(tasks) + 1
      BY <1>5, <2>1, Zenon
    <3>2. PICK x : x = tasks[i].room
      OBVIOUS
    <3>3. CASE x \in DOMAIN messages /\ tasks[i].message \in ToSet(messages[x])
      <4>1. CASE told /\ Withdraws(c, x)
        BY <1>5, <3>1, <3>2, <4>1, Zenon
      <4>2. CASE x \in DOMAIN messages' /\ messages'[x] = messages[x]
        BY <3>1, <3>2, <3>3, <4>2, Zenon
      <4>3. CASE x \in DOMAIN messages' /\ messages'[x] = Append(messages[x], c.message) /\ Carries(c, x)
        <5>1. c.message \in Nat
          BY <1>2, <4>3, Zenon DEF Carries
        <5>2. tasks[i].message \in ToSet(messages'[x])
          BY <1>4, <3>3, <4>3, <5>1, Zenon
        <5> QED
          BY <3>1, <3>2, <4>3, <5>2, Zenon
      <4> QED
        BY <3>3, <4>1, <4>2, <4>3, Zenon
    <3>4. CASE \E j \in DOMAIN tasks : i < j /\ Withdraws(tasks[j], x)
      BY <1>5, <3>1, <3>2, <3>4, Zenon
    <3>5. \/ x \in DOMAIN messages /\ tasks[i].message \in ToSet(messages[x])
          \/ \E j \in DOMAIN tasks : i < j /\ Withdraws(tasks[j], x)
      BY <2>1, <3>1, <3>2, Zenon DEF HistoryInv, MessagesAreThere
    <3> QED
      BY <3>3, <3>4, <3>5, Zenon
  <2>2. CASE i \notin DOMAIN tasks
    <3>1. told /\ tasks'[i] = c /\ c.kind = "message" /\ c.room \in DOMAIN messages
      BY <1>5, <2>2, Zenon
    <3>2. c.message \in Nat /\ Carries(c, c.room) /\ ~Withdraws(c, c.room)
      BY <1>2, <3>1, SMT DEF Carries, Withdraws
    <3>3. c.room \in DOMAIN messages' /\ messages'[c.room] = Append(messages[c.room], c.message)
      BY <3>1, <3>2, Zenon
    <3>4. c.message \in ToSet(messages'[c.room])
      BY <1>4, <3>1, <3>2, <3>3, Zenon
    <3> QED
      BY <3>1, <3>3, <3>4, Zenon
  <2> QED
    BY <2>1, <2>2
<1>7. HistoryComesTrue'
  <2> SUFFICES ASSUME NEW r, r = view.room, view.kind = "chat", Member(rooms', r), ~WillRedraw(r)'
               PROVE  WholeHistory(r)'
    BY Zenon DEF HistoryComesTrue
  <2>1. r \in made /\ Member(db', r)
    BY <1>1, MembersAreThose, Shapes, Zenon
  <2>2. /\ WillRedraw(r)' <=> WillRedraw(r) \/ (told /\ Redraws(c, r))
        /\ told /\ Carries(c, r) =>
              /\ Carried(r)' = Carried(r) \cup {c.message}
              /\ Cardinality(Carrying(r)') = Cardinality(Carrying(r)) + 1
        /\ ~(told /\ Carries(c, r)) =>
              /\ Carried(r)' = Carried(r)
              /\ Cardinality(Carrying(r)') = Cardinality(Carrying(r))
    <3>1. CASE told
      <4>1. tasks' = Append(tasks, c)
        BY <3>1, Zenon
      <4> QED
        BY <1>1, <3>1, <4>1, MoreIsCarried, Zenon
    <3>2. CASE ~told
      <4>1. tasks' = tasks
        BY <3>2, Zenon
      <4> QED
        BY <3>2, <4>1, Zenon DEF WillRedraw, Carried, Carrying
    <3> QED
      BY <3>1, <3>2
  <2>3. ~WillRedraw(r) /\ ~(told /\ Joins(c, r)) /\ ~(told /\ Withdraws(c, r))
    BY <2>2, Zenon DEF Redraws
  <2>4. Member(db, r) /\ Member(rooms, r)
    BY <2>1, <2>3, MembersAreThose, Zenon
  <2>5. /\ ToSet(view.shown) \cup Carried(r) = ToSet(messages[r])
        /\ Len(view.shown) + Cardinality(Carrying(r)) <= Len(messages[r]) + view.overtaken
    BY <2>3, <2>4, Zenon DEF HistoryInv, HistoryComesTrue, WholeHistory
  <2>6. r \in DOMAIN messages
    BY <1>1, <2>4, Zenon DEF Member
  <2>7. CASE messages'[r] = messages[r] /\ ~Carries(c, r)
    BY <2>2, <2>5, <2>7, Zenon DEF WholeHistory
  <2>8. CASE messages'[r] = Append(messages[r], c.message) /\ Carries(c, r) /\ told
    <3>1. c.message \in Nat
      BY <1>2, <2>8, Zenon DEF Carries
    <3>2. /\ ToSet(messages'[r]) = ToSet(messages[r]) \cup {c.message}
          /\ Len(messages'[r]) = Len(messages[r]) + 1 /\ Len(messages[r]) \in Nat
      BY <1>3, <1>4, <2>6, <2>8, <3>1, Zenon
    <3>3. /\ Carried(r)' = Carried(r) \cup {c.message}
          /\ Cardinality(Carrying(r)') = Cardinality(Carrying(r)) + 1
      BY <2>2, <2>8, Zenon
    <3>4. ToSet(view.shown) \cup Carried(r)' = ToSet(messages'[r])
      BY <2>5, <3>2, <3>3, Zenon
    <3>5. Len(view.shown) \in Nat /\ Cardinality(Carrying(r)) \in Nat /\ view.overtaken \in Nat
      <4>1. view \in View
        BY <1>1, Zenon DEF LobbyTypeOK
      <4>2. view \in [kind : {"chat"}, room : Room, by : Openings, shown : Seq(Nat), overtaken : Nat]
        BY <4>1, SMT DEF View, Welcome
      <4>3. view.shown \in Seq(Nat) /\ view.overtaken \in Nat
        BY <4>2, SMT
      <4>4. Len(view.shown) \in Nat
        BY <4>3, SMT
      <4> QED
        BY <1>1, <4>3, <4>4, CallbacksAreFinite
    <3>6. Len(view.shown) + Cardinality(Carrying(r)') <= Len(messages'[r]) + view.overtaken
      <4>1. \A a, b, n, d \in Nat : a + b <= n + d => a + (b + 1) <= (n + 1) + d
        BY SMT
      <4> QED
        BY <2>5, <3>2, <3>3, <3>5, <4>1, Zenon
    <3> QED
      BY <3>4, <3>6, Zenon DEF WholeHistory
  <2> QED
    BY <2>3, <2>4, <2>6, <2>7, <2>8, Zenon
<1> QED
  BY <1>6, <1>7 DEF HistoryInv

LEMMA UpsertIsTold ==
  ASSUME LobbyInv, LobbyInv', HistoryInv, view' = view, NEW r \in Room, NEW told \in BOOLEAN,
         NEW c \in Task, c.kind \in {"created", "requested", "rejected", "added"},
         _upsert_room(r, told, c),
         \A x \in made : Member(db', x) => Member(db, x) \/ (told /\ Joins(c, x))
  PROVE  HistoryInv'
<1>1. /\ messages' = IF r \in DOMAIN messages THEN messages ELSE With(messages, r, << >>)
      /\ Notify(told, c)
  BY Zenon DEF _upsert_room
<1>2. tasks' = IF told THEN Append(tasks, c) ELSE tasks
  BY <1>1, Zenon DEF Notify
<1>3. c.kind # "message" /\ \A x : ~Carries(c, x)
  BY SMT DEF Carries
<1>4. \A x \in DOMAIN messages : x \in DOMAIN messages' /\ messages'[x] = messages[x]
  <2>1. CASE r \in DOMAIN messages
    BY <1>1, <2>1, Zenon
  <2>2. CASE r \notin DOMAIN messages
    BY <1>1, <2>2, SMT DEF With
  <2> QED
    BY <2>1, <2>2
<1> QED
  BY <1>2, <1>3, <1>4, HistoryTold, Zenon

LEMMA RoomsAreTold ==
  ASSUME LobbyInv, LobbyInv', HistoryInv, view' = view, NEW r \in Room, NEW u \in Users,
         NewRoom(r) \/ AddUser(r, u) \/ Request(r, u) \/ DeleteRequest(r, u)
  PROVE  HistoryInv'
<1>1. \A x : x # r => (Member(db', x) <=> Member(db, x))
  <2>1. \A x : x # r => (x \in DOMAIN db' <=> x \in DOMAIN db) /\ (x \in DOMAIN db => db'[x] = db[x])
    BY SMT DEF NewRoom, AddUser, Request, DeleteRequest, With
  <2> QED
    BY <2>1, Zenon DEF Member
<1>2. r \in DOMAIN db => /\ db[r] \in [users : SUBSET Users, requests : SUBSET Users]
  BY Zenon DEF LobbyInv, LobbyTypeOK
<1>3. CASE NewRoom(r)
  <2> DEFINE c == [kind |-> "created", room |-> r]
             told == r \in Mine
  <2>1. _upsert_room(r, told, c) /\ r \notin made
    BY <1>3, Zenon DEF NewRoom
  <2>3. told \in BOOLEAN
    OBVIOUS
  <2>2. c \in Task /\ c.kind = "created"
    BY Callbacks DEF Users
  <2> HIDE DEF c, told
  <2> QED
    BY <1>1, <2>1, <2>2, <2>3, UpsertIsTold, Zenon
<1>4. CASE AddUser(r, u)
  <2> DEFINE c == [kind |-> "added", room |-> r, user |-> u]
             told == r \in Mine \/ u = Me
  <2>1. /\ _upsert_room(r, told, c) /\ told \in BOOLEAN /\ r \in DOMAIN db
        /\ db' = [db EXCEPT ![r] = [users |-> @.users \cup {u}, requests |-> @.requests \ {u}]]
    BY <1>4, Zenon DEF AddUser
  <2>2. c \in Task /\ c.kind = "added" /\ (u = Me => told /\ Joins(c, r))
    BY Callbacks DEF Joins
  <2> HIDE DEF c, told
  <2>3. r \in DOMAIN db' /\ db'[r].users = db[r].users \cup {u}
    BY <1>2, <2>1, SMT
  <2>4. Member(db', r) => Member(db, r) \/ (told /\ Joins(c, r))
    BY <2>1, <2>2, <2>3, Zenon DEF Member
  <2> QED
    BY <1>1, <2>1, <2>2, <2>4, UpsertIsTold, Zenon
<1>5. CASE Request(r, u) \/ DeleteRequest(r, u)
  <2>1. PICK k \in {"requested", "rejected"} : _upsert_room(r, r \in Mine \/ u = Me, [kind |-> k, room |-> r])
    BY <1>5, Zenon DEF Request, DeleteRequest
  <2> DEFINE c == [kind |-> k, room |-> r]
             told == r \in Mine \/ u = Me
  <2>2. _upsert_room(r, told, c) /\ told \in BOOLEAN
    BY <2>1
  <2>3. c \in Task /\ c.kind \in {"requested", "rejected"}
    BY Callbacks DEF Users
  <2> HIDE DEF c, told
  <2>4. r \in DOMAIN db' => r \in DOMAIN db /\ db'[r].users = db[r].users
    BY <1>2, <1>5, SMT DEF Request, DeleteRequest
  <2>5. Member(db', r) => Member(db, r)
    BY <2>4, Zenon DEF Member
  <2> QED
    BY <1>1, <2>2, <2>3, <2>5, UpsertIsTold, Zenon
<1> QED
  BY <1>3, <1>4, <1>5

LEMMA MessagesAreTold ==
  ASSUME LobbyInv, LobbyInv', HistoryInv, view' = view, events' \in Nat, NEW r \in Room,
         NewMessage(r) \/ DeleteMessage(r)
  PROVE  HistoryInv'
<1>1. DOMAIN messages = DOMAIN db /\ Me \in Users
  BY Zenon DEF LobbyInv, LobbyTypeOK, Users
<1>2. db' = db /\ r \in DOMAIN db
  BY Zenon DEF NewMessage, DeleteMessage
<1>3. \A x : Member(db', x) => Member(db, x)
  BY <1>2, Zenon
<1>4. CASE NewMessage(r)
  <2> DEFINE c == [kind |-> "message", room |-> r, message |-> events']
             told == Me \in db[r].users
  <2>1. messages' = [messages EXCEPT ![r] = Append(@, events')] /\ Notify(told, c)
    BY <1>4, Zenon DEF NewMessage
  <2>2. c \in Task /\ c.kind = "message" /\ c.room = r /\ c.message = events' /\ told \in BOOLEAN
    <3>1. c \in Task
      BY <1>1, Callbacks, Zenon
    <3>2. c.kind = "message" /\ c.room = r /\ c.message = events' /\ told \in BOOLEAN
      OBVIOUS
    <3> QED
      BY <3>1, <3>2
  <2>3. Member(db, r) => told
    BY Zenon DEF Member
  <2> HIDE DEF c, told
  <2>4. tasks' = IF told THEN Append(tasks, c) ELSE tasks
    BY <2>1, Zenon DEF Notify
  <2>5. \A x \in DOMAIN messages : x \in DOMAIN messages' /\
          messages'[x] = IF x = r THEN Append(messages[x], c.message) ELSE messages[x]
    BY <1>1, <1>2, <2>1, <2>2, Zenon
  <2>6. \A x : Carries(c, x) <=> x = r
    BY <2>2, Zenon DEF Carries
  <2>7. \A x \in DOMAIN messages :
          \/ told /\ Withdraws(c, x)
          \/ x \in DOMAIN messages' /\ messages'[x] = messages[x] /\ ~Carries(c, x)
          \/ /\ x \in DOMAIN messages' /\ messages'[x] = Append(messages[x], c.message)
             /\ Carries(c, x) /\ (Member(db, x) => told)
    BY <2>3, <2>5, <2>6, Zenon
  <2> QED
    BY <1>1, <1>2, <1>3, <2>2, <2>4, <2>7, HistoryTold, Zenon
<1>5. CASE DeleteMessage(r)
  <2> DEFINE c == [kind |-> "deleted", room |-> r]
  <2>1. (\E m : messages' = [messages EXCEPT ![r] = m]) /\ Notify(TRUE, c)
    BY <1>5, Zenon DEF DeleteMessage
  <2>2. c \in Task /\ c.kind # "message" /\ Withdraws(c, r)
    <3>1. c \in Task
      BY <1>1, Callbacks DEF Users
    <3>2. c.kind = "deleted" /\ c.room = r
      OBVIOUS
    <3> QED
      BY <3>1, <3>2, SMT DEF Withdraws
  <2> HIDE DEF c
  <2>3. tasks' = IF TRUE THEN Append(tasks, c) ELSE tasks
    BY <2>1, Zenon DEF Notify
  <2>4. \A x \in DOMAIN messages : x # r => x \in DOMAIN messages' /\ messages'[x] = messages[x]
    BY <2>1, Zenon
  <2>5. \A x : ~Carries(c, x)
    BY <2>2, Zenon DEF Carries
  <2> QED
    BY <1>3, <2>2, <2>3, <2>4, <2>5, HistoryTold, Zenon
<1> QED
  BY <1>4, <1>5

LEMMA PartingsAreTold ==
  ASSUME LobbyInv, LobbyInv', HistoryInv, view' = view, NEW r \in Room, NEW u \in Users,
         RemoveUser(r, u) \/ DeleteRoom(r)
  PROVE  HistoryInv'
<1>1. db \in [DOMAIN db -> [users : SUBSET Users, requests : SUBSET Users]] /\ DOMAIN messages = DOMAIN db
  BY Zenon DEF LobbyInv, LobbyTypeOK
<1>2. CASE RemoveUser(r, u)
  <2> DEFINE c == [kind |-> "removed", room |-> r, user |-> u]
             told == Me \in db[r].users
  <2>1. /\ r \in DOMAIN db /\ db' = [db EXCEPT ![r].users = @ \ {u}]
        /\ messages' = messages /\ Notify(told, c)
    BY <1>2, Zenon DEF RemoveUser
  <2>2. c \in Task /\ c.kind # "message" /\ told \in BOOLEAN
    <3>1. c \in Task
      BY Callbacks
    <3>2. c.kind = "removed" /\ told \in BOOLEAN
      OBVIOUS
    <3> QED
      BY <3>1, <3>2, SMT
  <2> HIDE DEF c, told
  <2>3. tasks' = IF told THEN Append(tasks, c) ELSE tasks
    BY <2>1, Zenon DEF Notify
  <2>4. DOMAIN db' = DOMAIN db /\ \A x \in DOMAIN db : db'[x].users \subseteq db[x].users
    BY <1>1, <2>1, SMT
  <2>5. \A x : Member(db', x) => Member(db, x)
    BY <2>4, Zenon DEF Member
  <2>6. \A x : ~Carries(c, x)
    BY <2>2, Zenon DEF Carries
  <2> QED
    BY <2>1, <2>2, <2>3, <2>5, <2>6, HistoryTold, Zenon
<1>3. CASE DeleteRoom(r)
  <2> DEFINE c == [kind |-> "gone", room |-> r]
  <2>1. db' = Without(db, r) /\ messages' = Without(messages, r) /\ Notify(TRUE, c)
    BY <1>3, Zenon DEF DeleteRoom
  <2>2. c \in Task /\ c.kind # "message" /\ Withdraws(c, r)
    <3>1. c \in Task
      BY Callbacks
    <3>2. c.kind = "gone" /\ c.room = r
      OBVIOUS
    <3> QED
      BY <3>1, <3>2, SMT DEF Withdraws
  <2> HIDE DEF c
  <2>3. tasks' = IF TRUE THEN Append(tasks, c) ELSE tasks
    BY <2>1, Zenon DEF Notify
  <2>4. \A x \in DOMAIN messages : x # r => x \in DOMAIN messages' /\ messages'[x] = messages[x]
    BY <2>1, SMT DEF Without
  <2>5. \A x : Member(db', x) => Member(db, x)
    BY <2>1, SMT DEF Member, Without
  <2>6. \A x : ~Carries(c, x)
    BY <2>2, Zenon DEF Carries
  <2> QED
    BY <2>2, <2>3, <2>4, <2>5, <2>6, HistoryTold, Zenon
<1> QED
  BY <1>2, <1>3

LEMMA GrantIsTrue ==
  ASSUME LobbyInv, LobbyInv', HistoryInv, view' = view, events' \in Nat, NEW r \in Room, NEW u \in Users,
         \/ NewRoom(r) \/ AddUser(r, u) \/ Request(r, u) \/ DeleteRequest(r, u)
         \/ NewMessage(r) \/ DeleteMessage(r) \/ RemoveUser(r, u) \/ DeleteRoom(r)
  PROVE  HistoryInv'
  BY RoomsAreTold, MessagesAreTold, PartingsAreTold, Zenon

LEMMA DatabaseIsTrue == ASSUME LobbyInv, LobbyInv', HistoryInv, Database PROVE HistoryInv'
<1>1. view' = view /\ events' \in Nat /\ sent \in Seq(Asking) /\ Me \in Users /\ Other \in Users
  <2>1. view' = view /\ events' = events + 1
    BY Zenon DEF Database
  <2>2. events \in Nat /\ sent \in Seq(Asking)
    BY Zenon DEF LobbyInv, LobbyTypeOK
  <2> QED
    BY <2>1, <2>2, SMT DEF Users
<1>2. CASE Answer
  <2> DEFINE q == Head(sent)
  <2>1. /\ sent # << >> /\ sent' = Tail(sent)
        /\ (Refused(q) /\ UNCHANGED <<db, replica, tasks, rows, moot>>) \/ Grant(q)
    BY <1>2, Zenon DEF Answer
  <2>2. q \in Asking
    BY <1>1, <2>1, OthersAreStillAsked, Zenon
  <2> HIDE DEF q
  <2>3. /\ q.room \in Room
        /\ q.kind \in {"NEW_CHATROOM", "REQUEST", "NEW_MESSAGE", "DELETE_CHATROOM", "ADD_USER",
                       "REMOVE_USER", "DELETE_REQUEST"}
        /\ q.kind \in {"ADD_USER", "REMOVE_USER", "DELETE_REQUEST"} => q.user \in Users
    BY <2>2, Kinds, Zenon
  <2>4. CASE UNCHANGED <<db, replica, tasks, rows, moot>>
    <3>1. db' = db /\ tasks' = tasks /\ messages' = messages
      BY <2>4, Zenon DEF replica
    <3> QED
      BY <1>1, <3>1, WindowIsTrue, Zenon
  <2>5. CASE Grant(q)
    <3>1. \E u \in Users :
            \/ NewRoom(q.room) \/ AddUser(q.room, u) \/ Request(q.room, u) \/ DeleteRequest(q.room, u)
            \/ NewMessage(q.room) \/ DeleteMessage(q.room) \/ RemoveUser(q.room, u) \/ DeleteRoom(q.room)
      <4>1. CASE q.kind = "NEW_CHATROOM"
        BY <1>1, <2>5, <4>1, SMT DEF Grant
      <4>2. CASE q.kind = "ADD_USER"
        BY <2>3, <2>5, <4>2, SMT DEF Grant
      <4>3. CASE q.kind = "REMOVE_USER"
        BY <2>3, <2>5, <4>3, SMT DEF Grant
      <4>4. CASE q.kind = "REQUEST"
        BY <1>1, <2>5, <4>4, SMT DEF Grant
      <4>5. CASE q.kind = "DELETE_REQUEST"
        BY <2>3, <2>5, <4>5, SMT DEF Grant
      <4>6. CASE q.kind = "NEW_MESSAGE"
        BY <1>1, <2>5, <4>6, SMT DEF Grant
      <4>7. CASE q.kind = "DELETE_CHATROOM"
        BY <1>1, <2>5, <4>7, SMT DEF Grant
      <4> QED
        BY <2>3, <4>1, <4>2, <4>3, <4>4, <4>5, <4>6, <4>7, Zenon
    <3> QED
      BY <1>1, <2>3, <3>1, GrantIsTrue, Zenon
  <2> QED
    BY <2>1, <2>4, <2>5
<1>3. CASE OthersAsk
  <2>1. PICK r \in Room, u \in Users :
          \/ NewRoom(r) \/ AddUser(r, u) \/ Request(r, u) \/ DeleteRequest(r, u)
          \/ NewMessage(r) \/ DeleteMessage(r) \/ RemoveUser(r, u) \/ DeleteRoom(r)
    BY <1>1, <1>3, Zenon DEF OthersAsk, Users
  <2> QED
    BY <1>1, <2>1, GrantIsTrue, Zenon
<1> QED
  BY <1>2, <1>3, Zenon DEF Database

\* Every callback, run or skipped by an exception.
LEMMA RunTaskIsTrue == ASSUME LobbyInv, LobbyInv', HistoryInv, RunTask PROVE HistoryInv'
<1> DEFINE c == Head(tasks)
<1>1. /\ tasks # << >> /\ tasks' = Tail(tasks) /\ UNCHANGED <<server, messages, modal, moot>>
      /\ CASE c.kind = "message" -> on_new_message(c.room, c.message) /\ UNCHANGED pending_rooms
           [] c.kind = "added" -> on_user_added(c.room, c.user)
           [] c.kind = "removed" -> on_user_removed(c.room, c.user)
           [] c.kind = "deleted" -> on_message_deleted(c.room)
           [] c.kind = "gone" -> on_room_deleted(c.room)
           [] c.kind \in {"created", "requested", "rejected"} -> on_room_created
  BY Zenon DEF RunTask
<1>2. LobbyTypeOK /\ c \in Task
  <2>1. LobbyTypeOK /\ tasks \in Seq(Task)
    BY Zenon DEF LobbyInv, LobbyTypeOK
  <2> QED
    BY <1>1, <2>1, SMT
<1> HIDE DEF c
<1>3. c.kind \in {"created", "requested", "rejected", "deleted", "gone", "added", "removed", "message"}
  BY <1>2, TaskKinds, Zenon
<1>4. c = Head(tasks) /\ db' = db /\ messages' = messages
  BY <1>1, Zenon DEF c, server
<1>5. view.kind = "chat" => current_room = view.room
  BY <1>2, Shapes
<1>6. view' = Welcome => FreshView'
  <2>1. Welcome.kind # "chat"
    BY SMT DEF Welcome
  <2> QED
    BY <2>1, Zenon DEF FreshView
<1>7. \/ FreshView'
      \/ /\ view' = view
         /\ view.kind = "chat" => ~Redraws(c, view.room) /\ ~Carries(c, view.room)
      \/ /\ view.kind = "chat" /\ c.kind = "message" /\ c.room = view.room
         /\ view' = [view EXCEPT !.shown = Append(@, c.message)]
  <2>1. CASE c.kind = "message"
    <3>1. on_new_message(c.room, c.message)
      BY <1>1, <2>1, SMT
    <3>2. CASE chat_history /\ c.room = current_room
      BY <1>5, <2>1, <3>1, <3>2, Zenon DEF on_new_message, chat_history
    <3>3. CASE ~(chat_history /\ c.room = current_room)
      <4>1. view' = view
        BY <3>1, <3>3, Zenon DEF on_new_message
      <4>2. view.kind = "chat" => ~Carries(c, view.room)
        BY <1>5, <3>3, Zenon DEF chat_history, Carries
      <4>3. \A r : ~Redraws(c, r)
        BY <2>1, SMT DEF Redraws, Parts, Joins, Withdraws
      <4> QED
        BY <4>1, <4>2, <4>3
    <3> QED
      BY <3>2, <3>3
  <2>2. CASE c.kind = "added"
    <3>1. IF c.user = Me THEN show_chat_view(c.room, "added") ELSE UNCHANGED view
      BY <1>1, <2>2, SMT DEF on_user_added
    <3>2. CASE c.user = Me
      BY <1>2, <1>4, <3>1, <3>2, ChatIsFresh, Zenon
    <3>3. CASE c.user # Me
      <4>1. \A r : ~Redraws(c, r) /\ ~Carries(c, r)
        BY <2>2, <3>3, SMT DEF Redraws, Parts, Joins, Withdraws, Carries
      <4> QED
        BY <3>1, <3>3, <4>1
    <3> QED
      BY <3>2, <3>3
  <2>3. CASE c.kind = "removed"
    <3>1. view' = IF c.user = Me /\ c.room = current_room THEN Welcome ELSE view
      BY <1>1, <2>3, SMT DEF on_user_removed
    <3>2. CASE c.user = Me /\ c.room = current_room
      BY <1>6, <3>1, <3>2, Zenon
    <3>3. CASE ~(c.user = Me /\ c.room = current_room)
      <4>1. view.kind = "chat" => ~Redraws(c, view.room) /\ ~Carries(c, view.room)
        BY <1>5, <2>3, <3>3, SMT DEF Redraws, Parts, Joins, Withdraws, Carries
      <4> QED
        BY <3>1, <3>3, <4>1, Zenon
    <3> QED
      BY <3>2, <3>3
  <2>4. CASE c.kind = "deleted"
    <3>1. IF c.room = current_room
          THEN \E by : show_chat_view(c.room, by)
          ELSE UNCHANGED view
      <4>1. on_message_deleted(c.room)
        BY <1>1, <2>4, SMT
      <4> QED
        BY <4>1, Zenon DEF on_message_deleted
    <3>2. CASE c.room = current_room
      BY <1>2, <1>4, <3>1, <3>2, ChatIsFresh, Zenon
    <3>3. CASE c.room # current_room
      <4>1. view.kind = "chat" => ~Redraws(c, view.room) /\ ~Carries(c, view.room)
        BY <1>5, <2>4, <3>3, SMT DEF Redraws, Parts, Joins, Withdraws, Carries
      <4> QED
        BY <3>1, <3>3, <4>1
    <3> QED
      BY <3>2, <3>3
  <2>5. CASE c.kind = "gone"
    <3>1. view' = IF c.room = current_room THEN Welcome ELSE view
      BY <1>1, <2>5, SMT DEF on_room_deleted
    <3>2. CASE c.room = current_room
      BY <1>6, <3>1, <3>2, Zenon
    <3>3. CASE c.room # current_room
      <4>1. view.kind = "chat" => ~Redraws(c, view.room) /\ ~Carries(c, view.room)
        BY <1>5, <2>5, <3>3, SMT DEF Redraws, Parts, Joins, Withdraws, Carries
      <4> QED
        BY <3>1, <3>3, <4>1, Zenon
    <3> QED
      BY <3>2, <3>3
  <2>6. CASE c.kind \in {"created", "requested", "rejected"}
    <3>1. on_room_created
      <4>1. CASE c.kind = "created"
        BY <1>1, <4>1, SMT
      <4>2. CASE c.kind = "requested"
        BY <1>1, <4>2, SMT
      <4>3. CASE c.kind = "rejected"
        BY <1>1, <4>3, SMT
      <4> QED
        BY <2>6, <4>1, <4>2, <4>3, Zenon
    <3>2. view' = view
      BY <3>1, Zenon DEF on_room_created
    <3>3. \A r : ~Redraws(c, r) /\ ~Carries(c, r)
      BY <2>6, SMT DEF Redraws, Parts, Joins, Withdraws, Carries
    <3> QED
      BY <3>2, <3>3
  <2> QED
    BY <1>3, <2>1, <2>2, <2>3, <2>4, <2>5, <2>6, Zenon
<1> QED
  BY <1>1, <1>2, <1>4, <1>7, RunIsTrue, Zenon

LEMMA NoChatIsFresh ==
  ASSUME NEW r, NEW by, view' = Welcome \/ show_private_room_view(r, by)
  PROVE  FreshView'
<1>1. view'.kind # "chat"
  <2>1. CASE view' = Welcome
    BY <2>1, SMT DEF Welcome
  <2>2. CASE show_private_room_view(r, by)
    <3>1. CASE r \in DOMAIN rooms
      BY <2>2, <3>1, SMT DEF show_private_room_view
    <3>2. CASE r \notin DOMAIN rooms
      <4>1. view' = [kind |-> "blank", room |-> r]
        BY <2>2, <3>2, Zenon DEF show_private_room_view, Blank
      <4> QED
        BY <4>1, SMT
    <3> QED
      BY <3>1, <3>2
  <2> QED
    BY <2>1, <2>2
<1> QED
  BY <1>1, Zenon DEF FreshView

\* Whatever the user does, in the window or in a dialog.
LEMMA UserIsTold ==
  ASSUME LobbyInv, LobbyInv', HistoryInv, NEW r, NEW u,
         \/ _click(r) \/ _toast_click(r) \/ Expire(r) \/ send_message \/ do_create
         \/ request_join_from_view \/ RequestSent \/ leave_room \/ confirm_leave \/ Cancel
         \/ open_coordinator_panel \/ delete_room_action
         \/ _add(u) \/ accept_action(u) \/ reject_action(u) \/ kick_action(u)
  PROVE  HistoryInv'
<1>1. LobbyTypeOK
  BY DEF LobbyInv
<1>2. /\ db' = db /\ tasks' = tasks /\ messages' = messages
      /\ \/ view' = view \/ view' = Welcome
         \/ \E x, by : show_chat_view(x, by) \/ show_private_room_view(x, by)
  <2>1. CASE _click(r)
    BY <2>1, Zenon DEF _click, server
  <2>2. CASE _toast_click(r) \/ Expire(r)
    BY <2>2, Zenon DEF _toast_click, Expire, server, replica
  <2>3. CASE send_message \/ do_create \/ request_join_from_view
    BY <2>3, Zenon DEF send_message, do_create, request_join_from_view, replica, window
  <2>4. CASE RequestSent \/ leave_room \/ Cancel \/ open_coordinator_panel
    BY <2>4, Zenon DEF RequestSent, leave_room, Cancel, open_coordinator_panel, server, replica
  <2>5. CASE confirm_leave \/ delete_room_action \/ _add(u)
    BY <2>5, Zenon DEF confirm_leave, delete_room_action, _add
  <2>6. CASE accept_action(u) \/ reject_action(u) \/ kick_action(u)
    <3>1. PICK q, room : Edit(q, room)
      BY <2>6, Zenon DEF accept_action, reject_action, kick_action
    <3> QED
      BY <3>1, Zenon DEF Edit
  <2> QED
    BY <2>1, <2>2, <2>3, <2>4, <2>5, <2>6
<1>3. view' = view \/ FreshView'
  BY <1>1, <1>2, ChatIsFresh, NoChatIsFresh, Zenon
<1> QED
  BY <1>2, <1>3, WindowIsTrue, Zenon

LEMMA HistoryStarts == LobbyInit => HistoryInv
<1> SUFFICES ASSUME LobbyInit PROVE HistoryInv
  OBVIOUS
<1>1. tasks = << >> /\ view = Welcome
  BY Zenon DEF LobbyInit
<1>2. DOMAIN tasks = {} /\ view.kind # "chat"
  BY <1>1, SMT DEF Welcome
<1> QED
  BY <1>2, Zenon DEF HistoryInv, MessagesAreThere, HistoryComesTrue

LEMMA HistoryGoesOn == LobbyInv /\ LobbyInv' /\ HistoryInv /\ [LobbyNext]_lobbyVars => HistoryInv'
<1> SUFFICES ASSUME LobbyInv, LobbyInv', HistoryInv, [LobbyNext]_lobbyVars PROVE HistoryInv'
  OBVIOUS
<1>1. CASE Database
  BY <1>1, DatabaseIsTrue, Zenon
<1>2. CASE RunTask
  BY <1>2, RunTaskIsTrue, Zenon
<1>3. ASSUME NEW r \in Room, _click(r) \/ _toast_click(r) \/ Expire(r) PROVE HistoryInv'
  BY <1>3, UserIsTold, Zenon
<1>4. CASE \/ send_message \/ do_create \/ request_join_from_view \/ RequestSent
           \/ leave_room \/ confirm_leave \/ Cancel \/ open_coordinator_panel \/ delete_room_action
  BY <1>4, UserIsTold, Zenon
<1>5. ASSUME NEW u \in {Me, Other}, _add(u) \/ accept_action(u) \/ reject_action(u) \/ kick_action(u)
      PROVE  HistoryInv'
  BY <1>5, UserIsTold, Zenon
<1>6. CASE UNCHANGED lobbyVars
  <2>1. db' = db /\ tasks' = tasks /\ messages' = messages /\ view' = view
    BY <1>6, Zenon DEF lobbyVars, server, replica, window
  <2> QED
    BY <2>1, WindowIsTrue, Zenon
<1> QED
  BY <1>1, <1>2, <1>3, <1>4, <1>5, <1>6, Zenon DEF LobbyNext

\* show_chat_view draws all messages of the room, also those whose callbacks on_new_message has yet
\* to run: as soon as the callbacks have run, a member sees exactly the messages of the
\* room, and no more of them twice than callbacks were put off when the chat was drawn.
THEOREM HistoryStaysWhole == LobbySpec => []HistoryIsShown
<1>1. LobbyInv /\ HistoryInv => HistoryIsShown
  <2> SUFFICES ASSUME LobbyInv, HistoryInv, tasks = << >>, view.kind = "chat", Member(rooms, view.room)
               PROVE  /\ ToSet(view.shown) = ToSet(messages[view.room])
                      /\ Len(view.shown) <= Len(messages[view.room]) + view.overtaken
    BY Zenon DEF HistoryIsShown
  <2>1. DOMAIN tasks = {}
    BY SMT
  <2>2. ~WillRedraw(view.room) /\ Carrying(view.room) = {}
    BY <2>1, Zenon DEF WillRedraw, Carrying
  <2>3. Carried(view.room) = {} /\ Cardinality(Carrying(view.room)) = 0
    BY <2>2, FS_EmptySet DEF Carried
  <2>4. WholeHistory(view.room)
    BY <2>2, Zenon DEF HistoryInv, HistoryComesTrue
  <2>5. view.shown \in Seq(Nat)
    <3>1. view \in View
      BY Zenon DEF LobbyInv, LobbyTypeOK
    <3> QED
      BY <3>1, SMT DEF View, Welcome
  <2>6. Len(view.shown) + 0 = Len(view.shown)
    BY <2>5, SMT
  <2> QED
    BY <2>3, <2>4, <2>6, Zenon DEF WholeHistory
<1> QED
  BY <1>1, LobbyHolds, HistoryStarts, HistoryGoesOn, PTL DEF LobbySpec

-----------------------------------------------------------------------------
(***************************************************************************)
(* The session                                                             *)
(***************************************************************************)
Line == {"rejected", "accepted", "end", "refused", "registered", "online", Rest}
Connection ==
  [phase : {"auth", "registering", "session"}, requests : Seq({"AUTH", "CREATE_ACCOUNT"}),
   lines : Seq(Line), open : BOOLEAN]
Thread ==
  [at : {"check", "look", "recv", "add", "split", "dispatch", "done"}, on : Nat, held : Seq(Line),
   got : Seq(Line)]

SessionTypeOK ==
  /\ connected \in BOOLEAN /\ socket \in Nat /\ buf \in Seq(Line)
  /\ boxes \in Nat /\ lobby \in BOOLEAN
  /\ threads \in Seq(Thread)
  /\ callbacks \in Seq(Callback)
  /\ connections \in Seq(Connection)
  /\ hurried \in BOOLEAN /\ races \in BOOLEAN /\ lost \in BOOLEAN

\* Thread n was started for connection n, and reads it for as long as the client is connected.
ListenerIsThere ==
  /\ Len(threads) = Len(connections)
  /\ socket <= Len(connections)
  /\ \A t \in DOMAIN threads :
       /\ threads[t].at \in {"recv", "add"} => threads[t].on = 0 \/ threads[t].on \in DOMAIN connections
       /\ threads[t].at = "dispatch" => threads[t].held # << >>
       /\ threads[t].at = "add" => threads[t].got # << >>
  /\ connected =>
       /\ socket = Len(connections) /\ socket # 0
       /\ threads[socket].at # "done"
       /\ threads[socket].at = "recv" => threads[socket].on = socket
  /\ ~lost /\ buf # << >> => \E t \in DOMAIN threads : threads[t].at \in {"split", "dispatch"}

\* A sequence of lines without an outcome, and one with no other outcome than x.
Quiet(s) == \A i \in DOMAIN s : s[i] \notin Callback
Tells(s, x) == \E i \in DOMAIN s : s[i] = x /\ \A j \in DOMAIN s : s[j] \in Callback => j = i

NoRequest(C) == \A c \in DOMAIN connections \ C : connections[c].requests = << >>
NoLine(C) == \A c \in DOMAIN connections \ C : Quiet(connections[c].lines)
NoBytes(T) == \A t \in DOMAIN threads \ T : threads[t].at = "add" => Quiet(threads[t].got)

Idle ==
  /\ ~connected /\ ~lobby /\ waiting = 0
  /\ NoRequest({}) /\ NoLine({}) /\ NoBytes({}) /\ Quiet(buf) /\ callbacks = << >> /\ boxes = 0

InSession == connections[socket].phase \in {"registering", "session"}
Inside ==
  /\ connected /\ lobby /\ waiting = 0
  /\ InSession
  /\ NoRequest({}) /\ NoLine({}) /\ NoBytes({}) /\ Quiet(buf) /\ callbacks = << >> /\ boxes = 0

\* The six places of the outcome x: one after the other.
InRequest ==
  /\ connections[socket].phase = "auth" /\ Len(connections[socket].requests) = 1
  /\ NoRequest({socket}) /\ NoLine({}) /\ NoBytes({}) /\ Quiet(buf) /\ callbacks = << >> /\ boxes = 0
InLines(x) ==
  /\ Tells(connections[socket].lines, x)
  /\ NoRequest({}) /\ NoLine({socket}) /\ NoBytes({}) /\ Quiet(buf) /\ callbacks = << >> /\ boxes = 0
InBytes(x) ==
  /\ NoRequest({}) /\ NoLine({}) /\ Quiet(buf) /\ callbacks = << >> /\ boxes = 0
  /\ \E t \in DOMAIN threads : threads[t].at = "add" /\ Tells(threads[t].got, x) /\ NoBytes({t})
InBuffer(x) ==
  /\ Tells(buf, x)
  /\ NoRequest({}) /\ NoLine({}) /\ NoBytes({}) /\ callbacks = << >> /\ boxes = 0
InCallback(x) ==
  /\ callbacks = <<x>>
  /\ NoRequest({}) /\ NoLine({}) /\ NoBytes({}) /\ Quiet(buf) /\ boxes = 0
InBox ==
  /\ boxes = 1
  /\ NoRequest({}) /\ NoLine({}) /\ NoBytes({}) /\ Quiet(buf) /\ callbacks = << >>

Awaiting ==
  /\ connected /\ ~lobby /\ waiting = 1
  /\ \/ InRequest \/ InBox
     \/ \E x \in Callback :
          /\ x = "end" => InSession
          /\ InLines(x) \/ InBytes(x) \/ InBuffer(x) \/ InCallback(x)

OneOutcome == ~hurried /\ ~races /\ ~lost => Idle \/ Inside \/ Awaiting

SessionInv == SessionTypeOK /\ ListenerIsThere /\ OneOutcome

-----------------------------------------------------------------------------
(***************************************************************************)
(* Connections and threads                                                 *)
(***************************************************************************)

LEMMA OneChanges ==
  ASSUME NEW S, NEW s \in Seq(S), NEW n \in DOMAIN s, NEW e \in S, NEW t, t = [s EXCEPT ![n] = e]
  PROVE  /\ t \in Seq(S) /\ Len(t) = Len(s) /\ DOMAIN t = DOMAIN s
         /\ t[n] = e /\ \A m \in DOMAIN s : m # n => t[m] = s[m]
  BY SMT

LEMMA LinesOf ==
  ASSUME NEW P, NEW R, NEW L, NEW k \in [phase : P, requests : R, lines : L, open : BOOLEAN],
         NEW p \in P, NEW r \in R, NEW l \in L
  PROVE  /\ [k EXCEPT !.lines = l] \in [phase : P, requests : R, lines : L, open : BOOLEAN]
         /\ [k EXCEPT !.lines = l].phase = k.phase /\ [k EXCEPT !.lines = l].requests = k.requests
         /\ [k EXCEPT !.lines = l].lines = l /\ [k EXCEPT !.lines = l].open = k.open
         /\ [k EXCEPT !.requests = r] \in [phase : P, requests : R, lines : L, open : BOOLEAN]
         /\ [k EXCEPT !.requests = r].phase = k.phase /\ [k EXCEPT !.requests = r].requests = r
         /\ [k EXCEPT !.requests = r].lines = k.lines /\ [k EXCEPT !.requests = r].open = k.open
         /\ [k EXCEPT !.phase = p] \in [phase : P, requests : R, lines : L, open : BOOLEAN]
         /\ [k EXCEPT !.phase = p].phase = p /\ [k EXCEPT !.phase = p].requests = k.requests
         /\ [k EXCEPT !.phase = p].lines = k.lines /\ [k EXCEPT !.phase = p].open = k.open
  OBVIOUS

LEMMA ConnectionIs ==
  ASSUME NEW c \in Connection
  PROVE  /\ c.phase \in {"auth", "registering", "session"} /\ c.requests \in Seq({"AUTH", "CREATE_ACCOUNT"})
         /\ c.lines \in Seq(Line) /\ c.open \in BOOLEAN
  BY DEF Connection

LEMMA Joined ==
  ASSUME NEW s \in Seq(Line), NEW q \in Seq(Line), NEW x \in Callback
  PROVE  /\ Quiet(s) /\ Quiet(q) => Quiet(s \o q)
         /\ Tells(s, x) /\ Quiet(q) => Tells(s \o q, x)
         /\ Quiet(s) /\ Tells(q, x) => Tells(s \o q, x)
<1> DEFINE t == s \o q
<1>1. /\ \A i \in DOMAIN s : i \in DOMAIN t /\ t[i] = s[i] /\ i \in Nat /\ i <= Len(s)
      /\ \A i \in DOMAIN q : Len(s) + i \in DOMAIN t /\ t[Len(s) + i] = q[i] /\ i \in Nat /\ i >= 1
      /\ \A i \in DOMAIN t : i \in DOMAIN s \/ \E j \in DOMAIN q : i = Len(s) + j
      /\ Len(s) \in Nat
  <2>1. \A i \in DOMAIN t : i \in DOMAIN s \/ \E j \in DOMAIN q : i = Len(s) + j
    <3> SUFFICES ASSUME NEW i \in DOMAIN t, i \notin DOMAIN s PROVE i - Len(s) \in DOMAIN q /\ i = Len(s) + (i - Len(s))
      OBVIOUS
    <3> QED
      BY SMT
  <2> QED
    BY <2>1, SMT
<1> HIDE DEF t
<1>2. Quiet(s) /\ Quiet(q) => Quiet(t)
  BY <1>1, Zenon DEF Quiet
<1>3. ASSUME Tells(s, x), Quiet(q) PROVE Tells(t, x)
  <2>1. PICK i \in DOMAIN s : s[i] = x /\ \A j \in DOMAIN s : s[j] \in Callback => j = i
    BY <1>3, Zenon DEF Tells
  <2>2. \A j \in DOMAIN t : t[j] \in Callback => j = i
    BY <1>1, <1>3, <2>1, Zenon DEF Quiet
  <2> QED
    BY <1>1, <2>1, <2>2, Zenon DEF Tells
<1>4. ASSUME Quiet(s), Tells(q, x) PROVE Tells(t, x)
  <2>1. PICK i \in DOMAIN q : q[i] = x /\ \A j \in DOMAIN q : q[j] \in Callback => j = i
    BY <1>4, Zenon DEF Tells
  <2>2. \A j \in DOMAIN t : t[j] \in Callback => j = Len(s) + i
    BY <1>1, <1>4, <2>1, Zenon DEF Quiet
  <2> QED
    BY <1>1, <2>1, <2>2, Zenon DEF Tells
<1> QED
  BY <1>2, <1>3, <1>4 DEF t

\* An outcome that is cut off stays in one of the two parts.
Cut(s, a, b) ==
  /\ a \in Seq(Line) /\ b \in Seq(Line)
  /\ Quiet(s) => Quiet(a) /\ Quiet(b)
  /\ \A x \in Callback : Tells(s, x) => (Tells(a, x) /\ Quiet(b)) \/ (Quiet(a) /\ Tells(b, x))

LEMMA CutInTwo ==
  ASSUME NEW s \in Seq(Line), NEW n \in 1 .. Len(s)
  PROVE  Cut(s, SubSeq(s, 1, n), SubSeq(s, n + 1, Len(s)))
<1> DEFINE a == SubSeq(s, 1, n)
           b == SubSeq(s, n + 1, Len(s))
<1>1. /\ n \in Nat /\ Len(s) \in Nat
      /\ a \in Seq(Line) /\ b \in Seq(Line)
      /\ \A i \in DOMAIN a : i \in DOMAIN s /\ a[i] = s[i] /\ i <= n
      /\ \A i \in DOMAIN b : i \in Nat /\ n + i \in DOMAIN s /\ b[i] = s[n + i] /\ n + i > n
      /\ \A i \in DOMAIN s : i \in Nat /\ (i <= n => i \in DOMAIN a) /\ (i > n => i - n \in DOMAIN b /\ n + (i - n) = i)
  BY SMT
<1> HIDE DEF a, b
<1>2. Quiet(s) => Quiet(a) /\ Quiet(b)
  BY <1>1, Zenon DEF Quiet
<1>3. ASSUME NEW x \in Callback, Tells(s, x)
      PROVE  (Tells(a, x) /\ Quiet(b)) \/ (Quiet(a) /\ Tells(b, x))
  <2>1. PICK i \in DOMAIN s : s[i] = x /\ \A j \in DOMAIN s : s[j] \in Callback => j = i
    BY <1>3, Zenon DEF Tells
  <2>2. CASE i <= n
    <3>1. Tells(a, x)
      <4>1. i \in DOMAIN a /\ a[i] = x
        BY <1>1, <2>1, <2>2, Zenon
      <4>2. \A j \in DOMAIN a : a[j] \in Callback => j = i
        BY <1>1, <2>1, Zenon
      <4> QED
        BY <4>1, <4>2, Zenon DEF Tells
    <3>2. Quiet(b)
      <4> SUFFICES ASSUME NEW j \in DOMAIN b, b[j] \in Callback PROVE FALSE
        BY DEF Quiet
      <4>1. n + j = i /\ n + j > n
        BY <1>1, <2>1, Zenon
      <4> QED
        BY <1>1, <2>2, <4>1, SMT
    <3> QED
      BY <3>1, <3>2
  <2>3. CASE i > n
    <3>1. Quiet(a)
      <4> SUFFICES ASSUME NEW j \in DOMAIN a, a[j] \in Callback PROVE FALSE
        BY DEF Quiet
      <4>1. j = i /\ j <= n
        BY <1>1, <2>1, Zenon
      <4> QED
        BY <1>1, <2>3, <4>1, SMT
    <3>2. Tells(b, x)
      <4>1. i - n \in DOMAIN b /\ b[i - n] = x
        BY <1>1, <2>1, <2>3, Zenon
      <4>2. \A j \in DOMAIN b : b[j] \in Callback => j = i - n
        <5> SUFFICES ASSUME NEW j \in DOMAIN b, b[j] \in Callback PROVE j = i - n
          OBVIOUS
        <5>1. n + j = i /\ j \in Nat
          BY <1>1, <2>1, Zenon
        <5> QED
          BY <1>1, <5>1, SMT
      <4> QED
        BY <4>1, <4>2, Zenon DEF Tells
    <3> QED
      BY <3>1, <3>2
  <2> QED
    BY <1>1, <2>1, <2>2, <2>3, SMT
<1>4. Cut(s, a, b)
  BY <1>1, <1>2, <1>3, Zenon DEF Cut
<1> QED
  BY <1>4 DEF a, b

LEMMA FirstLine ==
  ASSUME NEW s \in Seq(Line), s # << >>
  PROVE  /\ Tail(s) \in Seq(Line) /\ Head(s) \in Line
         /\ Quiet(s) => Head(s) \notin Callback /\ Quiet(Tail(s))
         /\ \A x \in Callback : Tells(s, x) =>
              \/ Head(s) = x /\ Quiet(Tail(s))
              \/ Head(s) \notin Callback /\ Tells(Tail(s), x)
<1>1. /\ Tail(s) \in Seq(Line) /\ Head(s) = s[1] /\ 1 \in DOMAIN s /\ s[1] \in Line
      /\ \A i \in DOMAIN s : i \in Nat /\ (i # 1 => i - 1 \in DOMAIN Tail(s) /\ Tail(s)[i - 1] = s[i])
      /\ \A i \in DOMAIN Tail(s) : i \in Nat /\ i + 1 \in DOMAIN s /\ i + 1 # 1 /\ Tail(s)[i] = s[i + 1]
  BY OneLess, Zenon
<1>2. Quiet(s) => Head(s) \notin Callback /\ Quiet(Tail(s))
  BY <1>1, Zenon DEF Quiet
<1>3. ASSUME NEW x \in Callback, Tells(s, x)
      PROVE  \/ Head(s) = x /\ Quiet(Tail(s))
             \/ Head(s) \notin Callback /\ Tells(Tail(s), x)
  <2>1. PICK i \in DOMAIN s : s[i] = x /\ \A j \in DOMAIN s : s[j] \in Callback => j = i
    BY <1>3, Zenon DEF Tells
  <2>2. CASE i = 1
    BY <1>1, <2>1, <2>2, Zenon DEF Quiet
  <2>3. CASE i # 1
    <3>1. Head(s) \notin Callback
      BY <1>1, <2>1, <2>3, Zenon
    <3>2. i - 1 \in DOMAIN Tail(s) /\ Tail(s)[i - 1] = x
      BY <1>1, <2>1, <2>3, Zenon
    <3>3. \A j \in DOMAIN Tail(s) : Tail(s)[j] \in Callback => j = i - 1
      <4> SUFFICES ASSUME NEW j \in DOMAIN Tail(s), Tail(s)[j] \in Callback PROVE j = i - 1
        OBVIOUS
      <4>1. j + 1 = i /\ j \in Nat
        BY <1>1, <2>1, Zenon
      <4> QED
        BY <4>1, SMT
    <3> QED
      BY <3>1, <3>2, <3>3, Zenon DEF Tells
  <2> QED
    BY <2>2, <2>3
<1> QED
  BY <1>1, <1>2, <1>3

LEMMA AnswersTell ==
  /\ Quiet(<< >>) /\ Quiet(<<"online">>) /\ << >> \in Seq(Line) /\ <<"online">> \in Seq(Line)
  /\ \A x \in Callback : <<x>> \in Seq(Line) /\ Tells(<<x>>, x)
  /\ <<"accepted", "end">> \in Seq(Line) /\ Tells(<<"accepted", "end">>, "end")
  /\ Callback \subseteq Line
<1>1. Quiet(<< >>) /\ Quiet(<<"online">>) /\ << >> \in Seq(Line) /\ <<"online">> \in Seq(Line)
  BY SMT DEF Quiet, Callback, Line
<1>2. Callback \subseteq Line
  BY SMT DEF Callback, Line
<1>3. \A x \in Callback : <<x>> \in Seq(Line) /\ Tells(<<x>>, x)
  BY <1>2, SMT DEF Tells
<1>4. <<"accepted", "end">> \in Seq(Line) /\ Tells(<<"accepted", "end">>, "end")
  <2> DEFINE s == <<"accepted", "end">>
  <2>1. s \in Seq(Line) /\ DOMAIN s = {1, 2} /\ s[1] = "accepted" /\ s[2] = "end"
    BY SMT DEF Line
  <2>2. "accepted" \notin Callback
    BY SMT DEF Callback
  <2> HIDE DEF s
  <2> SUFFICES s \in Seq(Line) /\ Tells(s, "end")
    BY DEF s
  <2>3. \A j \in DOMAIN s : j = 1 \/ j = 2
    BY <2>1, SMT
  <2>4. 2 \in DOMAIN s
    BY <2>1, SMT
  <2> QED
    BY <2>1, <2>2, <2>3, <2>4, Zenon DEF Tells
<1> QED
  BY <1>1, <1>2, <1>3, <1>4

-----------------------------------------------------------------------------
(***************************************************************************)
(* The steps of the threads                                                *)
(***************************************************************************)
Outcomes == Idle \/ Inside \/ Awaiting

LEMMA ThreadMoves ==
  ASSUME SessionTypeOK, NEW t \in DOMAIN threads, NEW k \in Thread, Continues(t, k)
  PROVE  /\ threads' \in Seq(Thread) /\ Len(threads') = Len(threads) /\ DOMAIN threads' = DOMAIN threads
         /\ threads'[t] = k /\ \A m \in DOMAIN threads : m # t => threads'[m] = threads[m]
<1>1. threads \in Seq(Thread) /\ threads' = [threads EXCEPT ![t] = k]
  BY Zenon DEF SessionTypeOK, Continues
<1> QED
  BY <1>1, SMT

LEMMA ListenerStays ==
  ASSUME SessionTypeOK, ListenerIsThere, NEW t \in DOMAIN threads, NEW k \in Thread, Continues(t, k),
         Len(connections') = Len(connections), DOMAIN connections' = DOMAIN connections,
         socket' = socket, lost => lost', connected' => connected,
         k.at \in {"recv", "add"} => k.on = 0 \/ k.on \in DOMAIN connections,
         k.at = "recv" => k.on = socket, k.at = "dispatch" => k.held # << >>,
         k.at = "add" => k.got # << >>, k.at = "done" => ~connected',
         ~lost' /\ buf' # << >> =>
           \/ k.at \in {"split", "dispatch"}
           \/ buf # << >> /\ threads[t].at \notin {"split", "dispatch"}
  PROVE  ListenerIsThere'
<1>1. /\ threads' \in Seq(Thread) /\ Len(threads') = Len(threads) /\ DOMAIN threads' = DOMAIN threads
      /\ threads'[t] = k /\ \A m \in DOMAIN threads : m # t => threads'[m] = threads[m]
  BY ThreadMoves, Zenon
<1>2. /\ Len(threads) = Len(connections) /\ socket <= Len(connections)
      /\ \A m \in DOMAIN threads :
           /\ threads[m].at \in {"recv", "add"} => threads[m].on = 0 \/ threads[m].on \in DOMAIN connections
           /\ threads[m].at = "dispatch" => threads[m].held # << >>
           /\ threads[m].at = "add" => threads[m].got # << >>
      /\ connected =>
           /\ socket = Len(connections) /\ socket # 0
           /\ threads[socket].at # "done"
           /\ threads[socket].at = "recv" => threads[socket].on = socket
      /\ ~lost /\ buf # << >> => \E m \in DOMAIN threads : threads[m].at \in {"split", "dispatch"}
  BY Zenon DEF ListenerIsThere
<1>3. Len(threads') = Len(connections') /\ socket' <= Len(connections')
  BY <1>1, <1>2, Zenon
<1>4. \A m \in DOMAIN threads' :
        /\ threads'[m].at \in {"recv", "add"} => threads'[m].on = 0 \/ threads'[m].on \in DOMAIN connections'
        /\ threads'[m].at = "dispatch" => threads'[m].held # << >>
        /\ threads'[m].at = "add" => threads'[m].got # << >>
  BY <1>1, <1>2, Zenon
<1>5. connected' =>
        /\ socket' = Len(connections') /\ socket' # 0
        /\ threads'[socket'].at # "done"
        /\ threads'[socket'].at = "recv" => threads'[socket'].on = socket'
  <2> SUFFICES ASSUME connected'
               PROVE  /\ socket = Len(connections) /\ socket # 0
                      /\ threads'[socket].at # "done"
                      /\ threads'[socket].at = "recv" => threads'[socket].on = socket
    BY Zenon
  <2>1. socket \in DOMAIN threads
    <3>1. socket = Len(threads) /\ socket # 0 /\ threads \in Seq(Thread)
      BY <1>2, Zenon DEF SessionTypeOK
    <3> QED
      BY <3>1, SMT
  <2> QED
    BY <1>1, <1>2, <2>1, Zenon
<1>6. ~lost' /\ buf' # << >> => \E m \in DOMAIN threads' : threads'[m].at \in {"split", "dispatch"}
  BY <1>1, <1>2, Zenon
<1> QED
  BY <1>3, <1>4, <1>5, <1>6, Zenon DEF ListenerIsThere

\* A step that takes no outcome further.
LEMMA OutcomesStay ==
  ASSUME Outcomes, socket' = socket, connected' = connected, lobby' = lobby, waiting' = waiting,
         callbacks' = callbacks, boxes' = boxes,
         DOMAIN connections' = DOMAIN connections, DOMAIN threads' = DOMAIN threads,
         connected => socket \in DOMAIN connections,
         \A c \in DOMAIN connections :
           /\ connections'[c].requests = connections[c].requests
           /\ Quiet(connections[c].lines) => Quiet(connections'[c].lines)
           /\ \A x \in Callback : Tells(connections[c].lines, x) => Tells(connections'[c].lines, x)
           /\ connections[c].phase \in {"registering", "session"} => connections'[c].phase \in {"registering", "session"}
           /\ connections[c].phase = "auth" => connections'[c].phase = "auth",
         Quiet(buf) => Quiet(buf'), \A x \in Callback : Tells(buf, x) => Tells(buf', x),
         \A t \in DOMAIN threads :
           /\ threads'[t].at = "add" /\ (threads[t].at = "add" => Quiet(threads[t].got)) => Quiet(threads'[t].got)
           /\ \A x \in Callback : threads[t].at = "add" /\ Tells(threads[t].got, x) =>
                threads'[t].at = "add" /\ Tells(threads'[t].got, x)
  PROVE  Outcomes'
<1>1. \A C : NoRequest(C) => NoRequest(C)'
  BY Zenon DEF NoRequest
<1>2. \A C : NoLine(C) => NoLine(C)'
  BY Zenon DEF NoLine
<1>3. \A T : NoBytes(T) => NoBytes(T)'
  BY Zenon DEF NoBytes
<1>4. connected /\ InSession => InSession'
  BY Zenon DEF InSession
<1>5. CASE Idle
  BY <1>1, <1>2, <1>3, <1>5 DEF Idle, Outcomes
<1>6. CASE Inside
  BY <1>1, <1>2, <1>3, <1>4, <1>6 DEF Inside, Outcomes
<1>7. CASE Awaiting
  <2>1. connected /\ ~lobby /\ waiting = 1 /\ socket \in DOMAIN connections
    BY <1>7, Zenon DEF Awaiting
  <2>2. InRequest => InRequest'
    BY <1>1, <1>2, <1>3, <2>1 DEF InRequest
  <2>3. InBox => InBox'
    BY <1>1, <1>2, <1>3 DEF InBox
  <2>4. \A x \in Callback : InLines(x) => InLines(x)'
    BY <1>1, <1>2, <1>3, <2>1, Zenon DEF InLines
  <2>5. \A x \in Callback : InBytes(x) => InBytes(x)'
    BY <1>1, <1>2, <1>3, Zenon DEF InBytes
  <2>6. \A x \in Callback : InBuffer(x) => InBuffer(x)'
    BY <1>1, <1>2, <1>3, Zenon DEF InBuffer
  <2>7. \A x \in Callback : InCallback(x) => InCallback(x)'
    BY <1>1, <1>2, <1>3, Zenon DEF InCallback
  <2>8. Awaiting'
    BY <1>4, <1>7, <2>1, <2>2, <2>3, <2>4, <2>5, <2>6, <2>7, Zenon DEF Awaiting
  <2> QED
    BY <2>8 DEF Outcomes
<1> QED
  BY <1>5, <1>6, <1>7 DEF Outcomes

LEMMA ThreadIs ==
  ASSUME NEW k \in Thread
  PROVE  /\ k.at \in {"check", "look", "recv", "add", "split", "dispatch", "done"} /\ k.on \in Nat
         /\ k.held \in Seq(Line) /\ k.got \in Seq(Line)
  BY DEF Thread

LEMMA ThreadsAre ==
  /\ Listening \in Thread /\ Listening.at = "check"
  /\ \A a \in {"done", "split", "look"} :
       [Listening EXCEPT !.at = a] \in Thread /\ [Listening EXCEPT !.at = a].at = a
  /\ \A c \in Nat :
       /\ [Listening EXCEPT !.at = "recv", !.on = c] \in Thread
       /\ [Listening EXCEPT !.at = "recv", !.on = c].at = "recv"
       /\ [Listening EXCEPT !.at = "recv", !.on = c].on = c
  /\ \A h \in Seq(Line) :
       /\ [Listening EXCEPT !.at = "dispatch", !.held = h] \in Thread
       /\ [Listening EXCEPT !.at = "dispatch", !.held = h].at = "dispatch"
       /\ [Listening EXCEPT !.at = "dispatch", !.held = h].held = h
  /\ \A c \in Nat, h \in Seq(Line), g \in Seq(Line) :
       [at |-> "add", on |-> c, held |-> h, got |-> g] \in Thread
<1>1. << >> \in Seq(Line) /\ 0 \in Nat
  OBVIOUS
<1> HIDE DEF Line
<1>2. Listening \in Thread /\ Listening.at = "check"
  BY <1>1 DEF Thread, Listening
<1>3. \A a \in {"done", "split", "look"} :
        [Listening EXCEPT !.at = a] \in Thread /\ [Listening EXCEPT !.at = a].at = a
  BY <1>1 DEF Thread, Listening
<1>4. \A c \in Nat :
        /\ [Listening EXCEPT !.at = "recv", !.on = c] \in Thread
        /\ [Listening EXCEPT !.at = "recv", !.on = c].at = "recv"
        /\ [Listening EXCEPT !.at = "recv", !.on = c].on = c
  BY <1>1 DEF Thread, Listening
<1>5. \A h \in Seq(Line) :
        /\ [Listening EXCEPT !.at = "dispatch", !.held = h] \in Thread
        /\ [Listening EXCEPT !.at = "dispatch", !.held = h].at = "dispatch"
        /\ [Listening EXCEPT !.at = "dispatch", !.held = h].held = h
  BY <1>1 DEF Thread, Listening
<1>6. \A c \in Nat, h \in Seq(Line), g \in Seq(Line) :
        [at |-> "add", on |-> c, held |-> h, got |-> g] \in Thread
  BY DEF Thread
<1> QED
  BY <1>2, <1>3, <1>4, <1>5, <1>6, Zenon

LEMMA CheckKeeps == ASSUME SessionInv, NEW t \in DOMAIN threads, Check(t) PROVE SessionInv'
<1> DEFINE k == IF connected THEN [Listening EXCEPT !.at = "look"]
                ELSE [Listening EXCEPT !.at = "done"]
<1>1. SessionTypeOK /\ ListenerIsThere /\ OneOutcome
  BY DEF SessionInv
<1>2. /\ threads[t].at = "check" /\ Continues(t, k)
      /\ connected' = connected /\ socket' = socket /\ buf' = buf /\ boxes' = boxes /\ lobby' = lobby
      /\ callbacks' = callbacks /\ connections' = connections /\ waiting' = waiting
      /\ hurried' = hurried /\ races' = races /\ lost' = lost
  BY Zenon DEF Check, Ends, network, controller, history
<1>3. k \in Thread /\ k.at \in {"look", "done"} /\ k.at \notin {"recv", "add", "dispatch"}
        /\ (k.at = "done" => ~connected)
  <2>1. CASE connected
    <3>1. k = [Listening EXCEPT !.at = "look"]
      BY <2>1, Zenon
    <3> HIDE DEF k
    <3>2. k \in Thread /\ k.at = "look"
      BY <3>1, ThreadsAre, Zenon
    <3> QED
      BY <2>1, <3>2, SMT
  <2>2. CASE ~connected
    <3>1. k = [Listening EXCEPT !.at = "done"]
      BY <2>2, Zenon
    <3> HIDE DEF k
    <3>2. k \in Thread /\ k.at = "done"
      BY <3>1, ThreadsAre, Zenon
    <3> QED
      BY <2>2, <3>2, SMT
  <2> QED
    BY <2>1, <2>2, Zenon
<1> HIDE DEF k
<1>4. /\ threads' \in Seq(Thread) /\ Len(threads') = Len(threads) /\ DOMAIN threads' = DOMAIN threads
      /\ threads'[t] = k /\ \A m \in DOMAIN threads : m # t => threads'[m] = threads[m]
  BY <1>1, <1>2, <1>3, ThreadMoves, Zenon
<1>5. SessionTypeOK'
  BY <1>1, <1>2, <1>4, Zenon DEF SessionTypeOK
<1>6. connected => socket \in DOMAIN connections
  BY <1>1, SMT DEF SessionTypeOK, ListenerIsThere
<1>7. ListenerIsThere'
  BY <1>1, <1>2, <1>3, <1>6, ListenerStays, Zenon
<1>8. OneOutcome'
  BY <1>1, <1>2, <1>3, <1>4, <1>6, OutcomesStay, Zenon DEF OneOutcome, Outcomes
<1> QED
  BY <1>5, <1>7, <1>8 DEF SessionInv

LEMMA LookKeeps == ASSUME SessionInv, NEW t \in DOMAIN threads, Look(t) PROVE SessionInv'
<1> DEFINE k == [Listening EXCEPT !.at = "recv", !.on = socket]
<1>1. SessionTypeOK /\ ListenerIsThere /\ OneOutcome
  BY DEF SessionInv
<1>2. /\ threads[t].at = "look" /\ Continues(t, k)
      /\ connected' = connected /\ socket' = socket /\ buf' = buf /\ boxes' = boxes /\ lobby' = lobby
      /\ callbacks' = callbacks /\ connections' = connections /\ waiting' = waiting
      /\ hurried' = hurried /\ races' = races /\ lost' = lost
  BY Zenon DEF Look, network, controller, history
<1>3. k \in Thread /\ k.at = "recv" /\ k.on = socket
  <2>1. socket \in Nat
    BY <1>1 DEF SessionTypeOK
  <2> QED
    BY <2>1, ThreadsAre, Zenon
<1> HIDE DEF k
<1>4. /\ threads' \in Seq(Thread) /\ Len(threads') = Len(threads) /\ DOMAIN threads' = DOMAIN threads
      /\ threads'[t] = k /\ \A m \in DOMAIN threads : m # t => threads'[m] = threads[m]
  BY <1>1, <1>2, <1>3, ThreadMoves, Zenon
<1>5. SessionTypeOK'
  BY <1>1, <1>2, <1>4, Zenon DEF SessionTypeOK
<1>6. socket = 0 \/ socket \in DOMAIN connections
  BY <1>1, SMT DEF SessionTypeOK, ListenerIsThere
<1>7. "recv" \notin {"add", "split", "dispatch", "done"} /\ "look" \notin {"add", "split", "dispatch", "done"}
  OBVIOUS
<1>8. ListenerIsThere'
  BY <1>1, <1>2, <1>3, <1>6, <1>7, ListenerStays, Zenon
<1>9. connected => socket \in DOMAIN connections
  BY <1>1, SMT DEF SessionTypeOK, ListenerIsThere
<1>10. OneOutcome'
  BY <1>1, <1>2, <1>3, <1>4, <1>7, <1>9, OutcomesStay, Zenon DEF OneOutcome, Outcomes
<1> QED
  BY <1>5, <1>8, <1>10 DEF SessionInv

LEMMA SplitKeeps == ASSUME SessionInv, NEW t \in DOMAIN threads, Split(t) PROVE SessionInv'
<1> DEFINE k == IF buf = << >> THEN Listening ELSE [Listening EXCEPT !.at = "dispatch", !.held = buf]
<1>1. SessionTypeOK /\ ListenerIsThere /\ OneOutcome
  BY DEF SessionInv
<1>2. /\ threads[t].at = "split" /\ Continues(t, k)
      /\ connected' = connected /\ socket' = socket /\ buf' = buf /\ boxes' = boxes /\ lobby' = lobby
      /\ callbacks' = callbacks /\ connections' = connections /\ waiting' = waiting
      /\ hurried' = hurried /\ races' = races /\ lost' = lost
  BY Zenon DEF Split, network, controller, history
<1>3. k \in Thread /\ k.at \in {"check", "dispatch"} /\ k.at # "add" /\ (k.at = "dispatch" => k.held # << >>)
        /\ (buf # << >> => k.at = "dispatch")
  <2>1. buf \in Seq(Line) /\ "check" # "dispatch"
    BY <1>1, SMT DEF SessionTypeOK
  <2>2. CASE buf = << >>
    <3>1. k = Listening
      BY <2>2, Zenon
    <3> HIDE DEF k
    <3>2. k \in Thread /\ k.at = "check"
      BY <3>1, ThreadsAre, Zenon
    <3> QED
      BY <2>1, <2>2, <3>2, SMT
  <2>3. CASE buf # << >>
    <3>1. k = [Listening EXCEPT !.at = "dispatch", !.held = buf]
      BY <2>3, Zenon
    <3> HIDE DEF k
    <3>2. k \in Thread /\ k.at = "dispatch" /\ k.held = buf
      BY <2>1, <3>1, ThreadsAre, Zenon
    <3> QED
      BY <2>3, <3>2, SMT
  <2> QED
    BY <2>2, <2>3, Zenon
<1> HIDE DEF k
<1>4. /\ threads' \in Seq(Thread) /\ Len(threads') = Len(threads) /\ DOMAIN threads' = DOMAIN threads
      /\ threads'[t] = k /\ \A m \in DOMAIN threads : m # t => threads'[m] = threads[m]
  BY <1>1, <1>2, <1>3, ThreadMoves, Zenon
<1>5. SessionTypeOK'
  BY <1>1, <1>2, <1>4, Zenon DEF SessionTypeOK
<1>6. connected => socket \in DOMAIN connections
  BY <1>1, SMT DEF SessionTypeOK, ListenerIsThere
<1>7. ListenerIsThere'
  BY <1>1, <1>2, <1>3, <1>6, ListenerStays, Zenon
<1>8. OneOutcome'
  BY <1>1, <1>2, <1>3, <1>4, <1>6, OutcomesStay, Zenon DEF OneOutcome, Outcomes
<1> QED
  BY <1>5, <1>7, <1>8 DEF SessionInv

LEMMA LinesChange ==
  ASSUME SessionTypeOK, NEW c \in DOMAIN connections, NEW l \in Seq(Line),
         connections' = [connections EXCEPT ![c].lines = l]
  PROVE  /\ connections' \in Seq(Connection) /\ Len(connections') = Len(connections) /\ DOMAIN connections' = DOMAIN connections
         /\ connections'[c].lines = l /\ connections'[c].requests = connections[c].requests
         /\ connections'[c].phase = connections[c].phase /\ connections'[c].open = connections[c].open
         /\ \A d \in DOMAIN connections : d # c => connections'[d] = connections[d]
<1> DEFINE e == [connections[c] EXCEPT !.lines = l]
<1>1. connections \in Seq(Connection) /\ connections[c] \in Connection
  <2>1. connections \in Seq(Connection)
    BY Zenon DEF SessionTypeOK
  <2> QED
    BY <2>1, SMT
<1>2. /\ e \in Connection /\ e.lines = l /\ e.requests = connections[c].requests
      /\ e.phase = connections[c].phase /\ e.open = connections[c].open
  BY <1>1 DEF Connection
<1>3. connections' = [connections EXCEPT ![c] = e]
  BY Zenon
<1> HIDE DEF e
<1>4. /\ connections' \in Seq(Connection) /\ Len(connections') = Len(connections) /\ DOMAIN connections' = DOMAIN connections
      /\ connections'[c] = e /\ \A d \in DOMAIN connections : d # c => connections'[d] = connections[d]
  BY <1>1, <1>2, <1>3, SMT
<1> QED
  BY <1>2, <1>4, Zenon

\* A thread that gives up takes the connection with it, whatever is left of the lines and of
\* the buffer.
LEMMA LostKeeps ==
  ASSUME SessionInv, NEW t \in DOMAIN threads, disconnected(t), lost' = TRUE,
         connections' \in Seq(Connection), Len(connections') = Len(connections),
         DOMAIN connections' = DOMAIN connections,
         buf' \in Seq(Line), races' \in BOOLEAN,
         UNCHANGED <<socket, controller, callbacks, hurried>>
  PROVE  SessionInv'
<1> DEFINE k == [Listening EXCEPT !.at = "done"]
<1>1. SessionTypeOK /\ ListenerIsThere
  BY DEF SessionInv
<1>2. /\ Continues(t, k) /\ connected' = FALSE /\ lost' = TRUE
      /\ socket' = socket /\ boxes' = boxes /\ lobby' = lobby /\ callbacks' = callbacks
      /\ hurried' = hurried
  BY Zenon DEF disconnected, Ends, controller
<1>3. k \in Thread /\ k.at = "done" /\ "done" \notin {"recv", "add", "dispatch"}
  <2>1. "done" \notin {"recv", "add", "dispatch"} /\ "done" \in {"done", "split"}
    BY SMT
  <2> QED
    BY <2>1, ThreadsAre, Zenon
<1> HIDE DEF k
<1>4. threads' \in Seq(Thread)
  BY <1>1, <1>2, <1>3, ThreadMoves, Zenon
<1>5. SessionTypeOK'
  <2>1. connected' \in BOOLEAN /\ lost' \in BOOLEAN
    BY <1>2, Zenon
  <2> QED
    BY <1>1, <1>2, <1>4, <2>1, Zenon DEF SessionTypeOK
<1>6. ListenerIsThere'
  BY <1>1, <1>2, <1>3, ListenerStays, Zenon
<1>7. OneOutcome'
  BY <1>2, Zenon DEF OneOutcome
<1> QED
  BY <1>5, <1>6, <1>7 DEF SessionInv

\* The connection that a thread reads.
LEMMA ReadFrom ==
  ASSUME SessionInv, NEW t \in DOMAIN threads, threads[t].at = "recv", threads[t].on # 0
  PROVE  /\ threads[t].on \in DOMAIN connections
         /\ connections[threads[t].on].lines \in Seq(Line)
         /\ connections \in Seq(Connection) /\ buf \in Seq(Line) /\ races \in BOOLEAN
<1>1. threads[t].on \in DOMAIN connections /\ connections \in Seq(Connection) /\ buf \in Seq(Line)
      /\ races \in BOOLEAN
  BY Zenon DEF SessionInv, ListenerIsThere, SessionTypeOK
<1>2. connections[threads[t].on] \in Connection
  BY <1>1, SMT
<1> QED
  BY <1>1, <1>2, ConnectionIs, Zenon

LEMMA EofKeeps == ASSUME SessionInv, NEW t \in DOMAIN threads, Eof(t) PROVE SessionInv'
<1> DEFINE c == threads[t].on
<1>1. /\ threads[t].at = "recv" /\ disconnected(t) /\ lost' = TRUE
      /\ \/ connections' = connections
         \/ c # 0 /\ connections' = [connections EXCEPT ![c].lines = << >>]
      /\ buf' = buf /\ races' = races /\ UNCHANGED <<socket, controller, callbacks, hurried>>
  BY Zenon DEF Eof, Loses
<1>2. buf \in Seq(Line) /\ races \in BOOLEAN /\ connections \in Seq(Connection)
  BY Zenon DEF SessionInv, SessionTypeOK
<1>3. connections' \in Seq(Connection) /\ Len(connections') = Len(connections)
      /\ DOMAIN connections' = DOMAIN connections
  <2>1. CASE connections' = connections
    BY <1>2, <2>1, Zenon
  <2>2. CASE c # 0 /\ connections' = [connections EXCEPT ![c].lines = << >>]
    <3>1. c \in DOMAIN connections /\ << >> \in Seq(Line)
      BY <1>1, <2>2, ReadFrom, AnswersTell, Zenon
    <3> QED
      BY <2>2, <3>1, LinesChange, Zenon DEF SessionInv
  <2> QED
    BY <1>1, <2>1, <2>2, Zenon
<1> QED
  BY <1>1, <1>2, <1>3, LostKeeps, Zenon

LEMMA UndecodableKeeps == ASSUME SessionInv, NEW t \in DOMAIN threads, Undecodable(t) PROVE SessionInv'
<1> DEFINE c == threads[t].on
           l == connections[c].lines
<1>1. /\ threads[t].at = "recv" /\ c # 0 /\ disconnected(t) /\ lost' = TRUE
      /\ buf' = buf /\ races' = races /\ UNCHANGED <<socket, controller, callbacks, hurried>>
  BY Zenon DEF Undecodable, Loses
<1>2. /\ c \in DOMAIN connections /\ buf \in Seq(Line) /\ races \in BOOLEAN
      /\ l \in Seq(Line)
  BY <1>1, ReadFrom, Zenon
<1>3. PICK n \in 1 .. Len(l) :
        \/ connections' = [connections EXCEPT ![c].lines = <<Rest>> \o SubSeq(l, n + 1, Len(l))]
        \/ connections' = [connections EXCEPT ![c].lines = SubSeq(l, n + 1, Len(l))]
  BY Zenon DEF Undecodable
<1> DEFINE b == SubSeq(l, n + 1, Len(l))
           d == <<Rest>> \o b
<1>4. b \in Seq(Line)
  <2> HIDE DEF l
  <2>1. Cut(l, SubSeq(l, 1, n), b)
    BY <1>2, CutInTwo, Zenon
  <2> QED
    BY <2>1, Zenon DEF Cut
<1>5. d \in Seq(Line)
  <2> HIDE DEF b
  <2>1. <<Rest>> \in Seq(Line)
    BY SMT DEF Line
  <2> HIDE DEF Line
  <2> QED
    BY <1>4, <2>1, SMT
<1>6. connections' = [connections EXCEPT ![c].lines = d] \/ connections' = [connections EXCEPT ![c].lines = b]
  BY <1>3, Zenon
<1> HIDE DEF b, d, l
<1>7. connections' \in Seq(Connection) /\ Len(connections') = Len(connections)
      /\ DOMAIN connections' = DOMAIN connections
  BY <1>2, <1>4, <1>5, <1>6, LinesChange, Zenon DEF SessionInv
<1> QED
  BY <1>1, <1>2, <1>7, LostKeeps, Zenon

LEMMA RaiseKeeps == ASSUME SessionInv, NEW t \in DOMAIN threads, Raise(t) PROVE SessionInv'
<1> DEFINE h == threads[t].held
<1>1. /\ threads[t].at = "dispatch" /\ disconnected(t) /\ lost' = TRUE
      /\ buf' = Tail(h) /\ races' = (races \/ buf # h) /\ connections' = connections
      /\ UNCHANGED <<socket, controller, callbacks, hurried>>
  BY Zenon DEF Raise, Race
<1>2. h \in Seq(Line) /\ h # << >> /\ connections \in Seq(Connection)
  <2>1. threads \in Seq(Thread) /\ connections \in Seq(Connection)
    BY Zenon DEF SessionInv, SessionTypeOK
  <2>2. threads[t] \in Thread
    BY <2>1, SMT
  <2>3. h # << >>
    BY <1>1, Zenon DEF SessionInv, ListenerIsThere
  <2> QED
    BY <2>1, <2>2, <2>3, ThreadIs, Zenon
<1> HIDE DEF h
<1>3. buf' \in Seq(Line)
  BY <1>1, <1>2, FirstLine, Zenon
<1>4. races' \in BOOLEAN
  BY <1>1, SMT
<1> QED
  BY <1>1, <1>2, <1>3, <1>4, LostKeeps, Zenon

LEMMA RecvPieceKeeps == ASSUME SessionInv, NEW t \in DOMAIN threads, RecvPiece(t) PROVE SessionInv'
<1> DEFINE k == Listening
<1>1. SessionTypeOK /\ ListenerIsThere /\ OneOutcome
  BY DEF SessionInv
<1>2. /\ threads[t].at = "recv" /\ Continues(t, k)
      /\ connected' = connected /\ socket' = socket /\ buf' = buf /\ boxes' = boxes /\ lobby' = lobby
      /\ callbacks' = callbacks /\ connections' = connections /\ waiting' = waiting
      /\ hurried' = hurried /\ races' = races /\ lost' = lost
  BY Zenon DEF RecvPiece, controller, history
<1>3. /\ k \in Thread /\ k.at = "check" /\ "check" \notin {"recv", "add", "dispatch", "done"}
      /\ "recv" \notin {"add", "split", "dispatch"}
  <2>1. "check" \notin {"recv", "add", "dispatch", "done"} /\ "recv" \notin {"add", "split", "dispatch"}
    BY SMT
  <2> QED
    BY <2>1, ThreadsAre, Zenon
<1> HIDE DEF k
<1>4. /\ threads' \in Seq(Thread) /\ Len(threads') = Len(threads) /\ DOMAIN threads' = DOMAIN threads
      /\ threads'[t] = k /\ \A m \in DOMAIN threads : m # t => threads'[m] = threads[m]
  BY <1>1, <1>2, <1>3, ThreadMoves, Zenon
<1>5. SessionTypeOK'
  BY <1>1, <1>2, <1>4, Zenon DEF SessionTypeOK
<1>6. connected => socket \in DOMAIN connections
  BY <1>1, SMT DEF SessionTypeOK, ListenerIsThere
<1>7. ListenerIsThere'
  BY <1>1, <1>2, <1>3, <1>6, ListenerStays, Zenon
<1>8. OneOutcome'
  BY <1>1, <1>2, <1>3, <1>4, <1>6, OutcomesStay, Zenon DEF OneOutcome, Outcomes
<1> QED
  BY <1>5, <1>7, <1>8 DEF SessionInv

\* Where something of an outcome is found, there is the only outcome.
Found ==
  /\ \A c \in DOMAIN connections : ~Quiet(connections[c].lines) =>
       Awaiting /\ c = socket /\ \E x \in Callback : InLines(x) /\ (x = "end" => InSession)
  /\ \A t \in DOMAIN threads : threads[t].at = "add" /\ ~Quiet(threads[t].got) =>
       /\ Awaiting
       /\ \E x \in Callback :
            /\ x = "end" => InSession
            /\ Tells(threads[t].got, x) /\ NoBytes({t}) /\ NoRequest({}) /\ NoLine({})
            /\ Quiet(buf) /\ callbacks = << >> /\ boxes = 0
  /\ ~Quiet(buf) => Awaiting /\ \E x \in Callback : InBuffer(x) /\ (x = "end" => InSession)
  /\ callbacks # << >> => Awaiting /\ \E x \in Callback : InCallback(x) /\ (x = "end" => InSession)
  /\ boxes # 0 => Awaiting /\ InBox
  /\ \A c \in DOMAIN connections : connections[c].requests # << >> =>
       Awaiting /\ c = socket /\ InRequest

LEMMA Whereabouts == Outcomes => Found
<1> SUFFICES ASSUME Outcomes PROVE Found
  OBVIOUS
<1>1. CASE Idle \/ Inside
  BY <1>1, Zenon DEF Found, Idle, Inside, NoRequest, NoLine, NoBytes
<1>2. CASE Awaiting /\ InRequest
  BY <1>2, Zenon DEF Found, InRequest, NoRequest, NoLine, NoBytes
<1>3. CASE Awaiting /\ InBox
  BY <1>3, Zenon DEF Found, InBox, NoRequest, NoLine, NoBytes
<1>4. ASSUME Awaiting, NEW x \in Callback, x = "end" => InSession, InLines(x)
      PROVE  /\ \A c \in DOMAIN connections : c # socket => Quiet(connections[c].lines)
             /\ \A t \in DOMAIN threads : threads[t].at = "add" => Quiet(threads[t].got)
             /\ Quiet(buf) /\ callbacks = << >> /\ boxes = 0
             /\ \A c \in DOMAIN connections : connections[c].requests = << >>
  BY <1>4, Zenon DEF InLines, NoRequest, NoLine, NoBytes
<1>5. ASSUME Awaiting, NEW x \in Callback, x = "end" => InSession, InBytes(x)
      PROVE  /\ \A c \in DOMAIN connections : Quiet(connections[c].lines)
             /\ \A t \in DOMAIN threads : threads[t].at = "add" /\ ~Quiet(threads[t].got) =>
                  Tells(threads[t].got, x) /\ NoBytes({t}) /\ NoRequest({}) /\ NoLine({})
             /\ Quiet(buf) /\ callbacks = << >> /\ boxes = 0
             /\ \A c \in DOMAIN connections : connections[c].requests = << >>
  BY <1>5, Zenon DEF InBytes, NoRequest, NoLine, NoBytes
<1>6. ASSUME Awaiting, NEW x \in Callback, x = "end" => InSession, InBuffer(x)
      PROVE  /\ \A c \in DOMAIN connections : Quiet(connections[c].lines)
             /\ \A t \in DOMAIN threads : threads[t].at = "add" => Quiet(threads[t].got)
             /\ callbacks = << >> /\ boxes = 0
             /\ \A c \in DOMAIN connections : connections[c].requests = << >>
  BY <1>6, Zenon DEF InBuffer, NoRequest, NoLine, NoBytes
<1>7. ASSUME Awaiting, NEW x \in Callback, x = "end" => InSession, InCallback(x)
      PROVE  /\ \A c \in DOMAIN connections : Quiet(connections[c].lines)
             /\ \A t \in DOMAIN threads : threads[t].at = "add" => Quiet(threads[t].got)
             /\ Quiet(buf) /\ boxes = 0
             /\ \A c \in DOMAIN connections : connections[c].requests = << >>
  BY <1>7, Zenon DEF InCallback, NoRequest, NoLine, NoBytes
<1>8. ASSUME Awaiting, NEW x \in Callback, x = "end" => InSession,
             InLines(x) \/ InBytes(x) \/ InBuffer(x) \/ InCallback(x)
      PROVE  Found
  <2>1. CASE InLines(x)
    BY <1>4, <1>8, <2>1, Zenon DEF Found
  <2>2. CASE InBytes(x)
    BY <1>5, <1>8, <2>2, Zenon DEF Found
  <2>3. CASE InBuffer(x)
    BY <1>6, <1>8, <2>3, Zenon DEF Found
  <2>4. CASE InCallback(x)
    BY <1>7, <1>8, <2>4, Zenon DEF Found
  <2> QED
    BY <1>8, <2>1, <2>2, <2>3, <2>4, Zenon
<1> QED
  BY <1>1, <1>2, <1>3, <1>8, Zenon DEF Outcomes, Awaiting

LEMMA RecvKeeps == ASSUME SessionInv, NEW t \in DOMAIN threads, Recv(t) PROVE SessionInv'
<1> DEFINE c == threads[t].on
<1>1. SessionTypeOK /\ ListenerIsThere /\ OneOutcome
  BY DEF SessionInv
<1>2. c \in DOMAIN connections /\ threads[t].at = "recv"
  BY <1>1, Zenon DEF Recv, ListenerIsThere
<1> DEFINE l == connections[c].lines
<1>3. connections[c] \in Connection /\ c \in Nat /\ l \in Seq(Line) /\ buf \in Seq(Line)
  <2>1. connections \in Seq(Connection) /\ buf \in Seq(Line)
    BY <1>1, Zenon DEF SessionTypeOK
  <2>2. connections[c] \in Connection /\ c \in Nat
    BY <1>2, <2>1, SMT
  <2> QED
    BY <2>1, <2>2, ConnectionIs, Zenon
<1>4. PICK n \in 1 .. Len(l) :
        /\ Continues(t, [at |-> "add", on |-> c, held |-> buf, got |-> SubSeq(l, 1, n)])
        /\ connections' = [connections EXCEPT ![c].lines = SubSeq(l, n + 1, Len(l))]
  BY Zenon DEF Recv
<1> DEFINE a == SubSeq(l, 1, n)
           b == SubSeq(l, n + 1, Len(l))
           k == [at |-> "add", on |-> c, held |-> buf, got |-> a]
<1>5. /\ a \in Seq(Line) /\ b \in Seq(Line)
      /\ Quiet(l) => Quiet(a) /\ Quiet(b)
      /\ \A x \in Callback : Tells(l, x) => (Tells(a, x) /\ Quiet(b)) \/ (Quiet(a) /\ Tells(b, x))
  <2>1. Cut(l, a, b)
    <3> HIDE DEF l
    <3> QED
      BY <1>3, CutInTwo, Zenon
  <2> HIDE DEF a, b, l
  <2> QED
    BY <2>1, Zenon DEF Cut
<1>6. k \in Thread /\ k.at = "add" /\ k.on = c /\ k.got = a /\ a # << >>
  <2>1. k \in Thread
    BY <1>3, <1>5, ThreadsAre, Zenon
  <2>2. a # << >>
    <3>1. Len(a) = n /\ n # 0 /\ Len(<< >>) = 0
      <4> HIDE DEF l
      <4> QED
        BY <1>3, SMT
    <3> HIDE DEF a
    <3> QED
      BY <3>1, Zenon
  <2> QED
    BY <2>1, <2>2, Zenon
<1>7. Continues(t, k) /\ connections' = [connections EXCEPT ![c].lines = b]
  BY <1>4, Zenon
<1> HIDE DEF a, b, k
<1>8. /\ threads' \in Seq(Thread) /\ Len(threads') = Len(threads) /\ DOMAIN threads' = DOMAIN threads
      /\ threads'[t] = k /\ \A m \in DOMAIN threads : m # t => threads'[m] = threads[m]
  BY <1>1, <1>6, <1>7, ThreadMoves, Zenon
<1>9. /\ connections' \in Seq(Connection) /\ Len(connections') = Len(connections)
      /\ DOMAIN connections' = DOMAIN connections
      /\ connections'[c].lines = b /\ connections'[c].requests = connections[c].requests
      /\ connections'[c].phase = connections[c].phase /\ connections'[c].open = connections[c].open
      /\ \A d \in DOMAIN connections : d # c => connections'[d] = connections[d]
  BY <1>1, <1>2, <1>5, <1>7, LinesChange, Zenon
<1>10. /\ connected' = connected /\ socket' = socket /\ buf' = buf /\ boxes' = boxes /\ lobby' = lobby
       /\ callbacks' = callbacks /\ waiting' = waiting
       /\ hurried' = hurried /\ races' = races /\ lost' = lost
  BY Zenon DEF Recv, network, controller, history
<1>11. SessionTypeOK'
  BY <1>1, <1>8, <1>9, <1>10, Zenon DEF SessionTypeOK
<1>12. ListenerIsThere'
  <2>1. threads[t].at \notin {"split", "dispatch"} /\ k.at # "recv" /\ k.at # "dispatch" /\ k.at # "done"
    BY <1>2, <1>6, SMT
  <2>2. \A d \in DOMAIN connections : connections'[d].open = connections[d].open
    BY <1>9, Zenon
  <2> QED
    BY <1>1, <1>2, <1>6, <1>7, <1>9, <1>10, <2>1, <2>2, ListenerStays, Zenon
<1>13. connected => socket \in DOMAIN connections
  BY <1>1, SMT DEF SessionTypeOK, ListenerIsThere
<1>14. ASSUME Outcomes PROVE Outcomes'
  <2>1. CASE Quiet(a)
    <3>1. \A d \in DOMAIN connections :
            /\ connections'[d].requests = connections[d].requests
            /\ Quiet(connections[d].lines) => Quiet(connections'[d].lines)
            /\ \A x \in Callback : Tells(connections[d].lines, x) => Tells(connections'[d].lines, x)
            /\ connections'[d].phase = connections[d].phase
      <4>1. \A x \in Callback : ~Tells(a, x)
        BY <2>1, Zenon DEF Quiet, Tells
      <4> QED
        BY <1>5, <1>9, <4>1, Zenon
    <3>2. \A m \in DOMAIN threads :
            /\ threads'[m].at = "add" /\ (threads[m].at = "add" => Quiet(threads[m].got)) => Quiet(threads'[m].got)
            /\ \A x \in Callback : threads[m].at = "add" /\ Tells(threads[m].got, x) =>
                 threads'[m].at = "add" /\ Tells(threads'[m].got, x)
      <4>1. threads[t].at # "add"
        BY <1>2, SMT
      <4> QED
        BY <1>6, <1>8, <2>1, <4>1, Zenon
    <3> QED
      BY <1>8, <1>9, <1>10, <1>13, <1>14, <3>1, <3>2, OutcomesStay, Zenon
  <2>2. CASE ~Quiet(a)
    <3>1. Awaiting /\ c = socket /\ \E x \in Callback : InLines(x) /\ (x = "end" => InSession)
      BY <1>2, <1>5, <1>14, <2>2, Whereabouts, Zenon DEF Found
    <3>2. PICK x \in Callback : InLines(x) /\ (x = "end" => InSession)
      BY <3>1, Zenon
    <3>3. Tells(a, x) /\ Quiet(b)
      BY <1>5, <2>2, <3>1, <3>2, Zenon DEF InLines
    <3>4. NoRequest({})' /\ NoLine({})' /\ NoBytes({t})'
      <4>1. NoRequest({}) /\ NoLine({socket}) /\ NoBytes({})
        BY <3>2, Zenon DEF InLines
      <4>2. NoRequest({})'
        BY <1>9, <4>1, Zenon DEF NoRequest
      <4>3. NoLine({})'
        BY <1>9, <3>1, <3>3, <4>1, Zenon DEF NoLine
      <4>4. NoBytes({t})'
        BY <1>8, <4>1, Zenon DEF NoBytes
      <4> QED
        BY <4>2, <4>3, <4>4
    <3>5. InBytes(x)'
      <4>1. Quiet(buf) /\ callbacks = << >> /\ boxes = 0
        BY <3>2, Zenon DEF InLines
      <4> QED
        BY <1>6, <1>8, <1>10, <3>3, <3>4, <4>1, Zenon DEF InBytes
    <3>6. x = "end" => InSession'
      BY <1>9, <1>10, <3>1, <3>2, Zenon DEF InSession
    <3>7. Awaiting'
      BY <1>10, <3>1, <3>5, <3>6, Zenon DEF Awaiting
    <3> QED
      BY <3>7 DEF Outcomes
  <2> QED
    BY <2>1, <2>2
<1>15. OneOutcome'
  BY <1>1, <1>10, <1>14, Zenon DEF OneOutcome, Outcomes
<1> QED
  BY <1>11, <1>12, <1>15 DEF SessionInv

\* Nothing of an outcome in s: what s is added to goes on as it was.
LEMMA QuietTellsNothing == ASSUME NEW s, Quiet(s), NEW x \in Callback PROVE ~Tells(s, x)
  BY Zenon DEF Quiet, Tells

LEMMA AddBytesKeeps == ASSUME SessionInv, NEW t \in DOMAIN threads, AddBytes(t) PROVE SessionInv'
<1> DEFINE k == [Listening EXCEPT !.at = "split"]
           c == threads[t].on
           spoils == half \notin {0, c} \/ c \in spoiled
           g == IF spoils THEN Tail(threads[t].got) ELSE threads[t].got
<1>1. SessionTypeOK /\ ListenerIsThere /\ OneOutcome
  BY DEF SessionInv
<1>2. /\ threads[t].at = "add" /\ Continues(t, k)
      /\ buf' = threads[t].held \o g /\ races' = (races \/ spoils \/ buf # threads[t].held)
      /\ connected' = connected /\ socket' = socket /\ boxes' = boxes /\ lobby' = lobby
      /\ callbacks' = callbacks /\ connections' = connections /\ waiting' = waiting
      /\ hurried' = hurried /\ lost' = lost
  BY Zenon DEF AddBytes, controller
<1>3. k \in Thread /\ k.at = "split" /\ "split" \notin {"recv", "add", "dispatch", "done"}
  <2>1. "split" \notin {"recv", "add", "dispatch", "done"} /\ "split" \in {"done", "split"}
    BY SMT
  <2> QED
    BY <2>1, ThreadsAre, Zenon
<1> HIDE DEF k
<1>4. /\ threads' \in Seq(Thread) /\ Len(threads') = Len(threads) /\ DOMAIN threads' = DOMAIN threads
      /\ threads'[t] = k /\ \A m \in DOMAIN threads : m # t => threads'[m] = threads[m]
  BY <1>1, <1>2, <1>3, ThreadMoves, Zenon
<1>5. threads[t].held \in Seq(Line) /\ g \in Seq(Line) /\ buf \in Seq(Line)
  <2>1. threads \in Seq(Thread) /\ buf \in Seq(Line)
    BY <1>1, Zenon DEF SessionTypeOK
  <2>2. threads[t] \in Thread
    BY <2>1, SMT
  <2>3. threads[t].got \in Seq(Line) /\ threads[t].got # << >>
    BY <1>1, <1>2, <2>2, ThreadIs, Zenon DEF ListenerIsThere
  <2>4. Tail(threads[t].got) \in Seq(Line)
    BY <2>3, FirstLine, Zenon
  <2> QED
    BY <2>1, <2>2, <2>3, <2>4, ThreadIs, Zenon
<1> HIDE DEF spoils
<1>6. SessionTypeOK'
  <2>1. buf' \in Seq(Line) /\ races' \in BOOLEAN
    BY <1>2, <1>5, SMT
  <2> QED
    BY <1>1, <1>2, <1>4, <2>1, Zenon DEF SessionTypeOK
<1>7. ListenerIsThere'
  <2>1. k.at \in {"split", "dispatch"}
    BY <1>3, SMT
  <2> QED
    BY <1>1, <1>2, <1>3, <2>1, ListenerStays, Zenon
<1>8. connected => socket \in DOMAIN connections
  BY <1>1, SMT DEF SessionTypeOK, ListenerIsThere
<1>9. ASSUME Outcomes, ~races' PROVE Outcomes'
  <2>0. ~spoils /\ buf = threads[t].held
    <3>1. ASSUME spoils PROVE FALSE
      BY <1>2, <1>9, <3>1, Zenon
    <3> QED
      BY <1>2, <1>9, <3>1, Zenon
  <2>10. g = threads[t].got
    BY <2>0, Zenon
  <2> HIDE DEF g
  <2>1. buf' = buf \o g
    BY <1>2, <2>0, Zenon
  <2>2. \A x \in Callback :
          /\ Quiet(buf) /\ Quiet(g) => Quiet(buf')
          /\ Tells(buf, x) /\ Quiet(g) => Tells(buf', x)
          /\ Quiet(buf) /\ Tells(g, x) => Tells(buf', x)
    BY <1>5, <2>1, Joined, Zenon
  <2>3. CASE Quiet(g)
    <3>1. Quiet(buf) => Quiet(buf')
      <4>1. "end" \in Callback
        BY SMT DEF Callback
      <4> QED
        BY <2>2, <2>3, <4>1, Zenon
    <3>2. \A m \in DOMAIN threads :
            /\ threads'[m].at = "add" /\ (threads[m].at = "add" => Quiet(threads[m].got)) => Quiet(threads'[m].got)
            /\ \A x \in Callback : threads[m].at = "add" /\ Tells(threads[m].got, x) =>
                 threads'[m].at = "add" /\ Tells(threads'[m].got, x)
      <4>1. \A x \in Callback : ~Tells(threads[t].got, x)
        BY <2>3, <2>10, QuietTellsNothing, Zenon
      <4>2. threads'[t].at # "add"
        BY <1>3, <1>4, Zenon
      <4> QED
        BY <1>4, <4>1, <4>2, Zenon
    <3> QED
      BY <1>2, <1>4, <1>8, <1>9, <2>2, <2>3, <3>1, <3>2, OutcomesStay, Zenon
  <2>4. CASE ~Quiet(g)
    <3>1. PICK x \in Callback :
            /\ Awaiting /\ (x = "end" => InSession)
            /\ Tells(g, x) /\ NoBytes({t}) /\ NoRequest({}) /\ NoLine({})
            /\ Quiet(buf) /\ callbacks = << >> /\ boxes = 0
      BY <1>2, <1>9, <2>4, <2>10, Whereabouts, Zenon DEF Found
    <3>2. NoRequest({})' /\ NoLine({})' /\ NoBytes({})'
      <4>1. NoBytes({})'
        BY <1>3, <1>4, <3>1, Zenon DEF NoBytes
      <4> QED
        BY <1>2, <3>1, <4>1, Zenon DEF NoRequest, NoLine
    <3>3. InBuffer(x)'
      BY <1>2, <2>2, <3>1, <3>2, Zenon DEF InBuffer
    <3>4. Awaiting'
      BY <1>2, <3>1, <3>3, Zenon DEF Awaiting, InSession
    <3> QED
      BY <3>4 DEF Outcomes
  <2> QED
    BY <2>3, <2>4
<1>10. OneOutcome'
  BY <1>1, <1>2, <1>9, Zenon DEF OneOutcome, Outcomes
<1> QED
  BY <1>6, <1>7, <1>10 DEF SessionInv

LEMMA DispatchKeeps == ASSUME SessionInv, NEW t \in DOMAIN threads, _dispatch(t) PROVE SessionInv'
<1> DEFINE k == [Listening EXCEPT !.at = "split"]
           h == threads[t].held
<1>1. SessionTypeOK /\ ListenerIsThere /\ OneOutcome
  BY DEF SessionInv
<1>2. /\ threads[t].at = "dispatch" /\ Continues(t, k)
      /\ buf' = Tail(h) /\ races' = (races \/ buf # h)
      /\ callbacks' = IF Head(h) \in Callback THEN Append(callbacks, Head(h)) ELSE callbacks
      /\ connected' = connected /\ socket' = socket /\ boxes' = boxes /\ lobby' = lobby
      /\ connections' = connections /\ waiting' = waiting
      /\ hurried' = hurried /\ lost' = lost
  BY Zenon DEF _dispatch, Race, controller
<1>3. k \in Thread /\ k.at = "split" /\ "split" \notin {"recv", "add", "dispatch", "done"}
  <2>1. "split" \notin {"recv", "add", "dispatch", "done"} /\ "split" \in {"done", "split"}
    BY SMT
  <2> QED
    BY <2>1, ThreadsAre, Zenon
<1> HIDE DEF k
<1>4. /\ threads' \in Seq(Thread) /\ Len(threads') = Len(threads) /\ DOMAIN threads' = DOMAIN threads
      /\ threads'[t] = k /\ \A m \in DOMAIN threads : m # t => threads'[m] = threads[m]
  BY <1>1, <1>2, <1>3, ThreadMoves, Zenon
<1>5. h \in Seq(Line) /\ h # << >> /\ buf \in Seq(Line) /\ callbacks \in Seq(Callback)
  <2>1. threads \in Seq(Thread) /\ buf \in Seq(Line) /\ callbacks \in Seq(Callback)
    BY <1>1, Zenon DEF SessionTypeOK
  <2>2. threads[t] \in Thread
    BY <2>1, SMT
  <2>3. h # << >>
    BY <1>1, <1>2, Zenon DEF ListenerIsThere
  <2> QED
    BY <2>1, <2>2, <2>3, ThreadIs, Zenon
<1> HIDE DEF h
<1>6. /\ Tail(h) \in Seq(Line) /\ Head(h) \in Line
      /\ Quiet(h) => Head(h) \notin Callback /\ Quiet(Tail(h))
      /\ \A x \in Callback : Tells(h, x) =>
           \/ Head(h) = x /\ Quiet(Tail(h))
           \/ Head(h) \notin Callback /\ Tells(Tail(h), x)
  BY <1>5, FirstLine, Zenon
<1>7. SessionTypeOK'
  <2>1. races' \in BOOLEAN
    BY <1>2, SMT
  <2>2. callbacks' \in Seq(Callback)
    BY <1>2, <1>5, SMT
  <2> QED
    BY <1>1, <1>2, <1>4, <1>6, <2>1, <2>2, Zenon DEF SessionTypeOK
<1>8. ListenerIsThere'
  <2>1. k.at \in {"split", "dispatch"}
    BY <1>3, SMT
  <2> QED
    BY <1>1, <1>2, <1>3, <2>1, ListenerStays, Zenon
<1>9. connected => socket \in DOMAIN connections
  BY <1>1, SMT DEF SessionTypeOK, ListenerIsThere
<1>10. ASSUME Outcomes, ~races' PROVE Outcomes'
  <2>1. buf = h
    BY <1>2, <1>10, Zenon
  <2>2. threads[t].at # "add" /\ threads'[t].at # "add"
    BY <1>2, <1>3, <1>4, SMT
  <2>3. CASE Head(h) \notin Callback
    <3>1. callbacks' = callbacks
      BY <1>2, <2>3, Zenon
    <3>2. \A m \in DOMAIN threads :
            /\ threads'[m].at = "add" /\ (threads[m].at = "add" => Quiet(threads[m].got)) => Quiet(threads'[m].got)
            /\ \A x \in Callback : threads[m].at = "add" /\ Tells(threads[m].got, x) =>
                 threads'[m].at = "add" /\ Tells(threads'[m].got, x)
      BY <1>4, <2>2, Zenon
    <3>3. Quiet(buf) => Quiet(buf')
      BY <1>2, <1>6, <2>1, Zenon
    <3>4. \A x \in Callback : Tells(buf, x) => Tells(buf', x)
      BY <1>2, <1>6, <2>1, <2>3, Zenon
    <3> QED
      BY <1>2, <1>4, <1>9, <1>10, <3>1, <3>2, <3>3, <3>4, OutcomesStay, Zenon
  <2>4. CASE Head(h) \in Callback
    <3>1. PICK x \in Callback : Awaiting /\ InBuffer(x) /\ (x = "end" => InSession)
      BY <1>6, <1>10, <2>1, <2>4, Whereabouts, Zenon DEF Found
    <3>2. Head(h) = x /\ Quiet(Tail(h)) /\ callbacks = << >>
      BY <1>6, <2>1, <2>4, <3>1, Zenon DEF InBuffer
    <3>3. callbacks' = <<x>>
      <4>1. callbacks' = Append(<< >>, x)
        BY <1>2, <2>4, <3>2, Zenon
      <4> QED
        BY <4>1, SMT
    <3>4. NoRequest({})' /\ NoLine({})' /\ NoBytes({})'
      <4>1. NoRequest({}) /\ NoLine({}) /\ NoBytes({})
        BY <3>1, Zenon DEF InBuffer
      <4>2. NoBytes({})'
        BY <1>4, <2>2, <4>1, Zenon DEF NoBytes
      <4> QED
        BY <1>2, <4>1, <4>2, Zenon DEF NoRequest, NoLine
    <3>5. InCallback(x)'
      BY <1>2, <3>1, <3>2, <3>3, <3>4, Zenon DEF InCallback, InBuffer
    <3>6. Awaiting'
      BY <1>2, <3>1, <3>5, Zenon DEF Awaiting, InSession
    <3> QED
      BY <3>6 DEF Outcomes
  <2> QED
    BY <2>3, <2>4
<1>11. OneOutcome'
  BY <1>1, <1>2, <1>10, Zenon DEF OneOutcome, Outcomes
<1> QED
  BY <1>7, <1>8, <1>11 DEF SessionInv

-----------------------------------------------------------------------------
(***************************************************************************)
(* The steps of the children                                               *)
(***************************************************************************)
\* Only the connection c is changed, and not whether it is open.
Changes(s, c, phase, requests, lines) ==
  /\ s \in Seq(Connection) /\ Len(s) = Len(connections) /\ DOMAIN s = DOMAIN connections
  /\ s[c].phase = phase /\ s[c].requests = requests /\ s[c].lines = lines
  /\ s[c].open = connections[c].open
  /\ \A d \in DOMAIN connections : d # c => s[d] = connections[d]

LEMMA ConnectionChanges ==
  ASSUME SessionTypeOK, NEW c \in DOMAIN connections,
         NEW phase \in {"auth", "registering", "session"}, NEW requests \in Seq({"AUTH", "CREATE_ACCOUNT"}),
         NEW lines \in Seq(Line)
  PROVE  Changes([connections EXCEPT ![c] = [connections[c] EXCEPT !.phase = phase, !.requests = requests, !.lines = lines]],
                 c, phase, requests, lines)
<1> DEFINE e == [connections[c] EXCEPT !.phase = phase, !.requests = requests, !.lines = lines]
<1>1. connections \in Seq(Connection) /\ connections[c] \in Connection
  <2>1. connections \in Seq(Connection)
    BY Zenon DEF SessionTypeOK
  <2> QED
    BY <2>1, SMT
<1>2. /\ e \in Connection /\ e.lines = lines /\ e.requests = requests /\ e.phase = phase
      /\ e.open = connections[c].open
  BY <1>1 DEF Connection
<1> HIDE DEF e
<1> DEFINE s == [connections EXCEPT ![c] = e]
<1>3. /\ s \in Seq(Connection) /\ Len(s) = Len(connections) /\ DOMAIN s = DOMAIN connections
      /\ s[c] = e /\ \A d \in DOMAIN connections : d # c => s[d] = connections[d]
  BY <1>1, <1>2, SMT
<1>4. Changes(s, c, phase, requests, lines)
  <2> HIDE DEF s
  <2> QED
    BY <1>2, <1>3, Zenon DEF Changes
<1> QED
  BY <1>4 DEF e

LEMMA AnswerIs ==
  ASSUME SessionTypeOK, NEW c \in DOMAIN connections, connections[c].requests # << >>,
         NEW a \in Seq(Line)
  PROVE  /\ Changes(Answers(c, a), c, connections[c].phase, Tail(connections[c].requests),
                    connections[c].lines \o a)
         /\ connections[c].phase = "auth" =>
              Changes(Begins(c, a), c, "registering", Tail(connections[c].requests),
                      connections[c].lines \o a)
         /\ connections[c].phase # "auth" =>
              Changes(Begins(c, a), c, connections[c].phase, Tail(connections[c].requests),
                      connections[c].lines \o a)
<1> DEFINE k == connections[c]
<1>1. connections \in Seq(Connection) /\ k \in Connection
  <2>1. connections \in Seq(Connection)
    BY Zenon DEF SessionTypeOK
  <2> QED
    BY <2>1, SMT
<1>2. /\ k.phase \in {"auth", "registering", "session"} /\ k.requests \in Seq({"AUTH", "CREATE_ACCOUNT"})
      /\ k.lines \in Seq(Line)
  BY <1>1, ConnectionIs, Zenon
<1>3. k.lines \o a \in Seq(Line) /\ Tail(k.requests) \in Seq({"AUTH", "CREATE_ACCOUNT"})
  <2> HIDE DEF k, Line
  <2> QED
    BY <1>2, SMT DEF k
<1> DEFINE l == k.lines \o a
           r == Tail(k.requests)
<1>4. Answers(c, a) = [connections EXCEPT ![c] = [k EXCEPT !.phase = k.phase, !.requests = r, !.lines = l]]
  BY <1>1 DEF Answers, Connection
<1>5. k.phase = "auth" =>
        Begins(c, a) = [connections EXCEPT ![c] = [k EXCEPT !.phase = "registering", !.requests = r, !.lines = l]]
  BY <1>1 DEF Begins, Answers, Connection
<1>6. k.phase # "auth" =>
        Begins(c, a) = [connections EXCEPT ![c] = [k EXCEPT !.phase = k.phase, !.requests = r, !.lines = l]]
  BY <1>1 DEF Begins, Answers, Connection
<1>7. \A p \in {"auth", "registering", "session"} :
        Changes([connections EXCEPT ![c] = [k EXCEPT !.phase = p, !.requests = r, !.lines = l]], c, p, r, l)
  <2>1. r \in Seq({"AUTH", "CREATE_ACCOUNT"}) /\ l \in Seq(Line)
    BY <1>3
  <2> HIDE DEF r, l
  <2> QED
    BY <2>1, ConnectionChanges, Zenon
<1>8. "registering" \in {"auth", "registering", "session"}
  OBVIOUS
<1>9. Changes(Answers(c, a), c, k.phase, r, l)
  BY <1>2, <1>4, <1>7, Zenon
<1>10. k.phase = "auth" => Changes(Begins(c, a), c, "registering", r, l)
  BY <1>5, <1>7, <1>8, Zenon
<1>11. k.phase # "auth" => Changes(Begins(c, a), c, k.phase, r, l)
  BY <1>2, <1>6, <1>7, Zenon
<1> QED
  BY <1>9, <1>10, <1>11, Zenon

LEMMA ListenerRests ==
  ASSUME ListenerIsThere, threads' = threads, buf' = buf, socket' = socket, connected' => connected,
         Len(connections') = Len(connections), DOMAIN connections' = DOMAIN connections,
         lost => lost'
  PROVE  ListenerIsThere'
  BY Zenon DEF ListenerIsThere

LEMMA OneTail == ASSUME NEW S, NEW s \in Seq(S), Len(s) = 1 PROVE Tail(s) = << >>
<1> DEFINE t == Tail(s)
<1>1. t \in Seq(S) /\ Len(t) = 0
  BY SMT
<1> HIDE DEF t
<1>2. t = << >>
  BY <1>1, SMT
<1> QED
  BY <1>2 DEF t

\* The answer to the request that awaits one, when it is known how the connection changes.
LEMMA ServedKeeps ==
  ASSUME SessionInv, NEW c \in DOMAIN connections, atender_cliente(c), connections[c].phase = "auth",
         Outcomes, NEW a \in Seq(Line), NEW x \in Callback, Tells(a, x), NEW p \in {"auth", "registering", "session"},
         x = "end" => p = "registering",
         Changes(connections', c, p, Tail(connections[c].requests), connections[c].lines \o a)
  PROVE  Outcomes'
<1>1. /\ connections[c].requests # << >>
      /\ connected' = connected /\ socket' = socket /\ buf' = buf /\ boxes' = boxes /\ lobby' = lobby
      /\ threads' = threads /\ callbacks' = callbacks /\ waiting' = waiting
  BY Zenon DEF atender_cliente, network, controller, history
<1>2. Awaiting /\ c = socket /\ InRequest
  BY <1>1, Whereabouts, Zenon DEF Found
<1>3. /\ Quiet(connections[c].lines) /\ Len(connections[c].requests) = 1
      /\ connections[c].requests \in Seq({"AUTH", "CREATE_ACCOUNT"}) /\ connections[c].lines \in Seq(Line)
  <2>1. connections \in Seq(Connection)
    BY Zenon DEF SessionInv, SessionTypeOK
  <2>2. connections[c] \in Connection
    BY <2>1, SMT
  <2> QED
    BY <1>2, <2>2, ConnectionIs, Zenon DEF InRequest, NoLine
<1> DEFINE l == connections[c].lines
           r == connections[c].requests
<1>4. r = << >> \/ Tail(r) = << >>
  BY <1>3, OneTail, Zenon
<1>5. Tells(connections'[c].lines, x) /\ connections'[c].requests = << >> /\ connections'[c].phase = p
  <2>1. l \in Seq(Line) /\ Quiet(l)
    BY <1>3
  <2>2. connections'[c].lines = l \o a /\ connections'[c].requests = Tail(r) /\ connections'[c].phase = p
    BY Zenon DEF Changes
  <2> HIDE DEF l, r
  <2>3. Tells(l \o a, x)
    BY <2>1, Joined, Zenon
  <2> QED
    BY <1>1, <1>4, <2>2, <2>3, Zenon DEF r
<1> HIDE DEF l, r
<1>6. NoRequest({})' /\ NoLine({socket})' /\ NoBytes({})'
  <2>1. DOMAIN connections' = DOMAIN connections /\ \A d \in DOMAIN connections : d # c => connections'[d] = connections[d]
    BY Zenon DEF Changes
  <2>2. NoRequest({socket}) /\ NoLine({}) /\ NoBytes({})
    BY <1>2, Zenon DEF InRequest
  <2>3. NoRequest({})'
    BY <1>2, <1>5, <2>1, <2>2, Zenon DEF NoRequest
  <2>4. NoLine({socket})'
    BY <1>1, <1>2, <2>1, <2>2, Zenon DEF NoLine
  <2>5. NoBytes({})'
    BY <1>1, <2>2, Zenon DEF NoBytes
  <2> QED
    BY <2>3, <2>4, <2>5
<1>7. InLines(x)'
  BY <1>1, <1>2, <1>5, <1>6, Zenon DEF InLines, InRequest
<1>8. x = "end" => InSession'
  BY <1>1, <1>2, <1>5, Zenon DEF InSession
<1>9. Awaiting'
  BY <1>1, <1>2, <1>7, <1>8, Zenon DEF Awaiting
<1> QED
  BY <1>9 DEF Outcomes

LEMMA AtenderKeeps == ASSUME SessionInv, NEW c \in DOMAIN connections, atender_cliente(c) PROVE SessionInv'
<1>1. SessionTypeOK /\ ListenerIsThere /\ OneOutcome
  BY DEF SessionInv
<1>2. /\ connections[c].requests # << >> /\ connections[c].phase # "registering"
      /\ connections' \in
           IF Head(connections[c].requests) = "AUTH"
           THEN {Answers(c, <<"rejected">>), Begins(c, <<"accepted", "end">>)}
           ELSE {Answers(c, <<"refused">>), Begins(c, <<"registered">>)}
      /\ connected' = connected /\ socket' = socket /\ buf' = buf /\ boxes' = boxes /\ lobby' = lobby
      /\ threads' = threads /\ callbacks' = callbacks /\ waiting' = waiting
      /\ hurried' = hurried /\ races' = races /\ lost' = lost
  BY Zenon DEF atender_cliente, network, controller, history
<1>3. PICK a \in {<<"rejected">>, <<"accepted", "end">>, <<"refused">>, <<"registered">>}, x \in Callback :
        /\ a \in Seq(Line) /\ Tells(a, x)
        /\ (connections' = Answers(c, a) /\ x # "end") \/ connections' = Begins(c, a)
  <2>1. {"rejected", "refused", "end", "registered"} = Callback
    BY DEF Callback
  <2>2. /\ <<"rejected">> \in Seq(Line) /\ Tells(<<"rejected">>, "rejected")
        /\ <<"refused">> \in Seq(Line) /\ Tells(<<"refused">>, "refused")
        /\ <<"registered">> \in Seq(Line) /\ Tells(<<"registered">>, "registered")
        /\ <<"accepted", "end">> \in Seq(Line) /\ Tells(<<"accepted", "end">>, "end")
    BY <2>1, AnswersTell, Zenon
  <2>3. "rejected" # "end" /\ "refused" # "end"
    OBVIOUS
  <2>4. \/ connections' = Answers(c, <<"rejected">>) \/ connections' = Answers(c, <<"refused">>)
        \/ connections' = Begins(c, <<"accepted", "end">>) \/ connections' = Begins(c, <<"registered">>)
    BY <1>2, Zenon
  <2> QED
    BY <2>1, <2>2, <2>3, <2>4, Zenon
<1>4. PICK p \in {"auth", "registering", "session"} :
        /\ Changes(connections', c, p, Tail(connections[c].requests), connections[c].lines \o a)
        /\ connections[c].phase = "auth" => (x = "end" => p = "registering")
  <2>1. connections[c].phase \in {"auth", "registering", "session"}
    <3>1. connections \in Seq(Connection)
      BY <1>1, Zenon DEF SessionTypeOK
    <3>2. connections[c] \in Connection
      BY <3>1, SMT
    <3> QED
      BY <3>2, ConnectionIs, Zenon
  <2>2. CASE connections' = Answers(c, a) /\ x # "end"
    BY <1>1, <1>2, <1>3, <2>1, <2>2, AnswerIs, Zenon
  <2>3. CASE connections' = Begins(c, a) /\ connections[c].phase = "auth"
    BY <1>1, <1>2, <1>3, <2>1, <2>3, AnswerIs, Zenon
  <2>4. CASE connections' = Begins(c, a) /\ connections[c].phase # "auth"
    BY <1>1, <1>2, <1>3, <2>1, <2>4, AnswerIs, Zenon
  <2> QED
    BY <1>2, <1>3, <2>1, <2>2, <2>3, <2>4, Zenon
<1>5. /\ connections' \in Seq(Connection) /\ Len(connections') = Len(connections) /\ DOMAIN connections' = DOMAIN connections
      /\ \A d \in DOMAIN connections : connections'[d].open = connections[d].open
  BY <1>4, Zenon DEF Changes
<1>6. SessionTypeOK'
  BY <1>1, <1>2, <1>5, Zenon DEF SessionTypeOK
<1>7. ListenerIsThere'
  BY <1>1, <1>2, <1>5, ListenerRests, Zenon
<1>8. ASSUME Outcomes PROVE Outcomes'
  <2>1. connections[c].phase = "auth"
    BY <1>2, <1>8, Whereabouts, Zenon DEF Found, InRequest
  <2> QED
    BY <1>3, <1>4, <1>8, <2>1, ServedKeeps, Zenon
<1>9. OneOutcome'
  BY <1>1, <1>2, <1>8, Zenon DEF OneOutcome, Outcomes
<1> QED
  BY <1>6, <1>7, <1>9 DEF SessionInv

LEMMA BeginSessionKeeps == ASSUME SessionInv, NEW c \in DOMAIN connections, begin_session(c) PROVE SessionInv'
<1>1. SessionTypeOK /\ ListenerIsThere /\ OneOutcome
  BY DEF SessionInv
<1>2. PICK others \in {<< >>, <<"online">>} :
        connections' = [connections EXCEPT ![c].phase = "session", ![c].lines = @ \o others]
  BY Zenon DEF begin_session
<1>3. /\ connections[c].phase = "registering"
      /\ connected' = connected /\ socket' = socket /\ buf' = buf /\ boxes' = boxes /\ lobby' = lobby
      /\ threads' = threads /\ callbacks' = callbacks /\ waiting' = waiting
      /\ hurried' = hurried /\ races' = races /\ lost' = lost
  BY Zenon DEF begin_session, network, controller, history
<1>4. connections \in Seq(Connection) /\ connections[c] \in Connection
  <2>1. connections \in Seq(Connection)
    BY <1>1, Zenon DEF SessionTypeOK
  <2> QED
    BY <2>1, SMT
<1>5. others \in Seq(Line) /\ Quiet(others)
  BY AnswersTell, Zenon
<1> DEFINE l == connections[c].lines
           r == connections[c].requests
           m == l \o others
<1>6. l \in Seq(Line) /\ r \in Seq({"AUTH", "CREATE_ACCOUNT"}) /\ m \in Seq(Line)
  <2>1. l \in Seq(Line) /\ r \in Seq({"AUTH", "CREATE_ACCOUNT"})
    BY <1>4, ConnectionIs, Zenon
  <2> HIDE DEF l, Line
  <2> QED
    BY <1>5, <2>1, SMT
<1>7. Changes(connections', c, "session", r, m)
  <2>1. connections' = [connections EXCEPT ![c] = [connections[c] EXCEPT !.phase = "session", !.requests = r, !.lines = m]]
    BY <1>2, <1>4 DEF Connection
  <2>2. "session" \in {"auth", "registering", "session"}
    OBVIOUS
  <2> HIDE DEF l, r, m
  <2> QED
    BY <1>1, <1>6, <2>1, <2>2, ConnectionChanges, Zenon
<1>8. (Quiet(l) => Quiet(m)) /\ \A x \in Callback : Tells(l, x) => Tells(m, x)
  <2>1. "end" \in Callback
    BY DEF Callback
  <2> HIDE DEF l
  <2> QED
    BY <1>5, <1>6, <2>1, Joined, Zenon
<1> HIDE DEF m
<1>9. /\ connections' \in Seq(Connection) /\ Len(connections') = Len(connections) /\ DOMAIN connections' = DOMAIN connections
      /\ \A d \in DOMAIN connections : connections'[d].open = connections[d].open
  BY <1>7, Zenon DEF Changes
<1>10. SessionTypeOK'
  BY <1>1, <1>3, <1>9, Zenon DEF SessionTypeOK
<1>11. ListenerIsThere'
  BY <1>1, <1>3, <1>9, ListenerRests, Zenon
<1>12. connected => socket \in DOMAIN connections
  BY <1>1, SMT DEF SessionTypeOK, ListenerIsThere
<1>13. ASSUME Outcomes PROVE Outcomes'
  <2>1. \A d \in DOMAIN connections :
          /\ connections'[d].requests = connections[d].requests
          /\ Quiet(connections[d].lines) => Quiet(connections'[d].lines)
          /\ \A x \in Callback : Tells(connections[d].lines, x) => Tells(connections'[d].lines, x)
          /\ connections[d].phase \in {"registering", "session"} => connections'[d].phase \in {"registering", "session"}
          /\ connections[d].phase = "auth" => connections'[d].phase = "auth"
    <3> SUFFICES ASSUME NEW d \in DOMAIN connections
                 PROVE  /\ connections'[d].requests = connections[d].requests
                        /\ Quiet(connections[d].lines) => Quiet(connections'[d].lines)
                        /\ \A x \in Callback : Tells(connections[d].lines, x) => Tells(connections'[d].lines, x)
                        /\ connections[d].phase \in {"registering", "session"} => connections'[d].phase \in {"registering", "session"}
                        /\ connections[d].phase = "auth" => connections'[d].phase = "auth"
      OBVIOUS
    <3>1. CASE d # c
      BY <1>7, <3>1, Zenon DEF Changes
    <3>2. CASE d = c
      <4>1. connections'[c].phase = "session" /\ connections'[c].requests = r /\ connections'[c].lines = m
        BY <1>7, Zenon DEF Changes
      <4>2. "registering" # "auth"
        OBVIOUS
      <4> QED
        BY <1>3, <1>8, <3>2, <4>1, <4>2, Zenon
    <3> QED
      BY <3>1, <3>2
  <2>2. \A t \in DOMAIN threads :
          /\ threads'[t].at = "add" /\ (threads[t].at = "add" => Quiet(threads[t].got)) => Quiet(threads'[t].got)
          /\ \A x \in Callback : threads[t].at = "add" /\ Tells(threads[t].got, x) =>
               threads'[t].at = "add" /\ Tells(threads'[t].got, x)
    BY <1>3, Zenon
  <2> QED
    BY <1>3, <1>9, <1>12, <1>13, <2>1, <2>2, OutcomesStay, Zenon
<1>14. OneOutcome'
  BY <1>1, <1>3, <1>13, Zenon DEF OneOutcome, Outcomes
<1> QED
  BY <1>10, <1>11, <1>14 DEF SessionInv

\* A stop takes nothing away of what the child has sent.
LEMMA StopKeeps == ASSUME SessionInv, NEW c \in DOMAIN connections, Stop(c) PROVE SessionInv'
<1> DEFINE e == [connections[c] EXCEPT !.open = FALSE]
<1>1. SessionTypeOK /\ ListenerIsThere /\ OneOutcome
  BY DEF SessionInv
<1>2. /\ connections' = [connections EXCEPT ![c] = e]
      /\ connected' = connected /\ socket' = socket /\ buf' = buf /\ boxes' = boxes /\ lobby' = lobby
      /\ threads' = threads /\ callbacks' = callbacks /\ waiting' = waiting
      /\ hurried' = hurried /\ races' = races /\ lost' = lost
  BY Zenon DEF Stop, network, controller
<1>3. connections \in Seq(Connection) /\ connections[c] \in Connection
  <2>1. connections \in Seq(Connection)
    BY <1>1, Zenon DEF SessionTypeOK
  <2> QED
    BY <2>1, SMT
<1>4. /\ e \in Connection /\ e.lines = connections[c].lines /\ e.requests = connections[c].requests
      /\ e.phase = connections[c].phase
  BY <1>3 DEF Connection
<1> HIDE DEF e
<1>5. /\ connections' \in Seq(Connection) /\ Len(connections') = Len(connections) /\ DOMAIN connections' = DOMAIN connections
      /\ connections'[c] = e /\ \A d \in DOMAIN connections : d # c => connections'[d] = connections[d]
  BY <1>2, <1>3, <1>4, SMT
<1>6. \A d \in DOMAIN connections :
        /\ connections'[d].requests = connections[d].requests
        /\ connections'[d].lines = connections[d].lines
        /\ connections'[d].phase = connections[d].phase
  BY <1>4, <1>5, Zenon
<1>7. SessionTypeOK'
  BY <1>1, <1>2, <1>5, Zenon DEF SessionTypeOK
<1>8. ListenerIsThere'
  BY <1>1, <1>2, <1>5, ListenerRests, Zenon
<1>9. connected => socket \in DOMAIN connections
  BY <1>1, SMT DEF SessionTypeOK, ListenerIsThere
<1>10. ASSUME Outcomes PROVE Outcomes'
  BY <1>2, <1>5, <1>6, <1>9, <1>10, OutcomesStay, Zenon
<1>11. OneOutcome'
  BY <1>1, <1>2, <1>10, Zenon DEF OneOutcome, Outcomes
<1> QED
  BY <1>7, <1>8, <1>11 DEF SessionInv

\* An answer without its last line.
LEMMA CutAnswerKeeps == ASSUME SessionInv, NEW c \in DOMAIN connections, CutAnswer(c) PROVE SessionInv'
<1>1. SessionTypeOK /\ ListenerIsThere
  BY DEF SessionInv
<1>2. /\ connections[c].requests # << >> /\ connections' = Begins(c, <<"accepted">>) /\ lost' = TRUE
      /\ connected' = connected /\ socket' = socket /\ buf' = buf /\ boxes' = boxes /\ lobby' = lobby
      /\ threads' = threads /\ callbacks' = callbacks
      /\ hurried' = hurried /\ races' = races
  BY Zenon DEF CutAnswer, Loses, network, controller
<1>3. <<"accepted">> \in Seq(Line)
  BY SMT DEF Line
<1>4. \E p : Changes(connections', c, p, Tail(connections[c].requests), connections[c].lines \o <<"accepted">>)
  BY <1>1, <1>2, <1>3, AnswerIs, Zenon
<1>5. connections' \in Seq(Connection) /\ Len(connections') = Len(connections) /\ DOMAIN connections' = DOMAIN connections
  BY <1>4, Zenon DEF Changes
<1>6. SessionTypeOK'
  <2>1. lost' \in BOOLEAN
    BY <1>2, Zenon
  <2> QED
    BY <1>1, <1>2, <1>5, <2>1, Zenon DEF SessionTypeOK
<1>7. ListenerIsThere'
  BY <1>1, <1>2, <1>5, ListenerRests, Zenon
<1>8. OneOutcome'
  BY <1>2, Zenon DEF OneOutcome
<1> QED
  BY <1>6, <1>7, <1>8 DEF SessionInv

-----------------------------------------------------------------------------
(***************************************************************************)
(* The steps of the user                                                   *)
(***************************************************************************)
\* Only a user who has neither an answer to wait for nor a lobby does not hurry.
LEMMA CalmUsersAreIdle ==
  ASSUME Outcomes, ~(waiting > 0 \/ lobby)
  PROVE  Idle
<1>1. ~Inside
  BY Zenon DEF Inside
<1>2. ~Awaiting
  <2>1. waiting = 1 => waiting > 0
    BY SMT
  <2> QED
    BY <2>1, Zenon DEF Awaiting
<1> QED
  BY <1>1, <1>2 DEF Outcomes

\* Who neither hurried before nor hurries now had no request to wait for.
LEMMA CalmBefore ==
  ASSUME SessionTypeOK, OneOutcome, hurried' = (hurried \/ waiting > 0 \/ lobby), races' = races, lost' = lost
  PROVE  hurried' \in BOOLEAN /\ (~hurried' /\ ~races' /\ ~lost' => Idle)
<1>1. hurried \in BOOLEAN /\ lobby \in BOOLEAN /\ races \in BOOLEAN /\ lost \in BOOLEAN
  BY Zenon DEF SessionTypeOK
<1>2. hurried' \in BOOLEAN
  BY SMT
<1>3. ASSUME ~hurried', ~races', ~lost' PROVE Idle
  <2>1. ~hurried /\ ~(waiting > 0 \/ lobby)
    <3>1. ~hurried
      BY <1>1, <1>3, SMT
    <3>2. ASSUME waiting > 0 \/ lobby PROVE FALSE
      <4>1. (hurried \/ waiting > 0 \/ lobby) = TRUE
        BY <3>2, Zenon
      <4> QED
        BY <1>3, <4>1, Zenon
    <3> QED
      BY <3>1, <3>2, Zenon
  <2>2. ~races /\ ~lost
    BY <1>1, <1>3, SMT
  <2>3. Outcomes
    BY <2>1, <2>2, Zenon DEF OneOutcome, Outcomes
  <2> QED
    BY <2>1, <2>3, CalmUsersAreIdle, Zenon
<1> QED
  BY <1>2, <1>3

LEMMA NewConnection ==
  ASSUME SessionTypeOK, Len(threads) = Len(connections), NEW request \in {"AUTH", "CREATE_ACCOUNT"},
         connect(request)
  PROVE  /\ connected' = TRUE /\ socket' = Len(connections) + 1 /\ socket' \in Nat /\ socket' # 0
         /\ connections' \in Seq(Connection) /\ Len(connections') = socket'
         /\ threads' \in Seq(Thread) /\ Len(threads') = socket'
         /\ socket' \in DOMAIN connections' /\ socket' \in DOMAIN threads'
         /\ \A d \in DOMAIN connections : d \in DOMAIN connections' /\ connections'[d] = connections[d]
         /\ \A d \in DOMAIN connections' : d = socket' \/ d \in DOMAIN connections
         /\ \A t \in DOMAIN threads : t \in DOMAIN threads' /\ threads'[t] = threads[t]
         /\ \A t \in DOMAIN threads' : t = socket' \/ t \in DOMAIN threads
         /\ connections'[socket'].phase = "auth" /\ Len(connections'[socket'].requests) = 1
         /\ connections'[socket'].lines = << >> /\ connections'[socket'].open
         /\ threads'[socket'].at = "check"
<1> DEFINE e == [Opened EXCEPT !.requests = <<request>>]
<1>1. /\ connected' = TRUE /\ socket' = Len(connections) + 1
      /\ connections' = Append(connections, e) /\ threads' = Append(threads, Listening)
  BY Zenon DEF connect
<1>2. connections \in Seq(Connection) /\ threads \in Seq(Thread)
  BY Zenon DEF SessionTypeOK
<1>3. e \in Connection /\ e.phase = "auth" /\ e.requests = <<request>> /\ e.lines = << >> /\ e.open
  <2>1. << >> \in Seq(Line) /\ <<request>> \in Seq({"AUTH", "CREATE_ACCOUNT"})
    OBVIOUS
  <2> DEFINE r == <<request>>
             k == [Opened EXCEPT !.requests = r]
             P == {"auth", "registering", "session"}
             R == Seq({"AUTH", "CREATE_ACCOUNT"})
             L == Seq(Line)
  <2>2. Opened \in [phase : P, requests : R, lines : L, open : BOOLEAN]
    BY <2>1 DEF Opened
  <2>3. Opened.phase = "auth" /\ Opened.lines = << >> /\ Opened.open /\ "auth" \in P
    BY DEF Opened
  <2> HIDE DEF P, R, L, r
  <2>4. /\ k \in [phase : P, requests : R, lines : L, open : BOOLEAN]
        /\ k.phase = "auth" /\ k.requests = r /\ k.lines = << >> /\ k.open
    <3>1. r \in R
      BY <2>1 DEF r, R
    <3> QED
      BY <2>2, <2>3, <3>1
  <2> QED
    BY <2>4, Zenon DEF Connection, P, R, L, r
<1>4. Len(<<request>>) = 1
  BY SMT
<1>5. Listening \in Thread /\ Listening.at = "check"
  BY ThreadsAre, Zenon
<1> HIDE DEF e
<1>6. /\ connections' \in Seq(Connection) /\ Len(connections') = Len(connections) + 1
      /\ connections'[Len(connections) + 1] = e /\ Len(connections) + 1 \in DOMAIN connections'
      /\ \A d \in DOMAIN connections : d \in DOMAIN connections' /\ connections'[d] = connections[d]
      /\ \A d \in DOMAIN connections' : d = Len(connections) + 1 \/ d \in DOMAIN connections
      /\ Len(connections) + 1 \in Nat /\ Len(connections) + 1 # 0
  BY <1>1, <1>2, <1>3, SMT
<1>7. /\ threads' \in Seq(Thread) /\ Len(threads') = Len(threads) + 1
      /\ threads'[Len(threads) + 1] = Listening /\ Len(threads) + 1 \in DOMAIN threads'
      /\ \A t \in DOMAIN threads : t \in DOMAIN threads' /\ threads'[t] = threads[t]
      /\ \A t \in DOMAIN threads' : t = Len(threads) + 1 \/ t \in DOMAIN threads
  BY <1>1, <1>2, <1>5, SMT
<1> QED
  BY <1>1, <1>3, <1>4, <1>5, <1>6, <1>7, Zenon

LEMMA ConnectKeeps ==
  ASSUME SessionInv, NEW request \in {"AUTH", "CREATE_ACCOUNT"}, connect(request),
         hurried' = (hurried \/ waiting > 0 \/ lobby), waiting' = waiting + 1,
         UNCHANGED <<buf, controller, callbacks, races, lost>>
  PROVE  SessionInv'
<1>1. SessionTypeOK /\ ListenerIsThere /\ OneOutcome
  BY DEF SessionInv
<1>2. /\ buf' = buf /\ boxes' = boxes /\ lobby' = lobby /\ callbacks' = callbacks
      /\ races' = races /\ lost' = lost
  BY Zenon DEF controller
<1>3. Len(threads) = Len(connections)
  BY <1>1, Zenon DEF ListenerIsThere
<1>4. /\ connected' = TRUE /\ socket' = Len(connections) + 1 /\ socket' \in Nat /\ socket' # 0
      /\ connections' \in Seq(Connection) /\ Len(connections') = socket'
      /\ threads' \in Seq(Thread) /\ Len(threads') = socket'
      /\ socket' \in DOMAIN connections' /\ socket' \in DOMAIN threads'
      /\ \A d \in DOMAIN connections : d \in DOMAIN connections' /\ connections'[d] = connections[d]
      /\ \A d \in DOMAIN connections' : d = socket' \/ d \in DOMAIN connections
      /\ \A t \in DOMAIN threads : t \in DOMAIN threads' /\ threads'[t] = threads[t]
      /\ \A t \in DOMAIN threads' : t = socket' \/ t \in DOMAIN threads
      /\ connections'[socket'].phase = "auth" /\ Len(connections'[socket'].requests) = 1
      /\ connections'[socket'].lines = << >> /\ connections'[socket'].open
      /\ threads'[socket'].at = "check"
  BY <1>1, <1>3, NewConnection, Zenon
<1>5. SessionTypeOK'
  <2>1. hurried' \in BOOLEAN
    BY <1>1, <1>2, CalmBefore, Zenon
  <2> QED
    BY <1>1, <1>2, <1>4, <2>1, Zenon DEF SessionTypeOK
<1>6. ListenerIsThere'
  <2>1. "check" \notin {"recv", "add", "dispatch", "done"}
    OBVIOUS
  <2>2. socket' <= socket'
    BY <1>4, SMT
  <2>3. \A t \in DOMAIN threads' :
          /\ threads'[t].at \in {"recv", "add"} => threads'[t].on = 0 \/ threads'[t].on \in DOMAIN connections'
          /\ threads'[t].at = "dispatch" => threads'[t].held # << >>
          /\ threads'[t].at = "add" => threads'[t].got # << >>
    BY <1>1, <1>4, <2>1, Zenon DEF ListenerIsThere
  <2>4. threads'[socket'].at # "done" /\ threads'[socket'].at # "recv"
    BY <1>4, <2>1, Zenon
  <2>5. ~lost' /\ buf' # << >> => \E t \in DOMAIN threads' : threads'[t].at \in {"split", "dispatch"}
    <3> SUFFICES ASSUME ~lost', buf' # << >> PROVE \E t \in DOMAIN threads' : threads'[t].at \in {"split", "dispatch"}
      OBVIOUS
    <3>1. ~lost /\ buf # << >>
      BY <1>2
    <3>2. PICK t \in DOMAIN threads : threads[t].at \in {"split", "dispatch"}
      BY <1>1, <3>1 DEF ListenerIsThere
    <3>3. t \in DOMAIN threads' /\ threads'[t] = threads[t]
      BY <1>4, Zenon
    <3> QED
      BY <3>2, <3>3, Zenon
  <2> QED
    BY <1>4, <2>2, <2>3, <2>4, <2>5, Zenon DEF ListenerIsThere
<1>7. ASSUME ~hurried', ~races', ~lost' PROVE Outcomes'
  <2>1. Idle
    BY <1>1, <1>2, <1>7, CalmBefore, Zenon
  <2>2. /\ ~lobby /\ waiting = 0 /\ callbacks = << >> /\ boxes = 0 /\ Quiet(buf)
        /\ NoRequest({}) /\ NoLine({}) /\ NoBytes({})
    BY <2>1, Zenon DEF Idle
  <2>3. waiting' = 1
    BY <2>2, SMT
  <2>4. NoRequest({socket})'
    BY <1>4, <2>2, Zenon DEF NoRequest
  <2>5. NoLine({})'
    BY <1>4, <2>2, AnswersTell, Zenon DEF NoLine
  <2>6. NoBytes({})'
    <3>1. "check" # "add"
      OBVIOUS
    <3> QED
      BY <1>4, <2>2, <3>1, Zenon DEF NoBytes
  <2>7. InRequest'
    BY <1>2, <1>4, <2>2, <2>4, <2>5, <2>6, Zenon DEF InRequest
  <2>8. Awaiting'
    BY <1>2, <1>4, <2>2, <2>3, <2>7, Zenon DEF Awaiting
  <2> QED
    BY <2>8 DEF Outcomes
<1>8. OneOutcome'
  BY <1>7, Zenon DEF OneOutcome, Outcomes
<1> QED
  BY <1>5, <1>6, <1>8 DEF SessionInv

LEMMA NotReachedKeeps ==
  ASSUME SessionInv, connectFails, hurried' = (hurried \/ waiting > 0 \/ lobby), UNCHANGED waiting,
         UNCHANGED <<buf, controller, callbacks, races, lost>>
  PROVE  SessionInv'
<1>1. SessionTypeOK /\ ListenerIsThere /\ OneOutcome
  BY DEF SessionInv
<1>2. /\ socket' \in {socket, 0} /\ connected' = FALSE /\ connections' = connections /\ threads' = threads
      /\ buf' = buf /\ boxes' = boxes /\ lobby' = lobby /\ callbacks' = callbacks
      /\ races' = races /\ lost' = lost /\ waiting' = waiting
  BY Zenon DEF controller, connectFails
<1>3. SessionTypeOK'
  <2>1. hurried' \in BOOLEAN /\ connected' \in BOOLEAN
    BY <1>1, <1>2, CalmBefore, Zenon
  <2>2. socket' \in Nat
    BY <1>1, <1>2, SMT DEF SessionTypeOK
  <2> QED
    BY <1>1, <1>2, <2>1, <2>2, Zenon DEF SessionTypeOK
<1>4. ListenerIsThere'
  <2>1. socket' <= Len(connections)
    <3>1. connections \in Seq(Connection) /\ socket <= Len(connections)
      BY <1>1, Zenon DEF SessionTypeOK, ListenerIsThere
    <3> QED
      BY <1>2, <3>1, SMT
  <2>2. ~connected'
    BY <1>2
  <2>3. ~lost' /\ buf' # << >> => \E t \in DOMAIN threads' : threads'[t].at \in {"split", "dispatch"}
    BY <1>1, <1>2 DEF ListenerIsThere
  <2> QED
    BY <1>1, <1>2, <2>1, <2>2, <2>3, Zenon DEF ListenerIsThere
<1>5. ASSUME ~hurried', ~races', ~lost' PROVE Outcomes'
  <2>1. Idle
    BY <1>1, <1>2, <1>5, CalmBefore, Zenon
  <2>2. Idle'
    BY <1>2, <2>1, Zenon DEF Idle, NoRequest, NoLine, NoBytes
  <2> QED
    BY <2>2 DEF Outcomes
<1>6. OneOutcome'
  BY <1>5, Zenon DEF OneOutcome, Outcomes
<1> QED
  BY <1>3, <1>4, <1>6 DEF SessionInv

\* A request on a connection with another one: only a user in a hurry makes one.
LEMMA SecondRequestKeeps ==
  ASSUME SessionInv, connected, NEW request \in {"AUTH", "CREATE_ACCOUNT"},
         connections' = [connections EXCEPT ![socket].requests = Append(@, request)],
         UNCHANGED <<socket, connected, threads>>,
         hurried' = (hurried \/ waiting > 0 \/ lobby),
         UNCHANGED <<buf, controller, callbacks, races, lost>>
  PROVE  SessionInv'
<1>1. SessionTypeOK /\ ListenerIsThere /\ OneOutcome
  BY DEF SessionInv
<1>2. /\ socket' = socket /\ connected' = connected /\ threads' = threads
      /\ buf' = buf /\ boxes' = boxes /\ lobby' = lobby /\ callbacks' = callbacks
      /\ races' = races /\ lost' = lost
  BY Zenon DEF controller
<1>3. socket \in DOMAIN connections
  BY <1>1, SMT DEF SessionTypeOK, ListenerIsThere
<1>4. /\ connections' \in Seq(Connection) /\ Len(connections') = Len(connections) /\ DOMAIN connections' = DOMAIN connections
      /\ \A d \in DOMAIN connections : connections'[d].open = connections[d].open
  <2> DEFINE k == connections[socket]
             r == Append(k.requests, request)
             p == k.phase
             l == k.lines
  <2>1. connections \in Seq(Connection)
    BY <1>1, Zenon DEF SessionTypeOK
  <2>2. k \in Connection
    BY <1>3, <2>1, SMT
  <2>3. p \in {"auth", "registering", "session"} /\ r \in Seq({"AUTH", "CREATE_ACCOUNT"}) /\ l \in Seq(Line)
    <3>1. k.requests \in Seq({"AUTH", "CREATE_ACCOUNT"})
      BY <2>2, ConnectionIs, Zenon
    <3>2. r \in Seq({"AUTH", "CREATE_ACCOUNT"})
      BY <3>1, SMT
    <3> QED
      BY <2>2, <3>2, ConnectionIs, Zenon
  <2>4. connections' = [connections EXCEPT ![socket] = [connections[socket] EXCEPT !.phase = p, !.requests = r, !.lines = l]]
    BY <2>2 DEF Connection
  <2> HIDE DEF p, r, l
  <2>5. Changes([connections EXCEPT ![socket] = [connections[socket] EXCEPT !.phase = p, !.requests = r, !.lines = l]],
                socket, p, r, l)
    BY <1>1, <1>3, <2>3, ConnectionChanges, Zenon
  <2>6. Changes(connections', socket, p, r, l)
    BY <2>4, <2>5
  <2> QED
    BY <2>6, Zenon DEF Changes
<1>5. SessionTypeOK'
  <2>1. hurried' \in BOOLEAN
    BY <1>1, <1>2, CalmBefore, Zenon
  <2> QED
    BY <1>1, <1>2, <1>4, <2>1, Zenon DEF SessionTypeOK
<1>6. ListenerIsThere'
  <2>1. Len(connections') = Len(connections) /\ DOMAIN connections' = DOMAIN connections
    BY <1>4
  <2>2. ListenerIsThere
    BY <1>1
  <2> QED
    BY <1>2, <2>1, <2>2, ListenerRests
<1>7. ASSUME ~hurried', ~races', ~lost' PROVE FALSE
  <2>1. Idle
    BY <1>1, <1>2, <1>7, CalmBefore, Zenon
  <2> QED
    BY <2>1, Zenon DEF Idle
<1>8. OneOutcome'
  BY <1>7, Zenon DEF OneOutcome
<1> QED
  BY <1>5, <1>6, <1>8 DEF SessionInv

\* The same on a connection that turns out to be closed.
LEMMA ClosedRequestKeeps ==
  ASSUME SessionInv, connected, connected' = FALSE, UNCHANGED <<socket, connections, threads>>,
         hurried' = (hurried \/ waiting > 0 \/ lobby),
         UNCHANGED <<buf, controller, callbacks, races, lost>>
  PROVE  SessionInv'
<1>1. SessionTypeOK /\ ListenerIsThere /\ OneOutcome
  BY DEF SessionInv
<1>2. /\ socket' = socket /\ threads' = threads /\ connections' = connections
      /\ buf' = buf /\ boxes' = boxes /\ lobby' = lobby /\ callbacks' = callbacks
      /\ races' = races /\ lost' = lost
  BY Zenon DEF controller
<1>3. SessionTypeOK'
  <2>1. hurried' \in BOOLEAN /\ connected' \in BOOLEAN
    BY <1>1, <1>2, CalmBefore, Zenon
  <2> QED
    BY <1>1, <1>2, <2>1, Zenon DEF SessionTypeOK
<1>4. ListenerIsThere'
  <2>1. /\ ListenerIsThere /\ (connected' => connected) /\ (lost => lost')
        /\ Len(connections') = Len(connections) /\ DOMAIN connections' = DOMAIN connections
    BY <1>1, <1>2
  <2> QED
    BY <1>2, <2>1, ListenerRests
<1>5. ASSUME ~hurried', ~races', ~lost' PROVE FALSE
  <2>1. Idle
    BY <1>1, <1>2, <1>5, CalmBefore, Zenon
  <2> QED
    BY <2>1, Zenon DEF Idle
<1>6. OneOutcome'
  BY <1>5, Zenon DEF OneOutcome
<1> QED
  BY <1>3, <1>4, <1>6 DEF SessionInv

LEMMA AttemptKeeps ==
  ASSUME SessionInv, NEW request \in {"AUTH", "CREATE_ACCOUNT"}, Attempt(request)
  PROVE  SessionInv'
<1>1. /\ hurried' = (hurried \/ waiting > 0 \/ lobby)
      /\ UNCHANGED <<buf, controller, callbacks, races, lost>>
      /\ \/ _send(request) /\ waiting' = waiting + 1
         \/ ~connected /\ connectFails /\ UNCHANGED waiting
  BY Zenon DEF Attempt
<1>2. CASE /\ connected
            /\ connections' = [connections EXCEPT ![socket].requests = Append(@, request)]
            /\ UNCHANGED <<socket, connected, threads>>
  BY <1>1, <1>2, SecondRequestKeeps, Zenon
<1>3. CASE /\ connected /\ connected' = FALSE
            /\ UNCHANGED <<socket, connections, threads>>
  BY <1>1, <1>3, ClosedRequestKeeps, Zenon
<1>4. CASE connect(request) /\ waiting' = waiting + 1
  BY <1>1, <1>4, ConnectKeeps, Zenon
<1>5. CASE connectFails /\ UNCHANGED waiting
  BY <1>1, <1>5, NotReachedKeeps, Zenon
<1> QED
  BY <1>1, <1>2, <1>3, <1>4, <1>5, Zenon DEF _send

LEMMA SwitchKeeps == ASSUME SessionInv, Switch PROVE SessionInv'
<1>1. /\ connected' = connected /\ socket' = socket /\ buf' = buf /\ boxes' = boxes /\ lobby' = lobby
      /\ threads' = threads /\ callbacks' = callbacks /\ connections' = connections
      /\ waiting' = waiting /\ hurried' = hurried /\ races' = races /\ lost' = lost
  BY Zenon DEF Switch, network, history
<1>2. SessionTypeOK' /\ ListenerIsThere'
  BY <1>1, Zenon DEF SessionInv, SessionTypeOK, ListenerIsThere
<1>3. ASSUME Outcomes PROVE Outcomes'
  BY <1>1, <1>3, Zenon DEF Outcomes, Idle, Inside, Awaiting, InSession, InRequest, InLines, InBytes, InBuffer,
                           InCallback, InBox, NoRequest, NoLine, NoBytes
<1>4. OneOutcome'
  BY <1>1, <1>3, Zenon DEF SessionInv, OneOutcome, Outcomes
<1> QED
  BY <1>2, <1>4 DEF SessionInv

LEMMA RunCallbackKeeps == ASSUME SessionInv, RunCallback PROVE SessionInv'
<1>1. SessionTypeOK /\ ListenerIsThere /\ OneOutcome
  BY DEF SessionInv
<1>2. /\ callbacks # << >> /\ callbacks' = Tail(callbacks)
      /\ socket' = socket /\ buf' = buf /\ threads' = threads /\ connections' = connections
      /\ hurried' = hurried /\ races' = races /\ lost' = lost
  BY Zenon DEF RunCallback
<1>3. callbacks \in Seq(Callback)
  BY <1>1, Zenon DEF SessionTypeOK
<1>4. Head(callbacks) \in Callback /\ callbacks' \in Seq(Callback)
  BY <1>2, <1>3, SMT
<1>5. \/ /\ Head(callbacks) \in {"rejected", "refused"}
         /\ connected' = FALSE /\ waiting' = waiting - 1 /\ boxes' = boxes /\ lobby' = lobby
      \/ /\ Head(callbacks) = "end"
         /\ lobby' = TRUE /\ waiting' = waiting - 1 /\ connected' = connected /\ boxes' = boxes
      \/ /\ Head(callbacks) = "registered"
         /\ boxes' = boxes + 1 /\ connected' = connected /\ lobby' = lobby /\ waiting' = waiting
  BY Zenon DEF RunCallback, Reject, _try_open_lobby, Outcome, controller
<1>6. SessionTypeOK'
  <2>1. boxes' \in Nat
    <3>1. boxes \in Nat
      BY <1>1, Zenon DEF SessionTypeOK
    <3> QED
      BY <1>5, <3>1, SMT
  <2>2. lobby' \in BOOLEAN /\ connected' \in BOOLEAN
    <3>1. TRUE \in BOOLEAN /\ FALSE \in BOOLEAN
      OBVIOUS
    <3> QED
      BY <1>1, <1>5, <3>1, Zenon DEF SessionTypeOK
  <2> QED
    BY <1>1, <1>2, <1>4, <2>1, <2>2, Zenon DEF SessionTypeOK
<1>7. ListenerIsThere'
  <2>1. connected' => connected
    BY <1>5, Zenon
  <2> QED
    BY <1>1, <1>2, <2>1, ListenerRests, Zenon
<1>8. ASSUME Outcomes PROVE Outcomes'
  <2>1. PICK x \in Callback : Awaiting /\ InCallback(x) /\ (x = "end" => InSession)
    BY <1>2, <1>8, Whereabouts, Zenon DEF Found
  <2>2. connected /\ ~lobby /\ waiting = 1 /\ callbacks = <<x>> /\ boxes = 0 /\ Quiet(buf)
    BY <2>1, Zenon DEF Awaiting, InCallback
  <2>3. Head(callbacks) = x /\ callbacks' = << >>
    BY <1>2, <2>2, SMT
  <2>4. NoRequest({})' /\ NoLine({})' /\ NoBytes({})'
    BY <1>2, <2>1, Zenon DEF InCallback, NoRequest, NoLine, NoBytes
  <2>5. waiting' = waiting - 1 => waiting' = 0
    BY <2>2, SMT
  <2>6. CASE connected' = FALSE /\ waiting' = waiting - 1 /\ boxes' = boxes /\ lobby' = lobby
    <3>1. Idle'
      BY <1>2, <2>2, <2>3, <2>4, <2>5, <2>6, Zenon DEF Idle
    <3> QED
      BY <3>1 DEF Outcomes
  <2>7. CASE x = "end" /\ lobby' = TRUE /\ waiting' = waiting - 1 /\ connected' = connected /\ boxes' = boxes
    <3>1. InSession'
      BY <1>2, <2>1, <2>7, Zenon DEF InSession
    <3>2. Inside'
      BY <1>2, <2>2, <2>3, <2>4, <2>5, <2>7, <3>1, Zenon DEF Inside
    <3> QED
      BY <3>2 DEF Outcomes
  <2>8. CASE boxes' = boxes + 1 /\ connected' = connected /\ lobby' = lobby /\ waiting' = waiting
    <3>1. boxes' = 1
      BY <2>2, <2>8, SMT
    <3>2. InBox'
      BY <1>2, <2>2, <2>3, <2>4, <3>1, Zenon DEF InBox
    <3>3. Awaiting'
      BY <2>2, <2>8, <3>2, Zenon DEF Awaiting
    <3> QED
      BY <3>3 DEF Outcomes
  <2> QED
    BY <1>5, <2>3, <2>6, <2>7, <2>8, Zenon
<1>9. OneOutcome'
  BY <1>1, <1>2, <1>8, Zenon DEF OneOutcome, Outcomes
<1> QED
  BY <1>6, <1>7, <1>9 DEF SessionInv

LEMMA DismissKeeps == ASSUME SessionInv, Dismiss PROVE SessionInv'
<1>1. SessionTypeOK /\ ListenerIsThere /\ OneOutcome
  BY DEF SessionInv
<1>2. /\ boxes > 0 /\ boxes' = boxes - 1 /\ connected' = FALSE /\ waiting' = waiting - 1
      /\ socket' = socket /\ buf' = buf /\ threads' = threads /\ connections' = connections
      /\ callbacks' = callbacks /\ lobby' = lobby
      /\ hurried' = hurried /\ races' = races /\ lost' = lost
  BY Zenon DEF Dismiss, Outcome
<1>3. boxes' \in Nat /\ boxes # 0
  BY <1>1, <1>2, SMT DEF SessionTypeOK
<1>4. SessionTypeOK'
  <2>1. connected' \in BOOLEAN
    BY <1>2, Zenon
  <2> QED
    BY <1>1, <1>2, <1>3, <2>1, Zenon DEF SessionTypeOK
<1>5. ListenerIsThere'
  BY <1>1, <1>2, ListenerRests, Zenon
<1>6. ASSUME Outcomes PROVE Outcomes'
  <2>1. Awaiting /\ InBox
    BY <1>3, <1>6, Whereabouts, Zenon DEF Found
  <2>2. ~lobby /\ waiting = 1 /\ boxes = 1 /\ callbacks = << >> /\ Quiet(buf)
    BY <2>1, Zenon DEF Awaiting, InBox
  <2>3. boxes' = 0 /\ waiting' = 0
    BY <1>2, <2>2, SMT
  <2>4. NoRequest({})' /\ NoLine({})' /\ NoBytes({})'
    BY <1>2, <2>1, Zenon DEF InBox, NoRequest, NoLine, NoBytes
  <2>5. Idle'
    BY <1>2, <2>2, <2>3, <2>4, Zenon DEF Idle
  <2> QED
    BY <2>5 DEF Outcomes
<1>7. OneOutcome'
  BY <1>1, <1>2, <1>6, Zenon DEF OneOutcome, Outcomes
<1> QED
  BY <1>4, <1>5, <1>7 DEF SessionInv

-----------------------------------------------------------------------------
(***************************************************************************)
(* The invariant of the session, and what follows from it                  *)
(***************************************************************************)

LEMMA SessionStarts == SessionInit => SessionInv
<1> SUFFICES ASSUME SessionInit PROVE SessionInv
  OBVIOUS
<1>1. /\ connected = FALSE /\ socket = 0 /\ buf = << >> /\ boxes = 0 /\ lobby = FALSE
      /\ threads = << >> /\ callbacks = << >> /\ connections = << >>
      /\ waiting = 0 /\ hurried = FALSE /\ races = FALSE /\ lost = FALSE
  BY Zenon DEF SessionInit
<1>2. /\ Len(<< >>) = 0 /\ DOMAIN << >> = {} /\ 0 \in Nat /\ 0 <= 0 /\ FALSE \in BOOLEAN
      /\ \A S : << >> \in Seq(S)
  OBVIOUS
<1>3. SessionTypeOK
  BY <1>1, <1>2, Zenon DEF SessionTypeOK
<1>4. ListenerIsThere
  BY <1>1, <1>2, Zenon DEF ListenerIsThere
<1>5. Idle
  BY <1>1, <1>2, Zenon DEF Idle, NoRequest, NoLine, NoBytes, Quiet
<1>6. OneOutcome
  BY <1>5 DEF OneOutcome
<1> QED
  BY <1>3, <1>4, <1>6 DEF SessionInv

LEMMA SessionRests == ASSUME SessionInv, UNCHANGED sessionVars PROVE SessionInv'
<1>1. /\ connected' = connected /\ socket' = socket /\ buf' = buf /\ boxes' = boxes /\ lobby' = lobby
      /\ threads' = threads /\ callbacks' = callbacks /\ connections' = connections
      /\ waiting' = waiting /\ hurried' = hurried /\ races' = races /\ lost' = lost
  BY Zenon DEF sessionVars, network, controller, history
<1>2. SessionTypeOK' /\ ListenerIsThere'
  BY <1>1, Zenon DEF SessionInv, SessionTypeOK, ListenerIsThere
<1>3. ASSUME Outcomes PROVE Outcomes'
  BY <1>1, <1>3, Zenon DEF Outcomes, Idle, Inside, Awaiting, InSession, InRequest, InLines, InBytes, InBuffer,
                           InCallback, InBox, NoRequest, NoLine, NoBytes
<1>4. OneOutcome'
  BY <1>1, <1>3, Zenon DEF SessionInv, OneOutcome, Outcomes
<1> QED
  BY <1>2, <1>4 DEF SessionInv

LEMMA SessionGoesOn == SessionInv /\ [SessionNext]_sessionVars => SessionInv'
<1> SUFFICES ASSUME SessionInv, [SessionNext]_sessionVars PROVE SessionInv'
  OBVIOUS
<1>1. CASE handle_login \/ handle_register
  <2>1. "AUTH" \in {"AUTH", "CREATE_ACCOUNT"} /\ "CREATE_ACCOUNT" \in {"AUTH", "CREATE_ACCOUNT"}
    OBVIOUS
  <2> QED
    BY <1>1, <2>1, AttemptKeeps, Zenon DEF handle_login, handle_register
<1>2. CASE Switch
  BY <1>2, SwitchKeeps, Zenon
<1>3. CASE RunCallback
  BY <1>3, RunCallbackKeeps, Zenon
<1>4. CASE Dismiss
  BY <1>4, DismissKeeps, Zenon
<1>5. ASSUME NEW t \in DOMAIN threads, Listen(t) PROVE SessionInv'
  BY <1>5, CheckKeeps, LookKeeps, EofKeeps, UndecodableKeeps, RecvKeeps, RecvPieceKeeps, AddBytesKeeps, SplitKeeps,
     DispatchKeeps, RaiseKeeps, Zenon DEF Listen
<1>6. ASSUME NEW c \in DOMAIN connections, Serve(c) \/ Stop(c) PROVE SessionInv'
  BY <1>6, AtenderKeeps, CutAnswerKeeps, BeginSessionKeeps, StopKeeps, Zenon DEF Serve
<1>7. CASE UNCHANGED sessionVars
  BY <1>7, SessionRests, Zenon
<1> QED
  BY <1>1, <1>2, <1>3, <1>4, <1>5, <1>6, <1>7, Zenon DEF SessionNext

LEMMA SessionHolds == SessionSpec => []SessionInv
  BY SessionStarts, SessionGoesOn, PTL DEF SessionSpec

\* However many attempts failed before, a user in the lobby is connected to the child that has
\* the session: of handle_login, handle_register and _try_open_lobby in
\* frontend_desktop/AppController.py and of connect and _listen_loop in networkClient.py, for
\* any number of attempts, threads and lines; except for users in a hurry, bytes of several
\* connections that meet in the buffer, and connections that a thread has lost: at its end, by
\* bytes that do not decode, or by a handler that raised.
THEOREM LobbyIsInSession == SessionSpec => []LobbyUsesItsSession
<1>1. SessionInv => LobbyUsesItsSession
  BY Zenon DEF SessionInv, OneOutcome, Idle, Inside, Awaiting, InSession, LobbyUsesItsSession
<1> QED
  BY <1>1, SessionHolds, PTL

\* When all threads and children are at rest, no request is left without an outcome, with the
\* same exceptions and that of an answer that was cut.  Without any exception, a client that
\* takes itself for connected has a child and a thread that waits for it: every way out of
\* _listen_loop switches `connected' off, and the thread of the connection is the last to end.
THEOREM OutcomesCome == SessionSpec => []RequestsHaveOutcomes
<1>1. SessionInv => RequestsHaveOutcomes
  <2> SUFFICES ASSUME SessionInv, Settled
               PROVE  /\ ~hurried /\ ~races /\ ~lost => waiting = 0
                      /\ connected =>
                           /\ connections[socket].open
                           /\ \E t \in DOMAIN threads : threads[t].at = "recv" /\ threads[t].on = socket
    BY DEF RequestsHaveOutcomes
  <2>1. SessionTypeOK /\ ListenerIsThere /\ OneOutcome
    BY DEF SessionInv
  <2>2. /\ callbacks = << >> /\ boxes = 0
        /\ \A t \in DOMAIN threads :
             \/ threads[t].at = "done"
             \/ /\ threads[t].at = "recv" /\ threads[t].on # 0
                /\ connections[threads[t].on].open /\ connections[threads[t].on].lines = << >>
        /\ \A c \in DOMAIN connections : connections[c].open => connections[c].requests = << >>
    BY Zenon DEF Settled
  <2>3. connected => socket \in DOMAIN connections /\ socket \in DOMAIN threads
    BY <2>1, SMT DEF SessionTypeOK, ListenerIsThere
  <2>4. connected => /\ connections[socket].open /\ connections[socket].lines = << >>
                     /\ threads[socket].at = "recv" /\ threads[socket].on = socket
    BY <2>1, <2>2, <2>3, Zenon DEF ListenerIsThere
  <2>5. ~lost => buf = << >>
    <3>1. {"split", "dispatch"} \cap {"done", "recv"} = {}
      BY SMT
    <3> QED
      BY <2>1, <2>2, <3>1, Zenon DEF ListenerIsThere
  <2>6. ASSUME ~hurried, ~races, ~lost PROVE waiting = 0
    <3> SUFFICES ASSUME Awaiting PROVE FALSE
      BY <2>1, <2>6, Zenon DEF OneOutcome, Idle, Inside
    <3>1. connected
      BY Zenon DEF Awaiting
    <3>2. ~InRequest
      <4>1. connections[socket].requests = << >>
        BY <2>2, <2>3, <2>4, <3>1, Zenon
      <4>2. Len(<< >>) # 1
        OBVIOUS
      <4> QED
        BY <4>1, <4>2, Zenon DEF InRequest
    <3>3. ~InBox
      <4>1. 0 # 1
        OBVIOUS
      <4> QED
        BY <2>2, <4>1, Zenon DEF InBox
    <3>4. ASSUME NEW x \in Callback PROVE ~(InLines(x) \/ InBytes(x) \/ InBuffer(x) \/ InCallback(x))
      <4>1. ~Tells(<< >>, x)
        BY AnswersTell, QuietTellsNothing, Zenon
      <4>2. ~InLines(x) /\ ~InBuffer(x)
        BY <2>4, <2>5, <2>6, <3>1, <4>1, Zenon DEF InLines, InBuffer
      <4>3. ~InBytes(x)
        <5>1. "add" # "done" /\ "add" # "recv"
          OBVIOUS
        <5> QED
          BY <2>2, <5>1, Zenon DEF InBytes
      <4>4. ~InCallback(x)
        <5>1. << >> # <<x>>
          BY SMT
        <5> QED
          BY <2>2, <5>1, Zenon DEF InCallback
      <4> QED
        BY <4>2, <4>3, <4>4
    <3> QED
      BY <3>2, <3>3, <3>4, Zenon DEF Awaiting
  <2> QED
    BY <2>3, <2>4, <2>6, Zenon
<1> QED
  BY <1>1, SessionHolds, PTL
===============================================================================
