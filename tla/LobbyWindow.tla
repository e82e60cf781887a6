----------------------------- MODULE LobbyWindow -----------------------------
(***************************************************************************)
(* The lobby of a desktop client, frontend_desktop/gui/app.py: what the    *)
(* window shows of the rooms in the network client, and what the user does *)
(* with it.                                                                *)
(*                                                                         *)
(* The network client changes its dictionaries on a thread of its own and  *)
(* puts a callback in the queue of the GUI, if the event is for this user. *)
(* So the window may be redrawn from dictionaries whose callbacks are      *)
(* still to come, and a dialog runs the queue while it waits: it goes on   *)
(* with what it read before.  Events come here once and in order: what     *)
(* else may happen to them is the subject of NetworkClient.                *)
(***************************************************************************)
EXTENDS Naturals, FiniteSets, SequencesExt

CONSTANTS Room,
          Mine,           \* the rooms the user coordinates; the others have somebody else
          Me, Other,      \* the user, and one who is neither the user nor a coordinator
          MaxEvents       \* bound on requests, of this user and of others

ASSUME LobbyAssumption ==
  /\ Mine \subseteq Room
  /\ Me # Other
  /\ MaxEvents \in Nat

VARIABLES
  db, made,               \* the rooms in the database; those that were ever made
  sent, events,           \* requests of this client under way; requests handled so far
  rooms, messages,        \* of the network client
  tasks,                  \* what root.after(0, ...) has put off
  view, pending_rooms,    \* the main panel; rooms the user has asked to join
  rows, toasts, modal,    \* the sidebar; rooms in toasts; the dialog that has the grab
  moot                    \* history: the requests to join that were in vain

server == <<db, made, sent, events>>
replica == <<rooms, messages>>
window == <<view, pending_rooms, rows, toasts, modal>>
lobbyVars == <<server, replica, tasks, window, moot>>

Welcome == [kind |-> "welcome"]
None == [kind |-> "none"]
Member(R, r) == r \in DOMAIN R /\ Me \in R[r].users

\* refresh_sidebar: a row keeps the dictionary of the room as it was drawn.
Sidebar(R) == [r \in DOMAIN R |-> [member |-> Me \in R[r].users, fresh |-> TRUE]]

With(f, k, v) == [x \in DOMAIN f \cup {k} |-> IF x = k THEN v ELSE f[x]]
Without(f, k) == [x \in DOMAIN f \ {k} |-> f[x]]

LobbyInit ==
  /\ db \in UNION {[R -> [users : SUBSET {Me, Other}, requests : {{}}]] : R \in SUBSET Room}
  /\ \A r \in DOMAIN db \cap Mine : Me \in db[r].users
  /\ made = DOMAIN db
  /\ sent = << >> /\ events = 0
  /\ rooms = [r \in DOMAIN db |->
                [users |-> db[r].users, requests |-> {}, notifications |-> 0]]
  /\ messages = [r \in DOMAIN db |-> << >>]
  /\ tasks = << >>
  /\ view = Welcome /\ pending_rooms = {}
  /\ rows = Sidebar(rooms)
  /\ toasts = {} /\ modal = None
  /\ moot = {}

-----------------------------------------------------------------------------
(***************************************************************************)
(* What is granted by the database, and what the network client makes of it *)
(***************************************************************************)
Notify(told, callback) == tasks' = IF told THEN Append(tasks, callback) ELSE tasks

\* The answer has the whole room: a new dictionary takes the place of the one in the row.
_upsert_room(r, told, callback) ==
  /\ rooms' = With(rooms, r,
       [users |-> db'[r].users, requests |-> db'[r].requests,
        notifications |-> IF r \in DOMAIN rooms THEN rooms[r].notifications ELSE 0])
  /\ messages' = IF r \in DOMAIN messages THEN messages ELSE With(messages, r, << >>)
  /\ rows' = IF r \in DOMAIN rows THEN [rows EXCEPT ![r].fresh = FALSE] ELSE rows
  /\ Notify(told, callback)

NewRoom(r) ==
  /\ r \notin made
  /\ db' = With(db, r, [users |-> IF r \in Mine THEN {Me} ELSE {}, requests |-> {}])
  /\ _upsert_room(r, r \in Mine, [kind |-> "created", room |-> r])
  /\ UNCHANGED moot

AddUser(r, u) ==
  /\ r \in DOMAIN db
  /\ db' = [db EXCEPT ![r] = [users |-> @.users \cup {u}, requests |-> @.requests \ {u}]]
  /\ _upsert_room(r, r \in Mine \/ u = Me, [kind |-> "added", room |-> r, user |-> u])
  /\ UNCHANGED moot

\* A member is not entered as a requester, but the request is granted.
Request(r, u) ==
  /\ r \in DOMAIN db
  /\ db' = [db EXCEPT ![r].requests = @ \cup ({u} \ db[r].users)]
  /\ _upsert_room(r, r \in Mine \/ u = Me, [kind |-> "requested", room |-> r])
  /\ moot' = IF u = Me /\ Me \in db[r].users THEN moot \cup {r} ELSE moot

DeleteRequest(r, u) ==
  /\ r \in DOMAIN db /\ u \in db[r].requests
  /\ db' = [db EXCEPT ![r].requests = @ \ {u}]
  /\ _upsert_room(r, r \in Mine \/ u = Me, [kind |-> "rejected", room |-> r])
  /\ moot' = IF u = Me THEN moot \cup {r} ELSE moot

\* The members before the removal are told.
RemoveUser(r, u) ==
  /\ r \in DOMAIN db
  /\ db' = [db EXCEPT ![r].users = @ \ {u}]
  /\ rooms' = [rooms EXCEPT ![r].users = @ \ {u}]
  /\ Notify(Me \in db[r].users, [kind |-> "removed", room |-> r, user |-> u])
  /\ UNCHANGED <<messages, rows, moot>>

NewMessage(r) ==
  /\ r \in DOMAIN db
  /\ messages' = [messages EXCEPT ![r] = Append(@, events')]
  /\ Notify(Me \in db[r].users, [kind |-> "message", room |-> r, message |-> events'])
  /\ UNCHANGED <<db, rooms, rows, moot>>

DeleteMessage(r) ==
  /\ r \in DOMAIN db
  /\ \E i \in DOMAIN messages[r] : messages' = [messages EXCEPT ![r] = RemoveAt(@, i)]
  /\ Notify(TRUE, [kind |-> "deleted", room |-> r])
  /\ UNCHANGED <<db, rooms, rows, moot>>

DeleteRoom(r) ==
  /\ r \in DOMAIN db
  /\ db[r].users \subseteq (IF r \in Mine THEN {Me} ELSE {})
  /\ db' = Without(db, r)
  /\ rooms' = Without(rooms, r)
  /\ messages' = Without(messages, r)
  /\ Notify(TRUE, [kind |-> "gone", room |-> r])
  /\ UNCHANGED <<rows, moot>>

Grant(q) ==
  CASE q.kind = "NEW_CHATROOM" -> NewRoom(q.room)
    [] q.kind = "ADD_USER" -> AddUser(q.room, q.user)
    [] q.kind = "REMOVE_USER" -> RemoveUser(q.room, q.user)
    [] q.kind = "REQUEST" -> Request(q.room, Me)
    [] q.kind = "DELETE_REQUEST" -> DeleteRequest(q.room, q.user)
    [] q.kind = "NEW_MESSAGE" -> NewMessage(q.room)
    [] q.kind = "DELETE_CHATROOM" -> DeleteRoom(q.room)

Refused(q) ==
  IF q.kind = "NEW_CHATROOM" THEN q.room \in made
  ELSE IF q.room \notin DOMAIN db THEN TRUE
  ELSE \/ q.kind = "DELETE_REQUEST" /\ q.user \notin db[q.room].requests
       \/ q.kind = "DELETE_CHATROOM" /\ db[q.room].users # {Me}

\* The requests of this client; a refusal changes nothing that is shown.
Answer ==
  /\ sent # << >>
  /\ sent' = Tail(sent)
  /\ IF Refused(Head(sent)) THEN UNCHANGED <<db, replica, tasks, rows, moot>>
     ELSE Grant(Head(sent))

\* Coordinators of other rooms, and Other, who may ask, write and leave.
OthersAsk ==
  /\ Len(sent) + events < MaxEvents
  /\ \E r \in Room :
       \/ r \notin Mine /\ (NewRoom(r) \/ DeleteRoom(r))
       \/ r \notin Mine /\ \E u \in {Me, Other} : AddUser(r, u) \/ RemoveUser(r, u) \/ DeleteRequest(r, u)
       \/ Request(r, Other) \/ RemoveUser(r, Other)
       \/ NewMessage(r) \/ DeleteMessage(r)
  /\ UNCHANGED sent

Database ==
  /\ events' = events + 1
  /\ Answer \/ OthersAsk
  /\ made' = made \cup DOMAIN db'
  /\ UNCHANGED <<view, pending_rooms, toasts, modal>>

-----------------------------------------------------------------------------
(***************************************************************************)
(* Views                                                                   *)
(***************************************************************************)
Blank(r) == [kind |-> "blank", room |-> r]

\* The panel is cleared before the room is looked up: one that is not there leaves it blank.
show_private_room_view(r, by) ==
  view' = IF r \in DOMAIN rooms
          THEN [kind |-> "private", room |-> r, by |-> by, pending |-> r \in pending_rooms]
          ELSE Blank(r)

\* The history is what the network client has, whatever callbacks are to come.
show_chat_view(r, by) ==
  view' = IF r \in DOMAIN rooms
          THEN [kind |-> "chat", room |-> r, by |-> by, shown |-> messages[r],
                overtaken |-> Cardinality({i \in DOMAIN tasks' : tasks'[i].kind = "message"
                                                              /\ tasks'[i].room = r})]
          ELSE Blank(r)

current_room == IF "room" \in DOMAIN view THEN view.room ELSE "none"
chat_history == view.kind = "chat"

refresh_sidebar == rows' = Sidebar(rooms)

-----------------------------------------------------------------------------
(***************************************************************************)
(* Callbacks                                                               *)
(***************************************************************************)
\* Mutant: a message goes to the chat that is shown, whichever that is.
appendToChat(r, m) ==
  IF chat_history
  THEN /\ view' = [view EXCEPT !.shown = Append(@, m)]
       /\ UNCHANGED <<rooms, rows, toasts>>
  ELSE IF Member(rooms, r)
  THEN /\ rooms' = [rooms EXCEPT ![r].notifications = @ + 1]
       /\ refresh_sidebar
       /\ toasts' = toasts \cup {r}
       /\ UNCHANGED view
  ELSE UNCHANGED <<view, rooms, rows, toasts>>

\* In the chat that is shown, or as a number in the sidebar with a toast.
on_new_message(r, m) ==
  IF chat_history /\ r = current_room
  THEN /\ view' = [view EXCEPT !.shown = Append(@, m)]
       /\ UNCHANGED <<rooms, rows, toasts>>
  ELSE IF Member(rooms, r)
  THEN /\ rooms' = [rooms EXCEPT ![r].notifications = @ + 1]
       /\ refresh_sidebar
       /\ toasts' = toasts \cup {r}
       /\ UNCHANGED view
  ELSE UNCHANGED <<view, rooms, rows, toasts>>

\* Also for requests; the view of a room that is pending is left as it is.
on_room_created ==
  /\ refresh_sidebar
  /\ UNCHANGED <<view, rooms, toasts, pending_rooms>>

\* Mutant: the room stays pending.
userAddedOnly(r, u) ==
  /\ UNCHANGED pending_rooms
  /\ IF u = Me THEN show_chat_view(r, "added") ELSE UNCHANGED view
  /\ IF u = Me /\ r \notin DOMAIN rooms THEN UNCHANGED rows ELSE refresh_sidebar
  /\ UNCHANGED <<rooms, toasts>>

\* The room the user was added to is shown at once; if it is gone, that is an exception.
on_user_added(r, u) ==
  /\ pending_rooms' = IF u = Me THEN pending_rooms \ {r} ELSE pending_rooms
  /\ IF u = Me THEN show_chat_view(r, "added") ELSE UNCHANGED view
  /\ IF u = Me /\ r \notin DOMAIN rooms THEN UNCHANGED rows ELSE refresh_sidebar
  /\ UNCHANGED <<rooms, toasts>>

\* Mutant: the room the user was removed from stays in the panel.
userRemovedFromList(r, u) ==
  /\ pending_rooms' = IF u = Me THEN pending_rooms \ {r} ELSE pending_rooms
  /\ refresh_sidebar
  /\ UNCHANGED <<view, rooms, toasts>>

on_user_removed(r, u) ==
  /\ pending_rooms' = IF u = Me THEN pending_rooms \ {r} ELSE pending_rooms
  /\ view' = IF u = Me /\ r = current_room THEN Welcome ELSE view
  /\ refresh_sidebar
  /\ UNCHANGED <<rooms, toasts>>

\* The history is loaded again, in the place of whatever is shown of the room.
on_message_deleted(r) ==
  /\ IF r = current_room
     THEN show_chat_view(r, IF chat_history THEN view.by ELSE "deleted")
     ELSE UNCHANGED view
  /\ UNCHANGED <<rooms, rows, toasts, pending_rooms>>

\* Mutant: the sidebar is drawn again only when the room is shown.
roomDeletedQuietly(r) ==
  /\ view' = IF r = current_room THEN Welcome ELSE view
  /\ IF r = current_room THEN refresh_sidebar ELSE UNCHANGED rows
  /\ UNCHANGED <<rooms, toasts, pending_rooms>>

on_room_deleted(r) ==
  /\ view' = IF r = current_room THEN Welcome ELSE view
  /\ refresh_sidebar
  /\ UNCHANGED <<rooms, toasts, pending_rooms>>

\* An exception in a callback is printed; what it has done before stays.
RunTask ==
  LET callback == Head(tasks)
  IN /\ tasks # << >>
     /\ tasks' = Tail(tasks)
     /\ CASE callback.kind = "message" ->
               on_new_message(callback.room, callback.message) /\ UNCHANGED pending_rooms
          [] callback.kind = "added" -> on_user_added(callback.room, callback.user)
          [] callback.kind = "removed" -> on_user_removed(callback.room, callback.user)
          [] callback.kind = "deleted" -> on_message_deleted(callback.room)
          [] callback.kind = "gone" -> on_room_deleted(callback.room)
          [] callback.kind \in {"created", "requested", "rejected"} -> on_room_created
     /\ UNCHANGED <<server, messages, modal, moot>>

-----------------------------------------------------------------------------
(***************************************************************************)
(* What the user does                                                      *)
(***************************************************************************)
Send(requests) ==
  /\ Len(sent) + Len(requests) + events <= MaxEvents
  /\ sent' = sent \o requests

\* The row says whether the user was a member when it was drawn, and sets the number to 0
\* in the dictionary it was drawn from.
_click(r) ==
  /\ modal = None /\ r \in DOMAIN rows
  /\ UNCHANGED tasks
  /\ IF rows[r].member THEN show_chat_view(r, IF rows[r].fresh THEN "row" ELSE "stale")
     ELSE show_private_room_view(r, "row")
  /\ rooms' = IF rows[r].member /\ rows[r].fresh /\ r \in DOMAIN rooms
              THEN [rooms EXCEPT ![r].notifications = 0] ELSE rooms
  /\ IF r \in DOMAIN rooms THEN refresh_sidebar ELSE UNCHANGED rows
  /\ UNCHANGED <<server, messages, pending_rooms, toasts, modal, moot>>

\* There may be other toasts of the room.
_close_toast(r) ==
  /\ r \in toasts
  /\ toasts' \in {toasts, toasts \ {r}}

Expire(r) ==
  /\ _close_toast(r)
  /\ UNCHANGED <<server, replica, tasks, view, pending_rooms, rows, modal, moot>>

_toast_click(r) ==
  /\ modal = None
  /\ _close_toast(r)
  /\ UNCHANGED tasks
  /\ IF Member(rooms, r)
     THEN /\ rooms' = [rooms EXCEPT ![r].notifications = 0]
          /\ show_chat_view(r, "toast")
          /\ refresh_sidebar
     ELSE UNCHANGED <<rooms, view, rows>>
  /\ UNCHANGED <<server, messages, pending_rooms, modal, moot>>

send_message ==
  /\ modal = None /\ chat_history
  /\ Send(<<[kind |-> "NEW_MESSAGE", room |-> current_room]>>)
  /\ UNCHANGED <<db, made, events, replica, tasks, window, moot>>

\* The name is typed in; the room comes with its callback.
do_create ==
  /\ modal = None
  /\ \E r \in Mine \ made : Send(<<[kind |-> "NEW_CHATROOM", room |-> r]>>)
  /\ UNCHANGED <<db, made, events, replica, tasks, window, moot>>

\* The box says that the request was sent.
request_join_from_view ==
  /\ modal = None /\ view.kind = "private"
  /\ ~view.pending
  /\ Send(<<[kind |-> "REQUEST", room |-> view.room]>>)
  /\ pending_rooms' = pending_rooms \cup {view.room}
  /\ modal' = [kind |-> "requested", room |-> view.room]
  /\ UNCHANGED <<db, made, events, replica, tasks, view, rows, toasts, moot>>

\* Whatever has become of the room while the box was shown.
RequestSent ==
  /\ modal.kind = "requested"
  /\ modal' = None
  /\ UNCHANGED pending_rooms
  /\ show_private_room_view(modal.room, "dialog")
  /\ UNCHANGED <<server, replica, tasks, rows, toasts, moot>>

leave_room ==
  /\ modal = None /\ chat_history
  /\ view.room \in DOMAIN rooms \ Mine
  /\ modal' = [kind |-> "leave", room |-> view.room]
  /\ UNCHANGED <<server, replica, tasks, view, pending_rooms, rows, toasts, moot>>

confirm_leave ==
  /\ modal.kind = "leave"
  /\ modal' = None
  /\ Send(<<[kind |-> "NEW_MESSAGE", room |-> modal.room],
            [kind |-> "REMOVE_USER", room |-> modal.room, user |-> Me]>>)
  /\ pending_rooms' = pending_rooms \ {modal.room}
  /\ view' = Welcome
  /\ UNCHANGED rooms
  /\ refresh_sidebar
  /\ UNCHANGED <<db, made, events, messages, tasks, toasts, moot>>

Cancel ==
  /\ modal.kind \in {"leave", "panel"}
  /\ modal' = None
  /\ UNCHANGED <<server, replica, tasks, view, pending_rooms, rows, toasts, moot>>

-----------------------------------------------------------------------------
(***************************************************************************)
(* The panel of the coordinator, with lists as they were when it opened    *)
(***************************************************************************)
Panel(R, r) ==
  IF r \in DOMAIN R
  THEN [kind |-> "panel", room |-> r, requests |-> R[r].requests, members |-> R[r].users \ {Me},
        addable |-> {Me, Other} \ R[r].users]
  ELSE None

open_coordinator_panel ==
  /\ modal = None /\ chat_history
  /\ view.room \in Mine
  /\ modal' = Panel(rooms, view.room)
  /\ UNCHANGED <<server, replica, tasks, view, pending_rooms, rows, toasts, moot>>

_add(u) ==
  /\ modal.kind = "panel" /\ u \in modal.addable
  /\ Send(<<[kind |-> "ADD_USER", room |-> modal.room, user |-> u]>>)
  /\ modal' = None
  /\ UNCHANGED rooms
  /\ refresh_sidebar
  /\ UNCHANGED <<db, made, events, messages, tasks, view, pending_rooms, toasts, moot>>

\* The dictionary is changed before the database is asked; then the chat is drawn, and the
\* panel opened again, unless the room is gone.
Edit(request, room) ==
  /\ Send(<<request>>)
  /\ rooms' = IF modal.room \in DOMAIN rooms THEN [rooms EXCEPT ![modal.room] = room] ELSE rooms
  /\ UNCHANGED tasks
  /\ show_chat_view(modal.room, "dialog")
  /\ modal' = Panel(rooms', modal.room)
  /\ UNCHANGED <<db, made, events, messages, pending_rooms, rows, toasts, moot>>

accept_action(u) ==
  /\ modal.kind = "panel" /\ u \in modal.requests
  /\ Edit([kind |-> "ADD_USER", room |-> modal.room, user |-> u],
          [rooms[modal.room] EXCEPT !.requests = @ \ {u}])

reject_action(u) ==
  /\ modal.kind = "panel" /\ u \in modal.requests
  /\ Edit([kind |-> "DELETE_REQUEST", room |-> modal.room, user |-> u],
          [rooms[modal.room] EXCEPT !.requests = @ \ {u}])

kick_action(u) ==
  /\ modal.kind = "panel" /\ u \in modal.members
  /\ Edit([kind |-> "REMOVE_USER", room |-> modal.room, user |-> u],
          [rooms[modal.room] EXCEPT !.users = @ \ {u}])

\* The window does not wait to see whether the room may be deleted.
delete_room_action ==
  /\ modal.kind = "panel"
  /\ Send(<<[kind |-> "DELETE_CHATROOM", room |-> modal.room]>>)
  /\ modal' = None
  /\ view' = Welcome
  /\ UNCHANGED rooms
  /\ refresh_sidebar
  /\ UNCHANGED <<db, made, events, messages, tasks, pending_rooms, toasts, moot>>

-----------------------------------------------------------------------------
LobbyNext ==
  \/ Database \/ RunTask
  \/ \E r \in Room : _click(r) \/ _toast_click(r) \/ Expire(r)
  \/ send_message \/ do_create \/ request_join_from_view \/ RequestSent
  \/ leave_room \/ confirm_leave \/ Cancel
  \/ open_coordinator_panel \/ delete_room_action
  \/ \E u \in {Me, Other} : _add(u) \/ accept_action(u) \/ reject_action(u) \/ kick_action(u)

LobbySpec == LobbyInit /\ [][LobbyNext]_lobbyVars

-----------------------------------------------------------------------------
(***************************************************************************)
(* Properties                                                              *)
(***************************************************************************)
\* Once the callbacks have run, the sidebar lists the rooms of the user, and no room that
\* is gone: a room that the user is not told of is never one the user is a member of.
MyRoomsAreListed ==
  tasks = << >> =>
    /\ {r \in DOMAIN rows : rows[r].member} = {r \in DOMAIN rooms : Me \in rooms[r].users}
    /\ DOMAIN rows \subseteq DOMAIN rooms

\* Once the callbacks have run, a view is that of a room that is there: with the chat for
\* members and the button for others, if it was opened from the sidebar, from a toast or
\* because the user was added.  One that was opened by a dialog at its end may be the wrong
\* one of the two.  And the number of unread messages is gone for as long as a chat is shown
\* that was opened by a toast, or by a row whose dictionary was still the one of the room.
ViewsFitTheRoom ==
  /\ tasks = << >> =>
       /\ view.kind \in {"private", "chat"} => view.room \in DOMAIN rooms
       /\ view.kind = "chat" /\ view.by \in {"row", "toast", "stale", "added"} =>
            Member(rooms, view.room)
       /\ view.kind = "private" /\ view.by = "row" => ~Member(rooms, view.room)
  /\ view.kind = "chat" /\ view.room \in DOMAIN rooms /\ view.by \in {"row", "toast"} =>
       rooms[view.room].notifications = 0

\* Once the callbacks have run, a member sees all messages of the room and no others.  One
\* may be there twice, but no more of them than callbacks were overtaken by a view.
HistoryIsShown ==
  tasks = << >> /\ view.kind = "chat" /\ Member(rooms, view.room) =>
    /\ ToSet(view.shown) = ToSet(messages[view.room])
    /\ Len(view.shown) <= Len(messages[view.room]) + view.overtaken

\* A room that is marked as pending is one that has the request of the user, or will have it,
\* unless the coordinator refused it or the user was a member already.
PendingIsTrue ==
  tasks = << >> =>
    \A r \in pending_rooms \cap DOMAIN rooms :
      \/ Me \in db[r].requests
      \/ r \in moot
      \/ \E i \in DOMAIN sent : sent[i] = [kind |-> "REQUEST", room |-> r]

==============================================================================
