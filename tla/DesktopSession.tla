---------------------------- MODULE DesktopSession ----------------------------
(***************************************************************************)
(* How a desktop client gets into the lobby and stays there: the windows   *)
(* and callbacks of frontend_desktop/AppController.py on the thread of the *)
(* GUI, and the TCP side of network/networkClient.py.                      *)
(*                                                                         *)
(* The controller ends an attempt by setting `connected' to False; nothing *)
(* is closed, so that the thread that listens to the old connection stays  *)
(* blocked in recv, and the child at the other end waits with it.  The     *)
(* next attempt opens a new connection with a thread of its own.  All      *)
(* threads share `socket', `connected' and the buffer of bytes.            *)
(***************************************************************************)
EXTENDS Naturals, Sequences, SequencesExt

CONSTANTS MaxAttempts,    \* bound on the requests of the user
          MaxStops        \* bound on the connections that the server closes

ASSUME DesktopSessionAssumption == {MaxAttempts, MaxStops} \subseteq Nat

VARIABLES
  connected, socket, buf,    \* of the NetworkClient; socket 0 is not connected
  half, spoiled,             \* the connection of which the first piece of a line ends the buffer,
                             \* or 0; those of which such a piece has met other bytes
  page, boxes, lobby,        \* of the controller: the window, how many boxes tell of a
                             \* registration, _lobby_shown
  threads,                   \* the _listen_loop of every connection
  callbacks,                 \* what root.after(0, ...) has put off
  connections,               \* each with its child at a chat server
  attempts, waiting,         \* requests so far, and those without an outcome yet
  hurried, races, stops,     \* history
  lost                       \* history: a thread has lost its connection, or an answer was cut

pieces == <<half, spoiled>>
network == <<connected, socket, buf, pieces>>
controller == <<page, boxes, lobby>>
history == <<attempts, waiting, hurried, races, stops, lost>>
sessionVars == <<network, controller, threads, callbacks, connections, history>>

SessionInit ==
  /\ connected = FALSE /\ socket = 0 /\ buf = << >>
  /\ half = 0 /\ spoiled = {}
  /\ page = "login" /\ boxes = 0 /\ lobby = FALSE
  /\ threads = << >>
  /\ callbacks = << >>
  /\ connections = << >>
  /\ attempts = 0 /\ waiting = 0
  /\ hurried = FALSE /\ races = FALSE /\ stops = 0 /\ lost = FALSE

-----------------------------------------------------------------------------
(***************************************************************************)
(* The thread of the GUI                                                   *)
(***************************************************************************)
Opened == [phase |-> "auth", requests |-> << >>, lines |-> << >>, open |-> TRUE]
Listening == [at |-> "check", on |-> 0, held |-> << >>, got |-> << >>]

\* A connection of its own, with a thread that listens to `socket'.
connect(request) ==
  /\ socket' = Len(connections) + 1
  /\ connected' = TRUE
  /\ connections' = Append(connections, [Opened EXCEPT !.requests = <<request>>])
  /\ threads' = Append(threads, Listening)

\* The load balancer or the server cannot be reached.  (A thread that looks while connect
\* opens the socket finds what it finds after an attempt that failed.)
connectFails ==
  /\ socket' \in {socket, 0}
  /\ connected' = FALSE
  /\ UNCHANGED <<connections, threads>>

\* A request goes to the connection there is, which may turn out to be closed, or to a new one.
_send(request) ==
  \/ /\ connected
     /\ connections' = [connections EXCEPT ![socket].requests = Append(@, request)]
     /\ UNCHANGED <<socket, connected, threads>>
  \/ /\ connected /\ ~connections[socket].open
     /\ connected' = FALSE
     /\ UNCHANGED <<socket, connections, threads>>
  \/ ~connected /\ connect(request)

Attempt(request) ==
  /\ boxes = 0 /\ attempts < MaxAttempts
  /\ attempts' = attempts + 1
  /\ hurried' = (hurried \/ waiting > 0 \/ lobby)
  /\ \/ _send(request) /\ waiting' = waiting + 1
     \/ ~connected /\ connectFails /\ UNCHANGED waiting
  /\ UNCHANGED <<buf, pieces, controller, callbacks, races, stops, lost>>

handle_login == page = "login" /\ Attempt("AUTH")
handle_register == page = "register" /\ Attempt("CREATE_ACCOUNT")

Switch ==
  /\ boxes = 0
  /\ \/ page = "login" /\ page' = "register"
     \/ page = "register" /\ page' = "login"
  /\ UNCHANGED <<network, boxes, lobby, threads, callbacks, connections, history>>

Outcome == waiting' = waiting - 1

\* The outcome of a login that failed or of a registration that was refused.
Reject ==
  /\ connected' = FALSE
  /\ Outcome
  /\ UNCHANGED controller

_try_open_lobby ==
  /\ lobby' = TRUE
  /\ page' = IF ~lobby /\ page = "login" THEN "none" ELSE page
  /\ Outcome
  /\ UNCHANGED <<connected, boxes>>

\* Other callbacks run while a box is shown.
RunCallback ==
  /\ callbacks # << >>
  /\ callbacks' = Tail(callbacks)
  /\ \/ Head(callbacks) \in {"rejected", "refused"} /\ Reject
     \/ Head(callbacks) = "end" /\ _try_open_lobby
     \/ /\ Head(callbacks) = "registered"
        /\ boxes' = boxes + 1 /\ UNCHANGED <<connected, page, lobby, waiting>>
  /\ UNCHANGED <<socket, buf, pieces, threads, connections, attempts, hurried, races, stops, lost>>

\* The user has read that the account was created.
Dismiss ==
  /\ boxes > 0
  /\ boxes' = boxes - 1
  /\ connected' = FALSE
  /\ page' = "login"
  /\ Outcome
  /\ UNCHANGED <<socket, buf, pieces, lobby, threads, callbacks, connections, attempts, hurried, races, stops, lost>>

-----------------------------------------------------------------------------
(***************************************************************************)
(* _listen_loop                                                            *)
(***************************************************************************)
Continues(t, thread) == threads' = [threads EXCEPT ![t] = thread]

\* Every way out of the loop tells the user that the connection is lost, in a box that
\* changes nothing.
Ends(t) == Continues(t, [Listening EXCEPT !.at = "done"])

\* The loop condition.
Check(t) ==
  /\ threads[t].at = "check"
  /\ IF connected THEN Continues(t, [Listening EXCEPT !.at = "look"]) ELSE Ends(t)
  /\ UNCHANGED <<network, controller, callbacks, connections, history>>

\* Which socket to read: it is looked up for every call of recv, and may be that of another
\* attempt by then.
Look(t) ==
  /\ threads[t].at = "look"
  /\ Continues(t, [Listening EXCEPT !.at = "recv", !.on = socket])
  /\ UNCHANGED <<network, controller, callbacks, connections, history>>

\* Mutant: the loop is left with the connection still on.
endQuietly(t) ==
  /\ Ends(t)
  /\ UNCHANGED connected

\* The loop is left with the connection off: at the end of the bytes or by any exception.
disconnected(t) ==
  /\ connected' = FALSE
  /\ Ends(t)

Loses == lost' = TRUE /\ UNCHANGED <<attempts, waiting, hurried, races, stops>>

\* No connection there, or the other end has closed it.  A connection that was reset raises,
\* whatever has come before.
Eof(t) ==
  LET c == threads[t].on
  IN /\ threads[t].at = "recv"
     /\ \/ c = 0 /\ UNCHANGED connections
        \/ /\ c # 0 /\ ~connections[c].open
           /\ connections' = [connections EXCEPT ![c].lines = << >>]
     /\ disconnected(t) /\ Loses
     /\ UNCHANGED <<socket, buf, pieces, controller, callbacks>>

\* Lines with names in them, whose characters may take several bytes; and what is left of
\* such a line after a read that ended inside a character.
Named == {"accepted", "registered", "refused", "online"}
Rest == "rest"

\* recv takes what has come up to anywhere.  Bytes that begin or end inside a character are
\* not decoded: they are lost, and so is the connection.
Undecodable(t) ==
  LET c == threads[t].on
      lines == connections[c].lines
  IN /\ threads[t].at = "recv" /\ c # 0
     /\ \E n \in 1 .. Len(lines) :
          \/ /\ lines[n] \in Named
             /\ connections' = [connections EXCEPT ![c].lines = <<Rest>> \o SubSeq(@, n + 1, Len(@))]
          \/ /\ lines[1] = Rest
             /\ connections' = [connections EXCEPT ![c].lines = SubSeq(@, n + 1, Len(@))]
     /\ disconnected(t) /\ Loses
     /\ UNCHANGED <<socket, buf, pieces, controller, callbacks>>

\* Some of the bytes that have come, which are decoded, and the buffer they are going to be
\* added to.
Recv(t) ==
  LET c == threads[t].on
  IN /\ threads[t].at = "recv" /\ c # 0
     /\ \E n \in 1 .. Len(connections[c].lines) :
          /\ connections[c].lines[1] # Rest
          /\ Continues(t, [at |-> "add", on |-> c, held |-> buf,
                           got |-> SubSeq(connections[c].lines, 1, n)])
          /\ connections' = [connections EXCEPT ![c].lines = SubSeq(@, n + 1, Len(@))]
     /\ UNCHANGED <<network, controller, callbacks, history>>

\* A piece of a line is not processed yet.  It stays at the end of the buffer, also when the
\* thread and its attempt are given up, and what another connection sends is put behind it.
RecvPiece(t) ==
  LET c == threads[t].on
  IN /\ threads[t].at = "recv" /\ c # 0
     /\ connections[c].lines # << >> /\ connections[c].lines[1] # Rest
     /\ half # c
     /\ half' = c
     /\ spoiled' = IF half = 0 THEN spoiled ELSE spoiled \cup {half, c}
     /\ Continues(t, Listening)
     /\ UNCHANGED <<connected, socket, buf, controller, callbacks, connections, history>>

\* Another thread has changed the buffer between a read and the write that rests on it.
Race(t) == races' = (races \/ buf # threads[t].held)

\* A line whose pieces have met others does not parse, and is ignored.
AddBytes(t) ==
  LET c == threads[t].on
      met == half \notin {0, c}
      spoils == met \/ c \in spoiled
      got == threads[t].got
  IN /\ threads[t].at = "add"
     /\ buf' = threads[t].held \o (IF spoils THEN Tail(got) ELSE got)
     /\ half' = 0
     /\ spoiled' = (spoiled \ {c}) \cup (IF met THEN {half} ELSE {})
     /\ races' = (races \/ spoils \/ buf # threads[t].held)
     /\ Continues(t, [Listening EXCEPT !.at = "split"])
     /\ UNCHANGED <<connected, socket, controller, callbacks, connections, attempts, waiting,
                    hurried, stops, lost>>

Split(t) ==
  /\ threads[t].at = "split"
  /\ Continues(t, IF buf = << >> THEN Listening
                  ELSE [Listening EXCEPT !.at = "dispatch", !.held = buf])
  /\ UNCHANGED <<network, controller, callbacks, connections, history>>

\* Lines with a callback that changes more than what is on the screen.
Callback == {"rejected", "registered", "refused", "end"}

_dispatch(t) ==
  /\ threads[t].at = "dispatch"
  /\ buf' = Tail(threads[t].held)
  /\ Race(t)
  /\ LET line == Head(threads[t].held)
     IN callbacks' = IF line \in Callback THEN Append(callbacks, line) ELSE callbacks
  /\ Continues(t, [Listening EXCEPT !.at = "split"])
  /\ UNCHANGED <<connected, socket, pieces, controller, connections, attempts, waiting, hurried,
                 stops, lost>>

\* The handler of the line raises: the GUI is not told of it, and the lines after it stay in
\* the buffer.  SYNC_END counts messages in a dictionary that the other thread may change;
\* names may not decipher; "online" stands for all events of the session.
Raise(t) ==
  /\ threads[t].at = "dispatch"
  /\ Head(threads[t].held) \in {"accepted", "registered", "online", "end"}
  /\ buf' = Tail(threads[t].held)
  /\ Race(t)
  /\ disconnected(t)
  /\ lost' = TRUE
  /\ UNCHANGED <<socket, pieces, controller, callbacks, connections, attempts, waiting, hurried, stops>>

-----------------------------------------------------------------------------
(***************************************************************************)
(* The child of a connection at a chat server                              *)
(***************************************************************************)
Answers(c, answer) ==
  [connections EXCEPT ![c].lines = @ \o answer, ![c].requests = Tail(@)]

\* Mutant: the child goes on as if nobody had logged in.
beginsNothing(c, answer) == Answers(c, answer)

\* A request that is granted in the first phase begins the session.
Begins(c, answer) ==
  [Answers(c, answer) EXCEPT ![c].phase = IF @ = "auth" THEN "registering" ELSE @]

atender_cliente(c) ==
  /\ connections[c].open /\ connections[c].requests # << >>
  /\ connections[c].phase # "registering"
  /\ connections' \in
       IF Head(connections[c].requests) = "AUTH"
       THEN {Answers(c, <<"rejected">>), Begins(c, <<"accepted", "end">>)}
       ELSE {Answers(c, <<"refused">>), Begins(c, <<"registered">>)}
  /\ UNCHANGED <<network, controller, threads, callbacks, history>>

\* db_request stops at a full buffer: the lines of a large database come without the last one.
CutAnswer(c) ==
  /\ connections[c].open /\ connections[c].requests # << >>
  /\ connections[c].phase # "registering"
  /\ Head(connections[c].requests) = "AUTH"
  /\ connections' = Begins(c, <<"accepted">>)
  /\ Loses
  /\ UNCHANGED <<network, controller, threads, callbacks>>

\* The users who are online are sent once the user is registered, in lines of their own.
begin_session(c) ==
  /\ connections[c].open /\ connections[c].phase = "registering"
  /\ \E others \in {<< >>, <<"online">>} :
       connections' = [connections EXCEPT ![c].phase = "session", ![c].lines = @ \o others]
  /\ UNCHANGED <<network, controller, threads, callbacks, history>>

\* The child ends: its server is stopped, or the database cannot be reached.
Stop(c) ==
  /\ stops < MaxStops /\ connections[c].open
  /\ stops' = stops + 1
  /\ connections' = [connections EXCEPT ![c].open = FALSE]
  /\ UNCHANGED <<network, controller, threads, callbacks, attempts, waiting, hurried, races, lost>>

-----------------------------------------------------------------------------
Listen(t) ==
  \/ Check(t) \/ Look(t) \/ Eof(t) \/ Undecodable(t) \/ Recv(t) \/ RecvPiece(t)
  \/ AddBytes(t) \/ Split(t) \/ _dispatch(t) \/ Raise(t)
Serve(c) == atender_cliente(c) \/ CutAnswer(c) \/ begin_session(c)

SessionNext ==
  \/ handle_login \/ handle_register \/ Switch \/ RunCallback \/ Dismiss
  \/ \E t \in DOMAIN threads : Listen(t)
  \/ \E c \in DOMAIN connections : Serve(c) \/ Stop(c)

SessionSpec == SessionInit /\ [][SessionNext]_sessionVars

-----------------------------------------------------------------------------
(***************************************************************************)
(* Properties                                                              *)
(***************************************************************************)
\* However many attempts were rejected, refused or registered before, whose threads and
\* children are still there: a user in the lobby is connected, to the child that has the
\* session.  Except for users who did not wait for an outcome, bytes of several connections
\* that met in the buffer, and connections that were lost or answers that were cut: then some
\* thread, perhaps that of an old attempt, has met a closed connection, bytes that do not
\* decode or a handler that raised.
LobbyUsesItsSession ==
  lobby /\ ~hurried /\ ~races /\ ~lost =>
    connected /\ connections[socket].phase \in {"registering", "session"}

\* Every thread has ended or waits for a connection that has nothing for it, and every child
\* for requests: what is not done now will never be.
Settled ==
  /\ callbacks = << >> /\ boxes = 0
  /\ \A t \in DOMAIN threads :
       \/ threads[t].at = "done"
       \/ /\ threads[t].at = "recv" /\ threads[t].on # 0
          /\ connections[threads[t].on].open /\ connections[threads[t].on].lines = << >>
  /\ \A c \in DOMAIN connections :
       connections[c].open => connections[c].requests = << >> /\ connections[c].phase # "registering"

\* No request is left without an outcome, which is the lobby, another try, or the account
\* that was made, with the same exceptions.  And without exception, whatever was raised: no
\* client goes on for ever that takes itself for connected, while the server has closed the
\* connection or no thread listens to it.
RequestsHaveOutcomes ==
  Settled =>
    /\ ~hurried /\ ~races /\ ~lost => waiting = 0
    /\ connected =>
         /\ connections[socket].open
         /\ \E t \in DOMAIN threads : threads[t].at = "recv" /\ threads[t].on = socket

===============================================================================
