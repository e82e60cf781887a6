------------------------------- MODULE ChatStore -------------------------------
(***************************************************************************)
(* What the database server promises to the chat servers: a store on which *)
(* every request takes effect at one instant between its arrival and its   *)
(* answer, or is dropped without any effect.                               *)
(***************************************************************************)
EXTENDS Repository

CONSTANT Child   \* connections served at the same time

VARIABLES store,   \* the store
          call     \* the stage each connection has reached

vars == <<store, call>>

Idle == [stage |-> "idle"]
Pending(req) == [stage |-> "pending", req |-> req]
Done(req, reply) == [stage |-> "done", req |-> req, reply |-> reply]

Init ==
  /\ store = EmptyStore
  /\ call = [c \in Child |-> Idle]

\* A request arrives.
Submit(c) ==
  /\ call[c] = Idle
  /\ \E req \in Requests(1 .. store.index.user - 1,
                         1 .. store.index.chatroom - 1,
                         1 .. store.index.message - 1) :
       call' = [call EXCEPT ![c] = Pending(req)]
  /\ UNCHANGED store

\* The request takes effect, all of it at once.
Execute(c) ==
  /\ call[c].stage = "pending"
  /\ LET result == handleRequest(store, call[c].req)
     IN /\ store' = result.goal
        /\ call' = [call EXCEPT ![c] = Done(call[c].req, result.reply)]

\* The connection ends, after the request took effect or instead of it.
Leave(c) ==
  /\ call[c] # Idle
  /\ call' = [call EXCEPT ![c] = Idle]
  /\ UNCHANGED store

Next == \E c \in Child : Submit(c) \/ Execute(c) \/ Leave(c)

Spec == Init /\ [][Next]_vars

===============================================================================
