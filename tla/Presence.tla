------------------------------- MODULE Presence -------------------------------
(***************************************************************************)
(* Who is connected, as the chat servers (chatServerJson.c) keep it: each  *)
(* server has a table of users in memory shared by its children, and all   *)
(* share the set online_user_ids and the hashes online_users:<id> in       *)
(* Redis.  A child serves one client from its login to its end.  A child   *)
(* that writes to a client that hung up is killed by SIGPIPE and cleans    *)
(* nothing up; a server that is stopped takes its children and its table   *)
(* with it, and leaves Redis as it is.                                     *)
(***************************************************************************)
EXTENDS Naturals, FiniteSets

CONSTANTS Server, User,
          Offered(_),       \* the servers that the load balancer gives to a user
          Child,            \* children alive at the same time, on any server
          None,
          TableSize,        \* MAX_USERS
          MaxTroubles       \* bound on what goes wrong: a user logs in while a child
                            \* still serves them, a child is killed, Redis cannot be reached

\* A slot of a table.  The address is the client of the child that registered it last.
Entry == [id : User, address : Child]

ASSUME PresenceAssumption ==
  /\ None \notin User \cup Server \cup Child \cup Entry
  /\ \A u \in User : Offered(u) \subseteq Server
  /\ {TableSize, MaxTroubles} \subseteq Nat
  /\ IsFiniteSet(Child)

VARIABLES users,      \* the table of each server: a user and a UDP address, or None
          online,     \* online_user_ids
          profiles,   \* the users that have a hash online_users:<id>
          stage, user, server,   \* of each child
          told,       \* the users each child has told its client about
          overlaps, kills, failures    \* so far

shared == <<users, online, profiles>>
vars == <<users, online, profiles, stage, user, server, told, overlaps, kills, failures>>

Slot == 1 .. TableSize

First(I) == CHOOSE i \in I : \A j \in I : i <= j

Holding(s, u) == {i \in Slot : users[s][i] # None /\ users[s][i].id = u}
Free(s) == {i \in Slot : users[s][i] = None}

Init ==
  /\ users = [s \in Server |-> [i \in Slot |-> None]]
  /\ online = {}
  /\ profiles = {}
  /\ stage = [c \in Child |-> "idle"]
  /\ user = [c \in Child |-> None]
  /\ server = [c \in Child |-> None]
  /\ told = [c \in Child |-> {}]
  /\ overlaps = 0
  /\ kills = 0
  /\ failures = 0

Goes(c, from, to) ==
  /\ stage[c] = from
  /\ stage' = [stage EXCEPT ![c] = to]

Troubles == overlaps + kills + failures

\* redisConnect fails, or the connection before a command: the child goes on without.
RedisFails ==
  /\ Troubles < MaxTroubles
  /\ failures' = failures + 1

-----------------------------------------------------------------------------
(***************************************************************************)
(* Login: AUTH or CREATE_ACCOUNT was answered with success                 *)
(***************************************************************************)
Authenticate(c) ==
  /\ Goes(c, "idle", "authenticated")
  /\ \E u \in User : \E s \in Offered(u) :
       /\ overlaps' = IF \E d \in Child : user[d] = u THEN overlaps + 1 ELSE overlaps
       /\ server' = [server EXCEPT ![c] = s]
       /\ user' = [user EXCEPT ![c] = u]
  /\ overlaps' + kills + failures <= MaxTroubles
  /\ UNCHANGED <<shared, told, kills, failures>>

\* Mutant: a slot that is free is taken without a look at the later ones.
RegisterFirst(s, u, c) ==
  IF Free(s) # {}
  THEN [users EXCEPT ![s][First(Free(s))] = [id |-> u, address |-> c]]
  ELSE users

\* Mutant: the address of a user who is back is not brought up to date.
RegisterOnce(s, u, c) ==
  IF Holding(s, u) # {} THEN users
  ELSE IF Free(s) # {}
       THEN [users EXCEPT ![s][First(Free(s))] = [id |-> u, address |-> c]]
       ELSE users

\* A user who is back keeps the slot and gets a new address; a user for whom
\* there is no slot goes without.
Registered(s, u, c) ==
  LET slots == IF Holding(s, u) # {} THEN Holding(s, u) ELSE Free(s)
  IN IF slots = {} THEN users
     ELSE [users EXCEPT ![s][First(slots)] = [id |-> u, address |-> c]]

shm_register_user(c) ==
  /\ Goes(c, "authenticated", "registered")
  /\ users' = Registered(server[c], user[c], c)
  /\ UNCHANGED <<online, profiles, user, server, told, overlaps, kills, failures>>

\* Mutant: HSET is left out.
AddOnly(c) ==
  /\ Goes(c, "registered", "announced")
  /\ online' = online \cup {user[c]}
  /\ UNCHANGED <<users, profiles, user, server, told, overlaps, kills, failures>>

\* redis_user_online, first command: SADD.
Add(c) ==
  /\ Goes(c, "registered", "added")
  /\ online' = online \cup {user[c]}
  /\ UNCHANGED <<users, profiles, user, server, told, overlaps, kills, failures>>

\* redis_user_online, second command: HSET.
SetProfile(c) ==
  /\ Goes(c, "added", "announced")
  /\ profiles' = profiles \cup {user[c]}
  /\ UNCHANGED <<users, online, user, server, told, overlaps, kills, failures>>

NotAdded(c) ==
  /\ Goes(c, "registered", "announced") \/ Goes(c, "added", "announced")
  /\ RedisFails
  /\ UNCHANGED <<shared, user, server, told, overlaps, kills>>

\* Mutant: the others are looked up in the table of the own server.
ReadTable(c) ==
  /\ Goes(c, "announced", "notifying")
  /\ told' = [told EXCEPT ![c] =
       {u \in User \ {user[c]} : Holding(server[c], u) # {}}]
  /\ UNCHANGED <<shared, user, server, overlaps, kills, failures>>

\* notify_existing_online_users: SMEMBERS ...
ReadMembers(c) ==
  /\ Goes(c, "announced", "notifying")
  /\ told' = [told EXCEPT ![c] = online \ {user[c]}]
  /\ UNCHANGED <<shared, user, server, overlaps, kills, failures>>

\* ... and HGETALL for each: a member without a hash is skipped.
ReadProfiles(c) ==
  /\ Goes(c, "notifying", "active")
  /\ told' = [told EXCEPT ![c] = @ \cap profiles]
  /\ UNCHANGED <<shared, user, server, overlaps, kills, failures>>

\* SMEMBERS fails, or HGETALL from some member on.
NotNotified(c) ==
  /\ \/ Goes(c, "announced", "active") /\ UNCHANGED told
     \/ /\ Goes(c, "notifying", "active")
        /\ \E some \in SUBSET (told[c] \cap profiles) : told' = [told EXCEPT ![c] = some]
  /\ RedisFails
  /\ UNCHANGED <<shared, user, server, overlaps, kills>>

-----------------------------------------------------------------------------
(***************************************************************************)
(* The end of a session                                                    *)
(***************************************************************************)
\* The client hangs up, or the database server cannot be reached.
Disconnect(c) ==
  /\ Goes(c, "active", "leaving")
  /\ told' = [told EXCEPT ![c] = {}]
  /\ UNCHANGED <<shared, user, server, overlaps, kills, failures>>

\* redis_user_offline, first command: SREM.
Remove(c) ==
  /\ Goes(c, "leaving", "removed")
  /\ online' = online \ {user[c]}
  /\ UNCHANGED <<users, profiles, user, server, told, overlaps, kills, failures>>

\* redis_user_offline, second command: DEL.
DeleteProfile(c) ==
  /\ Goes(c, "removed", "withdrawn")
  /\ profiles' = profiles \ {user[c]}
  /\ UNCHANGED <<users, online, user, server, told, overlaps, kills, failures>>

NotRemoved(c) ==
  /\ Goes(c, "leaving", "withdrawn") \/ Goes(c, "removed", "withdrawn")
  /\ RedisFails
  /\ UNCHANGED <<shared, user, server, told, overlaps, kills>>

\* The process ends.
Ended(C) ==
  /\ stage' = [c \in Child |-> IF c \in C THEN "idle" ELSE stage[c]]
  /\ user' = [c \in Child |-> IF c \in C THEN None ELSE user[c]]
  /\ server' = [c \in Child |-> IF c \in C THEN None ELSE server[c]]
  /\ told' = [c \in Child |-> IF c \in C THEN {} ELSE told[c]]

\* Mutant: exit without shm_unregister_user.
JustExit(c) ==
  /\ stage[c] = "withdrawn"
  /\ Ended({c})
  /\ UNCHANGED <<users, online, profiles, overlaps, kills, failures>>

\* Mutant: the user is looked for until the slot is found.
UnregisterHeld(c) ==
  LET held == Holding(server[c], user[c])
  IN /\ stage[c] = "withdrawn"
     /\ held # {}
     /\ users' = [users EXCEPT ![server[c]][First(held)] = None]
     /\ Ended({c})
     /\ UNCHANGED <<online, profiles, overlaps, kills, failures>>

\* The slot of the user, whoever registered it last, is cleared.
shm_unregister_user(c) ==
  LET held == Holding(server[c], user[c])
  IN /\ stage[c] = "withdrawn"
     /\ users' = IF held = {} THEN users
                 ELSE [users EXCEPT ![server[c]][First(held)] = None]
     /\ Ended({c})
     /\ UNCHANGED <<online, profiles, overlaps, kills, failures>>

\* SIGPIPE: the client is gone and the child writes to it, an answer or the list
\* of the others.
Killed(c) ==
  /\ stage[c] \in {"notifying", "active"}
  /\ Troubles < MaxTroubles
  /\ kills' = kills + 1
  /\ Ended({c})
  /\ UNCHANGED <<users, online, profiles, overlaps, failures>>

ChildrenOf(s) == {c \in Child : server[c] = s}

\* SIGINT reaches the server and its children; it starts again with a new table.
Restart(s) ==
  /\ Troubles + Cardinality(ChildrenOf(s)) <= MaxTroubles
  /\ kills' = kills + Cardinality(ChildrenOf(s))
  /\ users' = [users EXCEPT ![s] = [i \in Slot |-> None]]
  /\ Ended(ChildrenOf(s))
  /\ UNCHANGED <<online, profiles, overlaps, failures>>

-----------------------------------------------------------------------------
Login(c) ==
  \/ shm_register_user(c) \/ Add(c) \/ SetProfile(c) \/ NotAdded(c)
  \/ ReadMembers(c) \/ ReadProfiles(c) \/ NotNotified(c)

Logout(c) ==
  \/ Remove(c) \/ DeleteProfile(c) \/ NotRemoved(c) \/ shm_unregister_user(c)

Next ==
  \/ \E c \in Child : Authenticate(c) \/ Login(c) \/ Disconnect(c) \/ Logout(c) \/ Killed(c)
  \/ \E s \in Server : Restart(s)

Spec == Init /\ [][Next]_vars

\* Children run; nobody makes a client log in, hang up or go away.
FairSpec == Spec /\ \A c \in Child : WF_vars(Login(c) \/ Logout(c))

-----------------------------------------------------------------------------
(***************************************************************************)
(* Properties                                                              *)
(***************************************************************************)
Stage == {"idle", "authenticated", "registered", "added", "announced", "notifying",
          "active", "leaving", "removed", "withdrawn"}

\* Tables hold users with the address of a child, and a child has a user and a
\* server from its login to its end.
TypeOK ==
  /\ users \in [Server -> [Slot -> Entry \cup {None}]]
  /\ online \subseteq User
  /\ profiles \subseteq User
  /\ stage \in [Child -> Stage]
  /\ user \in [Child -> User \cup {None}]
  /\ server \in [Child -> Server \cup {None}]
  /\ \A c \in Child : stage[c] = "idle" <=> user[c] = None
  /\ \A c \in Child : stage[c] = "idle" <=> server[c] = None
  /\ told \in [Child -> SUBSET User]
  /\ {overlaps, kills, failures} \subseteq Nat

\* No user holds two slots of a server, whoever logs in twice, is killed or finds
\* the table full: shm_unregister_user clears one slot only, so that a second one
\* would stay for good.
OneSlotPerUser ==
  \A s \in Server, u \in User : \A i, j \in Holding(s, u) : i = j

Active == {c \in Child : stage[c] = "active"}

\* A user with a session is in online_user_ids and has a profile, whatever was killed
\* before.  Each command that does not reach Redis, and each login of a user that a
\* child still serves, takes one user out at most.
ActiveUsersAreOnline ==
  Cardinality({user[c] : c \in Active} \ (online \cap profiles)) <= overlaps + failures

Reachable(c) == \E i \in Slot : users[server[c]][i] = [id |-> user[c], address |-> c]

\* With a slot for every child, a user with a session is notified at the address of
\* that session.  Each killed child, whose slot stays taken, and each login of a user
\* that a child still serves makes one session unreachable at most.
ActiveUsersAreReachable ==
  TableSize >= Cardinality(Child) =>
    Cardinality({c \in Active : ~Reachable(c)}) <= overlaps + kills

\* The users that Redis or a table has and no child serves any more.
OnlineGhosts ==
  {u \in online : \A c \in Child :
     user[c] = u => stage[c] \in {"authenticated", "registered", "withdrawn"}}
SlotGhosts ==
  {p \in Server \X User : Holding(p[1], p[2]) # {} /\
     \A c \in Child : ~(server[c] = p[1] /\ user[c] = p[2] /\ stage[c] # "authenticated")}

\* Each child that is killed, and each command that does not reach Redis, leaves one
\* ghost at most: nothing else makes a user who left look present or fills a table.
GhostsPerTrouble ==
  /\ Cardinality(OnlineGhosts) <= kills + failures
  /\ Cardinality(SlotGhosts) <= kills

\* Of two users that log in at the same time, on any servers, one at least is told of
\* the other, and then is there to be notified by the other's USER_ONLINE: a child
\* adds its user to Redis before it reads who else is there.
NobodyIsMissed ==
  overlaps = 0 /\ failures = 0 =>
    \A c, d \in Child : stage[c] = "active" /\ stage[d] = "active" /\ c # d =>
      user[d] \in told[c] \/ user[c] \in told[d]

\* A client that hangs up is forgotten in the end.
SessionsEnd == \A c \in Child : stage[c] = "leaving" ~> stage[c] = "idle"

\* "Reconexión - actualizar nickname, IP y puerto": a user who logged in again is in
\* the table for as long as the new session lasts.
ReconnectedUsersAreRegistered ==
  \A c \in Child : stage[c] = "active" => Holding(server[c], user[c]) # {}

===============================================================================
