---------------------------- MODULE Presence_proofs ----------------------------
(***************************************************************************)
(* What is bounded by the troubles so far in Presence is bounded for any   *)
(* number of servers, users, children, slots and troubles.                 *)
(***************************************************************************)
EXTENDS Presence, BoundedSets

-----------------------------------------------------------------------------
\* The first of some slots is one of them.
LEMMA FirstIsOne == ASSUME NEW I \in SUBSET Slot, I # {} PROVE First(I) \in I
<1>1. I \in SUBSET Nat
  BY DEF Slot
<1>2. PICK i \in I : \A j \in I : i <= j
  BY <1>1, SomeIsLeast
<1> QED
  BY <1>2 DEF First

-----------------------------------------------------------------------------
(***************************************************************************)
(* Types                                                                   *)
(***************************************************************************)
LEMMA InitTypeOK == Init => TypeOK
  BY PresenceAssumption DEF Init, TypeOK, Stage

LEMMA ChildrenAreFinite ==
  ASSUME NEW S \in SUBSET Child PROVE IsFiniteSet(S) /\ Cardinality(S) \in Nat
  BY PresenceAssumption, FS_Subset, FS_CardinalityType

LEMMA UsersOfChildren ==
  ASSUME TypeOK, NEW C \in SUBSET Child
  PROVE  AtMost({user[c] : c \in C}, Cardinality(C)) /\ Cardinality(C) \in Nat
<1>1. user \in [Child -> User \cup {None}]
  BY DEF TypeOK
<1> QED
  BY <1>1, ChildrenAreFinite, ImageIsBounded

LEMMA ServedIsServing ==
  ASSUME TypeOK, NEW c \in Child, stage[c] # "idle"
  PROVE  user[c] \in User /\ server[c] \in Server
  BY DEF TypeOK

\* What registration writes: in a table of its own server one slot is the user's.
LEMMA RegisteredSlot ==
  ASSUME TypeOK, NEW c \in Child, shm_register_user(c)
  PROVE  /\ user[c] \in User /\ server[c] \in Server
         /\ \/ \E i \in Holding(server[c], user[c]) :
                 users' = [users EXCEPT ![server[c]][i] = [id |-> user[c], address |-> c]]
            \/ /\ Holding(server[c], user[c]) = {}
               /\ \E i \in Free(server[c]) :
                    users' = [users EXCEPT ![server[c]][i] = [id |-> user[c], address |-> c]]
            \/ /\ Holding(server[c], user[c]) = {} /\ Free(server[c]) = {}
               /\ users' = users
<1>1. user[c] \in User /\ server[c] \in Server
  BY ServedIsServing DEF shm_register_user, Goes
<1>2. Holding(server[c], user[c]) \in SUBSET Slot /\ Free(server[c]) \in SUBSET Slot
  BY DEF Holding, Free
<1>3. users' = Registered(server[c], user[c], c)
  BY DEF shm_register_user
<1> HIDE DEF Holding, Free
<1> QED
  BY <1>1, <1>2, <1>3, FirstIsOne DEF Registered

\* A child that ends clears the slot of its user, if there is one.
LEMMA ClearedSlot ==
  ASSUME TypeOK, NEW c \in Child, shm_unregister_user(c)
  PROVE  /\ user[c] \in User /\ server[c] \in Server
         /\ \/ Holding(server[c], user[c]) = {} /\ users' = users
            \/ \E i \in Holding(server[c], user[c]) :
                 users' = [users EXCEPT ![server[c]][i] = None]
<1>1. user[c] \in User /\ server[c] \in Server
  BY ServedIsServing DEF shm_unregister_user
<1>2. Holding(server[c], user[c]) \in SUBSET Slot
  BY DEF Holding
<1> HIDE DEF Holding
<1> QED
  BY <1>1, <1>2, FirstIsOne DEF shm_unregister_user

LEMMA EndedTypes ==
  ASSUME TypeOK, NEW C \in SUBSET Child, Ended(C)
  PROVE  /\ stage' \in [Child -> Stage]
         /\ user' \in [Child -> User \cup {None}]
         /\ server' \in [Child -> Server \cup {None}]
         /\ \A c \in Child : stage'[c] = "idle" <=> user'[c] = None
         /\ \A c \in Child : stage'[c] = "idle" <=> server'[c] = None
         /\ told' \in [Child -> SUBSET User]
  BY DEF TypeOK, Ended, Stage

LEMMA NextTypeOK == TypeOK /\ [Next]_vars => TypeOK'
<1> SUFFICES ASSUME TypeOK, [Next]_vars PROVE TypeOK'
  OBVIOUS
<1>1. ASSUME NEW c \in Child, Authenticate(c) PROVE TypeOK'
  BY <1>1, PresenceAssumption DEF TypeOK, Authenticate, Goes, Stage, shared
<1>2. ASSUME NEW c \in Child, shm_register_user(c) PROVE TypeOK'
  <2>1. users' \in [Server -> [Slot -> Entry \cup {None}]]
    <3> DEFINE entry == [id |-> user[c], address |-> c]
    <3>1. entry \in Entry /\ server[c] \in Server
      BY <1>2, RegisteredSlot DEF Entry
    <3>2. \/ users' = users
          \/ \E i \in Slot : users' = [users EXCEPT ![server[c]][i] = entry]
      BY <1>2, RegisteredSlot DEF Holding, Free
    <3> HIDE DEF entry
    <3> QED
      BY <3>1, <3>2 DEF TypeOK
  <2> QED
    BY <1>2, <2>1 DEF TypeOK, shm_register_user, Goes, Stage
<1>3. ASSUME NEW c \in Child, Add(c) \/ SetProfile(c) \/ Remove(c) \/ DeleteProfile(c)
      PROVE TypeOK'
  <2>1. user[c] \in User
    BY <1>3, ServedIsServing DEF Add, SetProfile, Remove, DeleteProfile, Goes
  <2> QED
    BY <1>3, <2>1 DEF TypeOK, Add, SetProfile, Remove, DeleteProfile, Goes, Stage
<1>4. ASSUME NEW c \in Child, NotAdded(c) \/ NotNotified(c) \/ NotRemoved(c) PROVE TypeOK'
  BY <1>4 DEF TypeOK, NotAdded, NotNotified, NotRemoved, RedisFails, Goes, Stage, shared
<1>5. ASSUME NEW c \in Child, ReadMembers(c) \/ ReadProfiles(c) \/ Disconnect(c)
      PROVE TypeOK'
  BY <1>5 DEF TypeOK, ReadMembers, ReadProfiles, Disconnect, Goes, Stage, shared
<1>6. ASSUME NEW c \in Child, shm_unregister_user(c) PROVE TypeOK'
  <2>1. users' \in [Server -> [Slot -> Entry \cup {None}]]
    BY <1>6, ClearedSlot DEF TypeOK
  <2> QED
    BY <1>6, <2>1, EndedTypes DEF TypeOK, shm_unregister_user
<1>7. ASSUME NEW c \in Child, Killed(c) PROVE TypeOK'
  BY <1>7, EndedTypes DEF TypeOK, Killed
<1>8. ASSUME NEW s \in Server, Restart(s) PROVE TypeOK'
  <2>1. ChildrenOf(s) \in SUBSET Child
    BY DEF ChildrenOf
  <2>2. kills' \in Nat
    BY <1>8, <2>1, ChildrenAreFinite DEF TypeOK, Restart
  <2>3. users' \in [Server -> [Slot -> Entry \cup {None}]]
    BY <1>8 DEF TypeOK, Restart
  <2> QED
    BY <1>8, <2>1, <2>2, <2>3, EndedTypes DEF TypeOK, Restart
<1>9. CASE UNCHANGED vars
  BY <1>9 DEF TypeOK, vars, shared
<1> QED
  BY <1>1, <1>2, <1>3, <1>4, <1>5, <1>6, <1>7, <1>8, <1>9 DEF Next, Login, Logout

\* Tables, Redis and children are well-formed: a child has a user and a server exactly
\* while it serves.
THEOREM TypeCorrectness == Spec => []TypeOK
  BY InitTypeOK, NextTypeOK, PTL DEF Spec

-----------------------------------------------------------------------------
(***************************************************************************)
(* One slot for each user                                                  *)
(***************************************************************************)
LEMMA InitOneSlot == Init => OneSlotPerUser
  BY DEF Init, OneSlotPerUser, Holding

\* Tables change when a session is registered, when one ends and when a server restarts.
LEMMA TablesKept ==
  ASSUME [Next]_vars,
         ~ \E c \in Child : shm_register_user(c) \/ shm_unregister_user(c),
         ~ \E s \in Server : Restart(s)
  PROVE  users' = users
  BY DEF Next, Login, Logout, Authenticate, Add, SetProfile, NotAdded, ReadMembers,
         ReadProfiles, NotNotified, Disconnect, Remove, DeleteProfile, NotRemoved, Killed,
         shared, vars

LEMMA NextOneSlot == TypeOK /\ OneSlotPerUser /\ [Next]_vars => OneSlotPerUser'
<1> SUFFICES ASSUME TypeOK, OneSlotPerUser, [Next]_vars PROVE OneSlotPerUser'
  OBVIOUS
<1>1. ASSUME NEW c \in Child, shm_register_user(c) PROVE OneSlotPerUser'
  <2> DEFINE entry == [id |-> user[c], address |-> c]
  <2>1. server[c] \in Server /\ entry.id = user[c] /\ entry \in Entry \ {None}
    BY <1>1, RegisteredSlot, PresenceAssumption DEF Entry
  <2>2. \/ users' = users
        \/ \E i \in Slot :
             /\ users' = [users EXCEPT ![server[c]][i] = entry]
             /\ Holding(server[c], user[c]) \in {{}, {i}}
    <3>1. \A i \in Holding(server[c], user[c]) : Holding(server[c], user[c]) = {i}
      BY <1>1, RegisteredSlot DEF OneSlotPerUser
    <3> QED
      BY <1>1, <3>1, RegisteredSlot DEF Holding, Free
  <2> HIDE DEF entry
  <2>3. CASE users' = users
    BY <2>3 DEF OneSlotPerUser, Holding
  <2>4. ASSUME NEW i \in Slot, users' = [users EXCEPT ![server[c]][i] = entry],
               Holding(server[c], user[c]) \in {{}, {i}}
        PROVE  OneSlotPerUser'
    <3> SUFFICES ASSUME NEW s \in Server, NEW u \in User,
                        NEW j \in Holding(s, u)', NEW k \in Holding(s, u)'
                 PROVE  j = k
      BY DEF OneSlotPerUser
    <3>1. CASE s = server[c] /\ u = user[c]
      <4>1. \A m \in Slot \ {i} : users'[s][m] = users[s][m]
        BY <2>1, <2>4, <3>1 DEF TypeOK
      <4> QED
        BY <2>4, <3>1, <4>1 DEF Holding
    <3>2. CASE s = server[c] /\ u # user[c]
      <4>1. /\ \A m \in Slot \ {i} : users'[s][m] = users[s][m]
            /\ users'[s][i].id # u
        BY <2>1, <2>4, <3>2 DEF TypeOK
      <4>2. j \in Holding(s, u) /\ k \in Holding(s, u)
        BY <4>1 DEF Holding
      <4> QED
        BY <4>2 DEF OneSlotPerUser
    <3>3. CASE s # server[c]
      <4>1. users'[s] = users[s]
        BY <2>1, <2>4, <3>3 DEF TypeOK
      <4> QED
        BY <4>1 DEF OneSlotPerUser, Holding
    <3> QED
      BY <3>1, <3>2, <3>3
  <2> QED
    BY <2>2, <2>3, <2>4
<1>2. ASSUME \/ \E c \in Child : shm_unregister_user(c)
             \/ \E s \in Server : Restart(s)
      PROVE  OneSlotPerUser'
  <2>1. \A s \in Server, i \in Slot : users'[s][i] \in {users[s][i], None}
    <3>1. ASSUME NEW c \in Child, shm_unregister_user(c)
          PROVE  \A s \in Server, i \in Slot : users'[s][i] \in {users[s][i], None}
      BY <3>1, ClearedSlot DEF TypeOK
    <3>2. ASSUME NEW r \in Server, Restart(r)
          PROVE  \A s \in Server, i \in Slot : users'[s][i] \in {users[s][i], None}
      BY <3>2 DEF TypeOK, Restart
    <3> QED
      BY <1>2, <3>1, <3>2
  <2> QED
    BY <2>1 DEF OneSlotPerUser, Holding
<1>3. CASE users' = users
  BY <1>3 DEF OneSlotPerUser, Holding
<1> QED
  BY <1>1, <1>2, <1>3, TablesKept

\* shm_unregister_user, which clears one slot, leaves no other of that user behind.
THEOREM OneSlot == Spec => []OneSlotPerUser
  BY InitOneSlot, NextOneSlot, TypeCorrectness, PTL DEF Spec

-----------------------------------------------------------------------------
(***************************************************************************)
(* Users with a session are online                                         *)
(*                                                                         *)
(* A user can be taken out of Redis while a session goes on only as long   *)
(* as two children serve that user.  The users that are out, with those    *)
(* that might be put out, are what the troubles bound.                     *)
(***************************************************************************)
Overlapping == {u \in User : \E c, d \in Child : c # d /\ user[c] = u /\ user[d] = u}

Unannounced(c) ==
  \/ stage[c] = "added" /\ user[c] \notin online
  \/ stage[c] \in {"announced", "notifying", "active"} /\ user[c] \notin online \cap profiles

Exposed ==
  Overlapping \cup {u \in User : \E c \in Child : user[c] = u /\ Unannounced(c)}

ExposedAreCounted == AtMost(Exposed, overlaps + failures)

LEMMA InitExposed == Init => ExposedAreCounted
<1> SUFFICES ASSUME Init PROVE ExposedAreCounted
  OBVIOUS
<1>1. Exposed = {}
  BY PresenceAssumption DEF Init, Exposed, Overlapping, Unannounced
<1>2. overlaps + failures \in Nat
  BY DEF Init
<1> QED
  BY <1>1, <1>2, NothingIsBounded DEF ExposedAreCounted

\* A child that ends exposes nobody.
LEMMA EndedExposed ==
  ASSUME TypeOK, NEW C \in SUBSET Child, Ended(C), UNCHANGED <<online, profiles>>
  PROVE  Exposed' \subseteq Exposed
  BY PresenceAssumption DEF Ended, Exposed, Overlapping, Unannounced, TypeOK

LEMMA NextExposed == TypeOK /\ ExposedAreCounted /\ [Next]_vars => ExposedAreCounted'
<1> SUFFICES ASSUME TypeOK, ExposedAreCounted, [Next]_vars PROVE ExposedAreCounted'
  OBVIOUS
<1> DEFINE n == overlaps + failures
<1>1. n \in Nat /\ n' \in Nat
  BY NextTypeOK DEF TypeOK
<1>2. ASSUME Exposed' \subseteq Exposed, n <= n' PROVE ExposedAreCounted'
  BY <1>1, <1>2, PartIsBounded DEF ExposedAreCounted
<1>3. ASSUME NEW x, Exposed' \subseteq Exposed \cup {x}, n' = n + 1 PROVE ExposedAreCounted'
  BY <1>1, <1>3, OneMoreIsBounded DEF ExposedAreCounted
<1>4. ASSUME NEW c \in Child, Authenticate(c) PROVE ExposedAreCounted'
  <2>1. PICK u \in User :
          /\ user' = [user EXCEPT ![c] = u]
          /\ overlaps' = IF \E d \in Child : user[d] = u THEN overlaps + 1 ELSE overlaps
    BY <1>4 DEF Authenticate
  <2>2. /\ stage' = [stage EXCEPT ![c] = "authenticated"]
        /\ UNCHANGED <<online, profiles, failures>>
    BY <1>4 DEF Authenticate, Goes, shared
  <2>3. Exposed' \subseteq Exposed \cup {u}
    BY <2>1, <2>2 DEF Exposed, Overlapping, Unannounced, TypeOK
  <2>4. CASE \E d \in Child : user[d] = u
    <3>1. n' = n + 1
      BY <2>1, <2>2, <2>4 DEF TypeOK
    <3> QED
      BY <1>3, <2>3, <3>1
  <2>5. CASE ~ \E d \in Child : user[d] = u
    <3>1. Exposed' \subseteq Exposed
      BY <2>1, <2>2, <2>5 DEF Exposed, Overlapping, Unannounced, TypeOK
    <3>2. n' = n
      BY <2>1, <2>2, <2>5
    <3> QED
      BY <1>1, <1>2, <3>1, <3>2
  <2> QED
    BY <2>4, <2>5
<1>5. ASSUME NEW c \in Child,
             \/ shm_register_user(c) \/ Add(c) \/ SetProfile(c) \/ ReadMembers(c)
             \/ ReadProfiles(c) \/ Disconnect(c)
      PROVE  ExposedAreCounted'
  <2>1. Exposed' \subseteq Exposed
    BY <1>5 DEF shm_register_user, Add, SetProfile, ReadMembers, ReadProfiles, Disconnect,
                Goes, shared, Exposed, Overlapping, Unannounced, TypeOK
  <2>2. n' = n
    BY <1>5 DEF shm_register_user, Add, SetProfile, ReadMembers, ReadProfiles, Disconnect
  <2> QED
    BY <1>1, <1>2, <2>1, <2>2
<1>6. ASSUME NEW c \in Child, NotAdded(c) \/ NotNotified(c) \/ NotRemoved(c)
      PROVE  ExposedAreCounted'
  <2>1. Exposed' \subseteq Exposed \cup {user[c]}
    BY <1>6 DEF NotAdded, NotNotified, NotRemoved, RedisFails, Goes, shared,
                Exposed, Overlapping, Unannounced, TypeOK
  <2>2. n' = n + 1
    BY <1>6 DEF NotAdded, NotNotified, NotRemoved, RedisFails, TypeOK
  <2> QED
    BY <1>3, <2>1, <2>2
<1>7. ASSUME NEW c \in Child, Remove(c) \/ DeleteProfile(c) PROVE ExposedAreCounted'
  <2>1. user[c] \in User
    BY <1>7, ServedIsServing DEF Remove, DeleteProfile, Goes
  <2>2. Exposed' \subseteq Exposed
    <3> SUFFICES ASSUME NEW d \in Child, user[d] \in User, Unannounced(d)',
                        user[d] \notin Overlapping
                 PROVE  Unannounced(d)
      BY <1>7 DEF Remove, DeleteProfile, Exposed, Overlapping
    <3>1. c # d
      BY <1>7 DEF Remove, DeleteProfile, Goes, Unannounced, TypeOK
    <3>2. user[d] # user[c] /\ stage'[d] = stage[d]
      BY <1>7, <2>1, <3>1 DEF Overlapping, Remove, DeleteProfile, Goes, TypeOK
    <3> QED
      BY <1>7, <3>2 DEF Unannounced, Remove, DeleteProfile
  <2>3. n' = n
    BY <1>7 DEF Remove, DeleteProfile
  <2> QED
    BY <1>1, <1>2, <2>2, <2>3
<1>8. ASSUME \/ \E c \in Child : shm_unregister_user(c) \/ Killed(c)
             \/ \E s \in Server : Restart(s)
      PROVE  ExposedAreCounted'
  <2>1. \E C \in SUBSET Child : Ended(C)
    BY <1>8 DEF shm_unregister_user, Killed, Restart, ChildrenOf
  <2>2. UNCHANGED <<online, profiles>> /\ n' = n
    BY <1>8 DEF shm_unregister_user, Killed, Restart
  <2> QED
    BY <1>1, <1>2, <2>1, <2>2, EndedExposed
<1>9. CASE UNCHANGED vars
  BY <1>1, <1>2, <1>9 DEF vars, Exposed, Overlapping, Unannounced
<1> QED
  BY <1>4, <1>5, <1>6, <1>7, <1>8, <1>9 DEF Next, Login, Logout

\* Whatever was killed before: only a login of a user who is still served, or a command
\* that does not reach Redis, leaves a user with a session out, and one user each.
THEOREM OnlineIsTrue == Spec => []ActiveUsersAreOnline
<1>1. TypeOK /\ ExposedAreCounted => ActiveUsersAreOnline
  <2> SUFFICES ASSUME TypeOK, ExposedAreCounted PROVE ActiveUsersAreOnline
    OBVIOUS
  <2>1. {user[c] : c \in Active} \ (online \cap profiles) \subseteq Exposed
    BY DEF Active, Exposed, Unannounced, TypeOK
  <2>2. overlaps + failures \in Nat
    BY DEF TypeOK
  <2>3. AtMost({user[c] : c \in Active} \ (online \cap profiles), overlaps + failures)
    BY <2>1, <2>2, PartIsBounded DEF ExposedAreCounted
  <2> QED
    BY <2>3 DEF ActiveUsersAreOnline, AtMost
<1> QED
  BY <1>1, InitExposed, NextExposed, TypeCorrectness, PTL DEF Spec

-----------------------------------------------------------------------------
(***************************************************************************)
(* Nobody is missed                                                        *)
(***************************************************************************)
\* As long as nobody is served twice and Redis is there: children serve different users,
\* who are in Redis from SADD to SREM, and have a profile from HSET to DEL.
InRedis ==
  overlaps = 0 /\ failures = 0 =>
    /\ \A c, d \in Child : c # d /\ user[c] # None => user[c] # user[d]
    /\ \A c \in Child : stage[c] \in {"added", "announced", "notifying", "active", "leaving"}
         => user[c] \in online
    /\ \A c \in Child : stage[c] \in {"announced", "notifying", "active", "leaving", "removed"}
         => user[c] \in profiles

\* Whoever reads later is told of the other.
Told ==
  overlaps = 0 /\ failures = 0 =>
    \A c, d \in Child :
      stage[c] \in {"notifying", "active"} /\ stage[d] \in {"notifying", "active"} /\ c # d
        => user[d] \in told[c] \/ user[c] \in told[d]

LEMMA NextInRedis == TypeOK /\ InRedis /\ [Next]_vars => InRedis'
<1> SUFFICES ASSUME TypeOK, InRedis, [Next]_vars, overlaps' = 0, failures' = 0 PROVE InRedis'
  BY DEF InRedis
<1>1. ASSUME NEW c \in Child, Authenticate(c) PROVE InRedis'
  <2>1. PICK u \in User :
          /\ user' = [user EXCEPT ![c] = u]
          /\ overlaps' = IF \E d \in Child : user[d] = u THEN overlaps + 1 ELSE overlaps
    BY <1>1 DEF Authenticate
  <2>2. overlaps = 0 /\ failures = 0 /\ \A d \in Child : user[d] # u
    BY <1>1, <2>1 DEF TypeOK, Authenticate
  <2>3. /\ stage' = [stage EXCEPT ![c] = "authenticated"]
        /\ UNCHANGED <<online, profiles>>
    BY <1>1 DEF Authenticate, Goes, shared
  <2> QED
    BY <2>1, <2>2, <2>3 DEF InRedis, TypeOK
<1>2. ASSUME NEW c \in Child,
             \/ shm_register_user(c) \/ Add(c) \/ SetProfile(c) \/ ReadMembers(c)
             \/ ReadProfiles(c) \/ Disconnect(c) \/ Remove(c) \/ DeleteProfile(c)
      PROVE  InRedis'
  <2>1. overlaps = 0 /\ failures = 0 /\ user' = user /\ user[c] \in User
    BY <1>2, ServedIsServing
    DEF shm_register_user, Add, SetProfile, ReadMembers, ReadProfiles, Disconnect, Remove,
        DeleteProfile, Goes
  <2>2. \A d \in Child \ {c} : user[d] # user[c] /\ stage'[d] = stage[d]
    BY <1>2, <2>1, PresenceAssumption
    DEF InRedis, shm_register_user, Add, SetProfile, ReadMembers, ReadProfiles, Disconnect,
        Remove, DeleteProfile, Goes, TypeOK
  <2>3. /\ \A d \in Child \ {c} : user[d] \in online => user[d] \in online'
        /\ \A d \in Child \ {c} : user[d] \in profiles => user[d] \in profiles'
    BY <1>2, <2>2
    DEF shm_register_user, Add, SetProfile, ReadMembers, ReadProfiles, Disconnect, Remove,
        DeleteProfile, shared
  <2>4. /\ stage'[c] \in {"added", "announced", "notifying", "active", "leaving"}
             => user[c] \in online'
        /\ stage'[c] \in {"announced", "notifying", "active", "leaving", "removed"}
             => user[c] \in profiles'
    BY <1>2, <2>1
    DEF InRedis, shm_register_user, Add, SetProfile, ReadMembers, ReadProfiles, Disconnect,
        Remove, DeleteProfile, Goes, TypeOK, shared
  <2> QED
    BY <2>1, <2>2, <2>3, <2>4 DEF InRedis
<1>3. ASSUME NEW c \in Child, NotAdded(c) \/ NotNotified(c) \/ NotRemoved(c) PROVE FALSE
  BY <1>3 DEF NotAdded, NotNotified, NotRemoved, RedisFails, TypeOK
<1>4. ASSUME \/ \E c \in Child : shm_unregister_user(c) \/ Killed(c)
             \/ \E s \in Server : Restart(s)
      PROVE  InRedis'
  <2>1. PICK C \in SUBSET Child : Ended(C)
    BY <1>4 DEF shm_unregister_user, Killed, Restart, ChildrenOf
  <2>2. UNCHANGED <<online, profiles, overlaps, failures>>
    BY <1>4 DEF shm_unregister_user, Killed, Restart
  <2> QED
    BY <2>1, <2>2 DEF InRedis, Ended, TypeOK
<1>5. CASE UNCHANGED vars
  BY <1>5 DEF vars, InRedis
<1> QED
  BY <1>1, <1>2, <1>3, <1>4, <1>5 DEF Next, Login, Logout

LEMMA NextTold == TypeOK /\ InRedis /\ Told /\ [Next]_vars => Told'
<1> SUFFICES ASSUME TypeOK, InRedis, Told, [Next]_vars, overlaps' = 0, failures' = 0 PROVE Told'
  BY DEF Told
<1>1. ASSUME NEW c \in Child, Authenticate(c) PROVE Told'
  <2>1. /\ stage' = [stage EXCEPT ![c] = "authenticated"] /\ told' = told
        /\ overlaps = 0 /\ failures = 0
        /\ \A d \in Child \ {c} : user'[d] = user[d]
    BY <1>1 DEF Authenticate, Goes, shared, TypeOK
  <2> QED
    BY <2>1 DEF Told, TypeOK
<1>2. ASSUME NEW c \in Child,
             \/ shm_register_user(c) \/ Add(c) \/ SetProfile(c)
             \/ Disconnect(c) \/ Remove(c) \/ DeleteProfile(c)
      PROVE  Told'
  <2>1. overlaps = 0 /\ failures = 0 /\ user' = user
    BY <1>2 DEF shm_register_user, Add, SetProfile, Disconnect, Remove, DeleteProfile
  <2>2. stage'[c] \notin {"notifying", "active"}
    BY <1>2 DEF shm_register_user, Add, SetProfile, Disconnect, Remove, DeleteProfile, Goes,
                TypeOK
  <2>3. \A d \in Child \ {c} : stage'[d] = stage[d] /\ told'[d] = told[d]
    BY <1>2 DEF shm_register_user, Add, SetProfile, Disconnect, Remove, DeleteProfile, Goes,
                TypeOK
  <2> QED
    BY <2>1, <2>2, <2>3 DEF Told
<1>3. ASSUME NEW c \in Child, ReadMembers(c) PROVE Told'
  <2>1. /\ overlaps = 0 /\ failures = 0 /\ user' = user
        /\ stage' = [stage EXCEPT ![c] = "notifying"]
        /\ told' = [told EXCEPT ![c] = online \ {user[c]}]
    BY <1>3 DEF ReadMembers, Goes
  <2>2. user[c] \in User
    BY <1>3, ServedIsServing DEF ReadMembers, Goes
  <2>3. \A d \in Child \ {c} : stage[d] \in {"notifying", "active"} => user[d] \in told'[c]
    BY <2>1, <2>2, PresenceAssumption DEF InRedis, TypeOK
  <2> QED
    BY <2>1, <2>3 DEF Told, TypeOK
<1>4. ASSUME NEW c \in Child, ReadProfiles(c) PROVE Told'
  <2>1. /\ overlaps = 0 /\ failures = 0 /\ user' = user
        /\ stage[c] = "notifying" /\ stage' = [stage EXCEPT ![c] = "active"]
        /\ told' = [told EXCEPT ![c] = @ \cap profiles]
    BY <1>4 DEF ReadProfiles, Goes
  <2>2. \A d \in Child : stage[d] \in {"notifying", "active"} => user[d] \in profiles
    BY <2>1 DEF InRedis
  <2> QED
    BY <2>1, <2>2 DEF Told, TypeOK
<1>5. ASSUME NEW c \in Child, NotAdded(c) \/ NotNotified(c) \/ NotRemoved(c) PROVE FALSE
  BY <1>5 DEF NotAdded, NotNotified, NotRemoved, RedisFails, TypeOK
<1>6. ASSUME \/ \E c \in Child : shm_unregister_user(c) \/ Killed(c)
             \/ \E s \in Server : Restart(s)
      PROVE  Told'
  <2>1. PICK C \in SUBSET Child : Ended(C)
    BY <1>6 DEF shm_unregister_user, Killed, Restart, ChildrenOf
  <2>2. UNCHANGED <<overlaps, failures>>
    BY <1>6 DEF shm_unregister_user, Killed, Restart
  <2> QED
    BY <2>1, <2>2 DEF Told, Ended, TypeOK
<1>7. CASE UNCHANGED vars
  BY <1>7 DEF vars, Told
<1> QED
  BY <1>1, <1>2, <1>3, <1>4, <1>5, <1>6, <1>7 DEF Next, Login, Logout

\* Of any two users with a session one was told of the other, as SADD comes before
\* SMEMBERS in every child, however many log in at once on however many servers.
THEOREM NobodyMissed == Spec => []NobodyIsMissed
<1>1. Init => InRedis /\ Told
  BY PresenceAssumption DEF Init, InRedis, Told
<1>2. Told => NobodyIsMissed
  BY DEF Told, NobodyIsMissed
<1> QED
  BY <1>1, <1>2, NextInRedis, NextTold, TypeCorrectness, PTL DEF Spec

-----------------------------------------------------------------------------
(***************************************************************************)
(* Ghosts in Redis                                                         *)
(*                                                                         *)
(* OnlineGhosts is not inductive: a child between SREM and DEL may serve   *)
(* a user whom another child of that user has added again and left there.  *)
(***************************************************************************)
Leftovers ==
  {u \in online : \A c \in Child :
     user[c] = u => stage[c] \in {"authenticated", "registered", "removed", "withdrawn"}}

LeftoversAreCounted == AtMost(Leftovers, kills + failures)

LEMMA InitLeftovers == Init => LeftoversAreCounted
<1> SUFFICES ASSUME Init PROVE LeftoversAreCounted
  OBVIOUS
<1>1. Leftovers = {} /\ kills + failures \in Nat
  BY DEF Init, Leftovers
<1> QED
  BY <1>1, NothingIsBounded DEF LeftoversAreCounted

LEMMA NextLeftovers == TypeOK /\ LeftoversAreCounted /\ [Next]_vars => LeftoversAreCounted'
<1> SUFFICES ASSUME TypeOK, LeftoversAreCounted, [Next]_vars PROVE LeftoversAreCounted'
  OBVIOUS
<1> DEFINE n == kills + failures
<1>1. n \in Nat /\ n' \in Nat
  BY NextTypeOK DEF TypeOK
<1>2. ASSUME Leftovers' \subseteq Leftovers, n <= n' PROVE LeftoversAreCounted'
  BY <1>1, <1>2, PartIsBounded DEF LeftoversAreCounted
<1>3. ASSUME NEW x, Leftovers' \subseteq Leftovers \cup {x}, n' = n + 1
      PROVE  LeftoversAreCounted'
  BY <1>1, <1>3, OneMoreIsBounded DEF LeftoversAreCounted
<1>4. ASSUME NEW c \in Child, Authenticate(c) PROVE LeftoversAreCounted'
  <2>1. Leftovers' \subseteq Leftovers
    BY <1>4, PresenceAssumption DEF Authenticate, Goes, shared, Leftovers, TypeOK
  <2> QED
    BY <1>1, <1>2, <1>4, <2>1 DEF Authenticate
<1>5. ASSUME NEW c \in Child,
             \/ shm_register_user(c) \/ Add(c) \/ SetProfile(c) \/ ReadMembers(c)
             \/ ReadProfiles(c) \/ Disconnect(c) \/ Remove(c) \/ DeleteProfile(c)
      PROVE  LeftoversAreCounted'
  <2>1. Leftovers' \subseteq Leftovers
    BY <1>5 DEF shm_register_user, Add, SetProfile, ReadMembers, ReadProfiles, Disconnect,
                Remove, DeleteProfile, Goes, shared, Leftovers, TypeOK
  <2>2. n' = n
    BY <1>5 DEF shm_register_user, Add, SetProfile, ReadMembers, ReadProfiles, Disconnect,
                Remove, DeleteProfile
  <2> QED
    BY <1>1, <1>2, <2>1, <2>2
<1>6. ASSUME NEW c \in Child, NotAdded(c) \/ NotNotified(c) \/ NotRemoved(c)
      PROVE  LeftoversAreCounted'
  <2>1. Leftovers' \subseteq Leftovers \cup {user[c]}
    BY <1>6 DEF NotAdded, NotNotified, NotRemoved, RedisFails, Goes, shared, Leftovers, TypeOK
  <2>2. n' = n + 1
    BY <1>6 DEF NotAdded, NotNotified, NotRemoved, RedisFails, TypeOK
  <2> QED
    BY <1>3, <2>1, <2>2
<1>7. ASSUME NEW c \in Child, shm_unregister_user(c) PROVE LeftoversAreCounted'
  <2>1. Leftovers' \subseteq Leftovers
    BY <1>7, PresenceAssumption DEF shm_unregister_user, Ended, Leftovers, TypeOK
  <2> QED
    BY <1>1, <1>2, <1>7, <2>1 DEF shm_unregister_user
<1>8. ASSUME NEW c \in Child, Killed(c) PROVE LeftoversAreCounted'
  <2>1. Leftovers' \subseteq Leftovers \cup {user[c]}
    BY <1>8, PresenceAssumption DEF Killed, Ended, Leftovers, TypeOK
  <2>2. n' = n + 1
    BY <1>8 DEF Killed, TypeOK
  <2> QED
    BY <1>3, <2>1, <2>2
<1>9. ASSUME NEW s \in Server, Restart(s) PROVE LeftoversAreCounted'
  <2> DEFINE m == Cardinality(ChildrenOf(s))
  <2>1. ChildrenOf(s) \in SUBSET Child
    BY DEF ChildrenOf
  <2>2. AtMost({user[c] : c \in ChildrenOf(s)}, m) /\ m \in Nat
    BY <2>1, UsersOfChildren
  <2>3. Leftovers' \in SUBSET (Leftovers \cup {user[c] : c \in ChildrenOf(s)})
    BY <1>9, PresenceAssumption DEF Restart, Ended, Leftovers, TypeOK
  <2>4. n' = n + m
    BY <1>9, <2>2 DEF Restart, TypeOK
  <2> HIDE DEF m
  <2> QED
    BY <1>1, <2>2, <2>3, <2>4, UnionIsBounded DEF LeftoversAreCounted
<1>10. CASE UNCHANGED vars
  BY <1>1, <1>2, <1>10 DEF vars, shared, Leftovers
<1> QED
  BY <1>4, <1>5, <1>6, <1>7, <1>8, <1>9, <1>10 DEF Next, Login, Logout

-----------------------------------------------------------------------------
(***************************************************************************)
(* Ghosts in the tables                                                    *)
(*                                                                         *)
(* A slot is fresh as long as the child that registered it last serves     *)
(* that user there.  A killed child leaves one stale slot behind.          *)
(***************************************************************************)
Fresh(s, i) ==
  LET a == users[s][i].address
  IN server[a] = s /\ user[a] = users[s][i].id /\ stage[a] # "authenticated"

Stale == {p \in Server \X Slot : users[p[1]][p[2]] # None /\ ~Fresh(p[1], p[2])}

StaleAreCounted == AtMost(Stale, kills)

LEMMA InitStale == Init => StaleAreCounted
<1> SUFFICES ASSUME Init PROVE StaleAreCounted
  OBVIOUS
<1>1. Stale = {} /\ kills \in Nat
  BY DEF Init, Stale
<1> QED
  BY <1>1, NothingIsBounded DEF StaleAreCounted

LEMMA StaleSlot ==
  ASSUME NEW s \in Server, NEW i \in Slot
  PROVE  <<s, i>> \in Stale <=> users[s][i] # None /\ ~Fresh(s, i)
  BY DEF Stale

LEMMA SlotEntry ==
  ASSUME TypeOK, NEW s \in Server, NEW i \in Slot, users[s][i] # None
  PROVE  users[s][i] \in Entry /\ users[s][i].id \in User /\ users[s][i].address \in Child
  BY DEF TypeOK, Entry

\* Registration changes no slot but one of its server, which becomes that session's.
LEMMA RegisteredTables ==
  ASSUME TypeOK, NEW c \in Child, shm_register_user(c), NEW s \in Server, NEW i \in Slot
  PROVE  \/ users'[s][i] = users[s][i]
         \/ s = server[c] /\ users'[s][i] = [id |-> user[c], address |-> c]
<1> DEFINE entry == [id |-> user[c], address |-> c]
<1>1. \/ users' = users
      \/ \E j \in Slot : users' = [users EXCEPT ![server[c]][j] = entry]
  BY RegisteredSlot DEF Holding, Free
<1> HIDE DEF entry
<1>2. \/ users'[s][i] = users[s][i]
      \/ s = server[c] /\ users'[s][i] = entry
  BY <1>1 DEF TypeOK
<1> QED
  BY <1>2 DEF entry

\* The end of a session clears a slot of that user, if there is one.
LEMMA ClearedTables ==
  ASSUME TypeOK, OneSlotPerUser, NEW c \in Child, shm_unregister_user(c),
         NEW s \in Server, NEW i \in Slot
  PROVE  users'[s][i] = IF s = server[c] /\ i \in Holding(s, user[c])
                        THEN None ELSE users[s][i]
<1>1. CASE Holding(server[c], user[c]) = {} /\ users' = users
  BY <1>1
<1>2. ASSUME NEW j \in Holding(server[c], user[c]),
             users' = [users EXCEPT ![server[c]][j] = None]
      PROVE  users'[s][i] = IF s = server[c] /\ i \in Holding(s, user[c])
                            THEN None ELSE users[s][i]
  <2>1. user[c] \in User /\ server[c] \in Server
    BY ClearedSlot
  <2>2. Holding(server[c], user[c]) = {j}
    BY <1>2, <2>1 DEF OneSlotPerUser
  <2> HIDE DEF Holding
  <2> QED
    BY <1>2, <2>1, <2>2 DEF TypeOK
<1> QED
  BY <1>1, <1>2, ClearedSlot

LEMMA NextStale ==
  TypeOK /\ OneSlotPerUser /\ StaleAreCounted /\ [Next]_vars => StaleAreCounted'
<1> SUFFICES ASSUME TypeOK, OneSlotPerUser, StaleAreCounted, [Next]_vars
             PROVE  StaleAreCounted'
  OBVIOUS
<1>1. kills \in Nat /\ kills' \in Nat
  BY NextTypeOK DEF TypeOK
<1>2. ASSUME Stale' \subseteq Stale, kills <= kills' PROVE StaleAreCounted'
  BY <1>1, <1>2, PartIsBounded DEF StaleAreCounted
<1>3. ASSUME NEW c \in Child, Authenticate(c) PROVE StaleAreCounted'
  <2>1. \A s \in Server, i \in Slot :
          users[s][i] # None /\ Fresh(s, i) => users[s][i].address # c
    BY <1>3, SlotEntry, PresenceAssumption DEF Authenticate, Goes, Fresh, TypeOK
  <2>2. /\ users' = users
        /\ \A d \in Child \ {c} :
             user'[d] = user[d] /\ server'[d] = server[d] /\ stage'[d] = stage[d]
    BY <1>3 DEF Authenticate, Goes, shared, TypeOK
  <2>3. Stale' \subseteq Stale
    BY <2>1, <2>2, SlotEntry DEF Stale, Fresh
  <2> QED
    BY <1>1, <1>2, <1>3, <2>3 DEF Authenticate
<1>4. ASSUME NEW c \in Child, shm_register_user(c) PROVE StaleAreCounted'
  <2>1. /\ UNCHANGED <<user, server>> /\ stage[c] = "authenticated"
        /\ stage' = [stage EXCEPT ![c] = "registered"]
    BY <1>4 DEF shm_register_user, Goes
  <2>2. \A s \in Server, i \in Slot :
          users'[s][i] # None /\ ~Fresh(s, i)' => users[s][i] # None /\ ~Fresh(s, i)
    <3> SUFFICES ASSUME NEW s \in Server, NEW i \in Slot, users'[s][i] # None,
                        ~Fresh(s, i)'
                 PROVE  users[s][i] # None /\ ~Fresh(s, i)
      OBVIOUS
    <3>1. CASE s = server[c] /\ users'[s][i] = [id |-> user[c], address |-> c]
      BY <2>1, <3>1 DEF Fresh, TypeOK
    <3>2. CASE users'[s][i] = users[s][i]
      BY <2>1, <3>2, SlotEntry DEF Fresh, TypeOK
    <3> QED
      BY <1>4, <3>1, <3>2, RegisteredTables
  <2>3. Stale' \subseteq Stale
    BY <2>2 DEF Stale
  <2> QED
    BY <1>1, <1>2, <1>4, <2>3 DEF shm_register_user
<1>5. ASSUME NEW c \in Child,
             \/ Add(c) \/ SetProfile(c) \/ NotAdded(c) \/ ReadMembers(c) \/ ReadProfiles(c)
             \/ NotNotified(c) \/ Disconnect(c) \/ Remove(c) \/ DeleteProfile(c)
             \/ NotRemoved(c)
      PROVE  StaleAreCounted'
  <2>1. /\ UNCHANGED <<users, user, server, kills>>
        /\ \A d \in Child : stage'[d] = "authenticated" <=> stage[d] = "authenticated"
    BY <1>5 DEF Add, SetProfile, NotAdded, ReadMembers, ReadProfiles, NotNotified, Disconnect,
                Remove, DeleteProfile, NotRemoved, Goes, shared, TypeOK
  <2>2. Stale' \subseteq Stale
    BY <2>1, SlotEntry DEF Stale, Fresh
  <2> QED
    BY <1>1, <1>2, <2>1, <2>2
<1>6. ASSUME NEW c \in Child, shm_unregister_user(c) PROVE StaleAreCounted'
  <2>1. \A d \in Child \ {c} :
          user'[d] = user[d] /\ server'[d] = server[d] /\ stage'[d] = stage[d]
    BY <1>6 DEF shm_unregister_user, Ended
  <2>2. \A s \in Server, i \in Slot :
          users'[s][i] # None /\ ~Fresh(s, i)' => users[s][i] # None /\ ~Fresh(s, i)
    <3> SUFFICES ASSUME NEW s \in Server, NEW i \in Slot, users'[s][i] # None, Fresh(s, i)
                 PROVE  Fresh(s, i)'
      BY <1>6, ClearedTables
    <3>1. /\ users'[s][i] = users[s][i]
          /\ ~(s = server[c] /\ i \in Holding(s, user[c]))
      BY <1>6, ClearedTables
    <3>2. users[s][i].address \in Child \ {c}
      BY <3>1, SlotEntry DEF Fresh, Holding
    <3> QED
      BY <2>1, <3>1, <3>2 DEF Fresh
  <2>3. Stale' \subseteq Stale
    BY <2>2 DEF Stale
  <2> QED
    BY <1>1, <1>2, <1>6, <2>3 DEF shm_unregister_user
<1>7. ASSUME NEW c \in Child, Killed(c) PROVE StaleAreCounted'
  <2>1. /\ users' = users /\ kills' = kills + 1
        /\ \A d \in Child \ {c} :
             user'[d] = user[d] /\ server'[d] = server[d] /\ stage'[d] = stage[d]
    BY <1>7 DEF Killed, Ended
  <2>2. user[c] \in User /\ server[c] \in Server
    BY <1>7, ServedIsServing DEF Killed
  <2>3. PICK x : Stale' \subseteq Stale \cup {x}
    <3>1. \A p \in Stale' \ Stale :
            p[1] = server[c] /\ p[2] \in Holding(server[c], user[c])
      <4> SUFFICES ASSUME NEW s \in Server, NEW i \in Slot, users[s][i] # None,
                          Fresh(s, i), ~Fresh(s, i)'
                   PROVE  s = server[c] /\ i \in Holding(server[c], user[c])
        BY <2>1 DEF Stale
      <4>1. users[s][i].address = c
        BY <2>1, SlotEntry DEF Fresh
      <4> QED
        BY <4>1 DEF Fresh, Holding
    <3>2. \A p \in Stale', q \in Stale' : p[1] = q[1] /\ p[2] = q[2] => p = q
      BY DEF Stale
    <3>3. \A p, q \in Stale' \ Stale : p = q
      BY <2>2, <3>1, <3>2 DEF OneSlotPerUser
    <3> QED
      BY <3>3
  <2> QED
    BY <1>1, <2>1, <2>3, OneMoreIsBounded DEF StaleAreCounted
<1>8. ASSUME NEW r \in Server, Restart(r) PROVE StaleAreCounted'
  <2>1. /\ users' = [users EXCEPT ![r] = [i \in Slot |-> None]]
        /\ \A d \in Child : server[d] # r =>
             user'[d] = user[d] /\ server'[d] = server[d] /\ stage'[d] = stage[d]
    BY <1>8 DEF Restart, Ended, ChildrenOf
  <2>2. \A s \in Server, i \in Slot :
          users'[s][i] # None /\ ~Fresh(s, i)' => users[s][i] # None /\ ~Fresh(s, i)
    <3> SUFFICES ASSUME NEW s \in Server, NEW i \in Slot, users'[s][i] # None
                 PROVE  /\ users[s][i] # None
                        /\ Fresh(s, i) => Fresh(s, i)'
      OBVIOUS
    <3>1. s # r /\ users'[s] = users[s]
      BY <2>1 DEF TypeOK
    <3>2. users[s][i].address \in Child
      BY <3>1, SlotEntry
    <3> QED
      BY <2>1, <3>1, <3>2 DEF Fresh
  <2>3. Stale' \subseteq Stale
    BY <2>2 DEF Stale
  <2>4. kills <= kills'
    <3>1. ChildrenOf(r) \in SUBSET Child
      BY DEF ChildrenOf
    <3>2. Cardinality(ChildrenOf(r)) \in Nat
      BY <3>1, ChildrenAreFinite
    <3>3. kills' = kills + Cardinality(ChildrenOf(r))
      BY <1>8 DEF Restart
    <3> HIDE DEF ChildrenOf
    <3> QED
      BY <1>1, <3>2, <3>3
  <2> QED
    BY <1>2, <2>3, <2>4
<1>9. CASE UNCHANGED vars
  BY <1>1, <1>2, <1>9 DEF vars, shared, Stale, Fresh
<1> QED
  BY <1>3, <1>4, <1>5, <1>6, <1>7, <1>8, <1>9 DEF Next, Login, Logout

LEMMA StaleBound == Spec => []StaleAreCounted
  BY InitStale, NextStale, OneSlot, TypeCorrectness, PTL DEF Spec

\* A slot of a ghost is stale, and it is the slot of that ghost only.
LEMMA GhostsHoldStaleSlots == TypeOK /\ StaleAreCounted => AtMost(SlotGhosts, kills)
<1> SUFFICES ASSUME TypeOK, StaleAreCounted PROVE AtMost(SlotGhosts, kills)
  OBVIOUS
<1> DEFINE f == [p \in SlotGhosts |-> <<p[1], CHOOSE i \in Holding(p[1], p[2]) : TRUE>>]
<1>1. \A p \in SlotGhosts :
        /\ p \in Server \X User
        /\ f[p] \in Stale
        /\ f[p][1] = p[1]
        /\ users[p[1]][f[p][2]].id = p[2]
  <2> SUFFICES ASSUME NEW p \in SlotGhosts
               PROVE  /\ p \in Server \X User
                      /\ f[p] \in Stale
                      /\ f[p][1] = p[1]
                      /\ users[p[1]][f[p][2]].id = p[2]
    OBVIOUS
  <2>1. /\ p \in Server \X User /\ Holding(p[1], p[2]) # {}
        /\ \A c \in Child : ~(server[c] = p[1] /\ user[c] = p[2] /\ stage[c] # "authenticated")
    BY DEF SlotGhosts
  <2>2. PICK i \in Holding(p[1], p[2]) : f[p] = <<p[1], i>>
    BY <2>1
  <2>3. i \in Slot /\ users[p[1]][i] # None /\ users[p[1]][i].id = p[2]
    BY <2>2 DEF Holding
  <2>4. users[p[1]][i].address \in Child
    BY <2>1, <2>3, SlotEntry
  <2>5. ~Fresh(p[1], i)
    BY <2>1, <2>3, <2>4 DEF Fresh
  <2> HIDE DEF f
  <2> QED
    BY <2>1, <2>2, <2>3, <2>5 DEF Stale
<1>2. f \in [SlotGhosts -> Stale]
  BY <1>1
<1>3. \A p, q \in SlotGhosts : f[p] = f[q] => p = q
  <2> HIDE DEF f
  <2> QED
    BY <1>1
<1>4. kills \in Nat
  BY DEF TypeOK
<1> HIDE DEF f
<1> QED
  BY <1>2, <1>3, <1>4, InjectionIsBounded DEF StaleAreCounted

\* Only a killed child, or a command that does not reach Redis, leaves somebody behind in
\* Redis or in a table, and each leaves one at most.
THEOREM GhostsAreCounted == Spec => []GhostsPerTrouble
<1>1. TypeOK /\ LeftoversAreCounted /\ StaleAreCounted => GhostsPerTrouble
  <2> SUFFICES ASSUME TypeOK, LeftoversAreCounted, StaleAreCounted PROVE GhostsPerTrouble
    OBVIOUS
  <2>1. OnlineGhosts \subseteq Leftovers
    BY DEF OnlineGhosts, Leftovers
  <2>2. kills + failures \in Nat
    BY DEF TypeOK
  <2>3. AtMost(OnlineGhosts, kills + failures)
    BY <2>1, <2>2, PartIsBounded DEF LeftoversAreCounted
  <2> QED
    BY <2>3, GhostsHoldStaleSlots DEF GhostsPerTrouble, AtMost
<1> QED
  BY <1>1, InitLeftovers, NextLeftovers, StaleBound, TypeCorrectness, PTL DEF Spec

-----------------------------------------------------------------------------
(***************************************************************************)
(* Users with a session can be reached                                     *)
(*                                                                         *)
(* Each child either brings a user that no other child brings, who is      *)
(* about to be registered or is reachable at it, or is paid for by a       *)
(* trouble.                                                                *)
(***************************************************************************)
Live == {c \in Child : stage[c] # "idle"}
Kept == {c \in Live : stage[c] = "authenticated" \/ Reachable(c)}
KeptUsers == {user[c] : c \in Kept}

ChildrenArePaidFor ==
  TableSize >= Cardinality(Child) =>
    Cardinality(Live) <= kills + overlaps + Cardinality(KeptUsers)

LEMMA CountsAreNumbers ==
  ASSUME TypeOK
  PROVE  /\ IsFiniteSet(Live) /\ Cardinality(Live) \in Nat
         /\ IsFiniteSet(Kept) /\ Cardinality(Kept) \in Nat
         /\ IsFiniteSet(KeptUsers) /\ Cardinality(KeptUsers) \in Nat
         /\ Cardinality(KeptUsers) <= Cardinality(Kept)
         /\ kills \in Nat /\ overlaps \in Nat
         /\ TableSize \in Nat /\ Cardinality(Child) \in Nat /\ Cardinality(Live) <= Cardinality(Child)
<1>1. Live \in SUBSET Child /\ Kept \in SUBSET Child
  BY DEF Live, Kept
<1>2. AtMost(KeptUsers, Cardinality(Kept))
  BY <1>1, UsersOfChildren DEF KeptUsers
<1>3. IsFiniteSet(Child) /\ TableSize \in Nat
  BY PresenceAssumption
<1> QED
  BY <1>1, <1>2, <1>3, ChildrenAreFinite, FS_CardinalityType, FS_Subset DEF AtMost, TypeOK

\* The conclusion that is wanted of it.
LEMMA PaidForIsReachable == TypeOK /\ ChildrenArePaidFor => ActiveUsersAreReachable
<1> SUFFICES ASSUME TypeOK, ChildrenArePaidFor, TableSize >= Cardinality(Child)
             PROVE  Cardinality({c \in Active : ~Reachable(c)}) <= overlaps + kills
  BY DEF ActiveUsersAreReachable
<1> DEFINE Lost == {c \in Active : ~Reachable(c)}
<1>1. Lost \cap Kept = {} /\ Lost \cup Kept \in SUBSET Live /\ Lost \in SUBSET Child
  BY DEF Kept, Live, Active
<1>2. IsFiniteSet(Lost) /\ Cardinality(Lost) \in Nat
  BY <1>1, ChildrenAreFinite
<1>3. Cardinality(Lost \cup Kept) = Cardinality(Lost) + Cardinality(Kept)
  <2>1. Cardinality(Lost \cup Kept)
          = Cardinality(Lost) + Cardinality(Kept) - Cardinality(Lost \cap Kept)
    BY <1>2, CountsAreNumbers, FS_Union
  <2>2. Cardinality(Lost \cap Kept) = 0
    BY <1>1, FS_EmptySet
  <2> HIDE DEF Lost
  <2> QED
    BY <1>2, <2>1, <2>2, CountsAreNumbers
<1>4. Cardinality(Lost \cup Kept) <= Cardinality(Live)
  BY <1>1, CountsAreNumbers, FS_Subset
<1> HIDE DEF Lost
<1>5. Cardinality(Lost) <= overlaps + kills
  BY <1>2, <1>3, <1>4, CountsAreNumbers DEF ChildrenArePaidFor
<1> QED
  BY <1>5 DEF Lost

LEMMA NextCountsAreNumbers ==
  ASSUME TypeOK'
  PROVE  /\ IsFiniteSet(KeptUsers') /\ Cardinality(KeptUsers') \in Nat
         /\ kills' \in Nat /\ overlaps' \in Nat
<1>1. Kept' \in SUBSET Child /\ user' \in [Child -> User \cup {None}]
  BY DEF Live, Kept, TypeOK
<1>2. AtMost(KeptUsers', Cardinality(Kept'))
  BY <1>1, ChildrenAreFinite, ImageIsBounded DEF KeptUsers
<1> QED
  BY <1>2, FS_CardinalityType DEF AtMost, TypeOK

\* A step that ends no child and takes no user out, or for which a trouble pays.
LEMMA NoneIsLost ==
  ASSUME TypeOK, TypeOK', ChildrenArePaidFor, Live' = Live, KeptUsers \subseteq KeptUsers',
         kills + overlaps <= kills' + overlaps'
  PROVE  ChildrenArePaidFor'
<1>1. Cardinality(KeptUsers) <= Cardinality(KeptUsers')
  BY NextCountsAreNumbers, FS_Subset
<1> QED
  BY <1>1, CountsAreNumbers, NextCountsAreNumbers DEF ChildrenArePaidFor

\* The end of some children takes out no user that another one brings.
LEMMA EndedArePaidFor ==
  ASSUME TypeOK, TypeOK', ChildrenArePaidFor, NEW C \in SUBSET Live, Ended(C),
         \A d \in Kept \ C : d \in Kept' \/ \E c \in C : user[d] = user[c],
         kills + overlaps <= kills' + overlaps'
  PROVE  ChildrenArePaidFor'
<1> DEFINE m == Cardinality(C)
<1>1. C \in SUBSET Child /\ m \in Nat /\ IsFiniteSet(C)
  BY ChildrenAreFinite DEF Live
<1>2. Live' = Live \ C
  BY DEF Live, Ended
<1>3. Cardinality(Live') = Cardinality(Live) - m
  <2>1. Cardinality(Live \ C) = Cardinality(Live) - Cardinality(Live \cap C)
    BY CountsAreNumbers, FS_Difference
  <2>2. Live \cap C = C
    OBVIOUS
  <2> QED
    BY <1>2, <2>1, <2>2
<1>4. KeptUsers \in SUBSET (KeptUsers' \cup {user[c] : c \in C})
  <2> SUFFICES ASSUME NEW d \in Kept, ~ \E c \in C : user[d] = user[c]
               PROVE  user[d] \in KeptUsers'
    BY DEF KeptUsers
  <2>1. d \in Kept' /\ user'[d] = user[d]
    BY DEF Kept, Live, Ended
  <2> QED
    BY <2>1 DEF KeptUsers
<1>5. AtMost({user[c] : c \in C}, m)
  BY <1>1, UsersOfChildren
<1> HIDE DEF m
<1>6. Cardinality(KeptUsers) <= Cardinality(KeptUsers') + m
  <2>1. AtMost(KeptUsers', Cardinality(KeptUsers'))
    BY NextCountsAreNumbers DEF AtMost
  <2> QED
    BY <1>1, <1>4, <1>5, <2>1, NextCountsAreNumbers, UnionIsBounded DEF AtMost
<1> QED
  BY <1>1, <1>3, <1>6, CountsAreNumbers, NextCountsAreNumbers DEF ChildrenArePaidFor

\* In a full table each slot that is not stale brings a user of its own.
LEMMA FullTable ==
  ASSUME TypeOK, OneSlotPerUser, StaleAreCounted, NEW s \in Server, Free(s) = {},
         NEW K, IsFiniteSet(K),
         \A i \in Slot : Fresh(s, i) => users[s][i].id \in K
  PROVE  TableSize <= kills + Cardinality(K)
<1> DEFINE Old == {i \in Slot : ~Fresh(s, i)}
           New == Slot \ Old
           pair == [i \in Old |-> <<s, i>>]
           id == [i \in New |-> users[s][i].id]
<1>1. \A i \in Slot : users[s][i] # None
  BY DEF Free
<1>2. AtMost(Old, kills)
  <2>1. pair \in [Old -> Stale]
    BY <1>1 DEF Stale
  <2>2. \A i, j \in Old : pair[i] = pair[j] => i = j
    OBVIOUS
  <2>3. kills \in Nat
    BY DEF TypeOK
  <2> HIDE DEF pair, Old
  <2> QED
    BY <2>1, <2>2, <2>3, InjectionIsBounded DEF StaleAreCounted
<1>3. AtMost(New, Cardinality(K))
  <2>1. id \in [New -> K]
    OBVIOUS
  <2>2. \A i, j \in New : id[i] = id[j] => i = j
    <3>1. \A i \in New : users[s][i].id \in User /\ i \in Holding(s, users[s][i].id)
      BY <1>1, SlotEntry DEF Holding
    <3> HIDE DEF Holding, New
    <3> QED
      BY <3>1 DEF OneSlotPerUser
  <2>3. Cardinality(K) \in Nat /\ AtMost(K, Cardinality(K))
    BY FS_CardinalityType DEF AtMost
  <2> HIDE DEF id, New
  <2> QED
    BY <2>1, <2>2, <2>3, InjectionIsBounded
<1>4. Slot \in SUBSET (Old \cup New)
  OBVIOUS
<1>5. kills \in Nat /\ Cardinality(K) \in Nat /\ TableSize \in Nat
  BY FS_CardinalityType, PresenceAssumption DEF TypeOK
<1>6. Cardinality(Slot) = TableSize
  BY <1>5, FS_Interval DEF Slot
<1> HIDE DEF Old, New
<1>7. AtMost(Slot, kills + Cardinality(K))
  BY <1>2, <1>3, <1>4, <1>5, UnionIsBounded
<1> QED
  BY <1>6, <1>7 DEF AtMost

LEMMA AuthenticatedArePaidFor ==
  ASSUME TypeOK, TypeOK', ChildrenArePaidFor, NEW c \in Child, Authenticate(c)
  PROVE  ChildrenArePaidFor'
<1>1. PICK u \in User :
        /\ user' = [user EXCEPT ![c] = u]
        /\ overlaps' = IF \E d \in Child : user[d] = u THEN overlaps + 1 ELSE overlaps
  BY DEF Authenticate
<1>2. /\ stage[c] = "idle" /\ stage' = [stage EXCEPT ![c] = "authenticated"]
      /\ \A d \in Child \ {c} : server'[d] = server[d]
      /\ users' = users /\ kills' = kills
  BY DEF Authenticate, Goes, shared, TypeOK
<1>3. Cardinality(Live') = Cardinality(Live) + 1
  <2>1. Live' = Live \cup {c} /\ c \notin Live
    BY <1>2 DEF Live, TypeOK
  <2> QED
    BY <2>1, CountsAreNumbers, FS_AddElement
<1>4. KeptUsers \cup {u} \subseteq KeptUsers'
  <2>1. \A d \in Kept : d \in Kept' /\ user'[d] = user[d]
    BY <1>1, <1>2 DEF Kept, Live, Reachable, TypeOK
  <2>2. c \in Kept' /\ user'[c] = u
    BY <1>1, <1>2 DEF Kept, Live, TypeOK
  <2> QED
    BY <2>1, <2>2 DEF KeptUsers
<1>5. CASE \E d \in Child : user[d] = u
  <2>1. Cardinality(KeptUsers) <= Cardinality(KeptUsers')
    BY <1>4, NextCountsAreNumbers, FS_Subset
  <2>2. overlaps' = overlaps + 1
    BY <1>1, <1>5
  <2> QED
    BY <1>2, <1>3, <2>1, <2>2, CountsAreNumbers, NextCountsAreNumbers DEF ChildrenArePaidFor
<1>6. CASE ~ \E d \in Child : user[d] = u
  <2>1. u \notin KeptUsers
    BY <1>6 DEF KeptUsers, Kept, Live
  <2>2. Cardinality(KeptUsers \cup {u}) = Cardinality(KeptUsers) + 1
    BY <2>1, CountsAreNumbers, FS_AddElement
  <2>3. Cardinality(KeptUsers \cup {u}) <= Cardinality(KeptUsers')
    BY <1>4, NextCountsAreNumbers, FS_Subset
  <2>4. overlaps' = overlaps
    BY <1>1, <1>6
  <2> QED
    BY <1>2, <1>3, <2>2, <2>3, <2>4, CountsAreNumbers, NextCountsAreNumbers
    DEF ChildrenArePaidFor
<1> QED
  BY <1>5, <1>6

\* A user for whom there is no slot is paid for: what is not stale in the full table
\* brings as many users as there are slots, but for those of killed children.
LEMMA RegisteredArePaidFor ==
  ASSUME TypeOK, TypeOK', OneSlotPerUser, StaleAreCounted, ChildrenArePaidFor,
         NEW c \in Child, shm_register_user(c)
  PROVE  ChildrenArePaidFor'
<1> DEFINE s == server[c]
           u == user[c]
           entry == [id |-> u, address |-> c]
<1>1. /\ stage[c] = "authenticated" /\ stage' = [stage EXCEPT ![c] = "registered"]
      /\ UNCHANGED <<user, server, kills, overlaps>>
  BY DEF shm_register_user, Goes
<1>2. u \in User /\ s \in Server
  BY RegisteredSlot
<1>3. Live' = Live
  BY <1>1 DEF Live, TypeOK
<1>4. CASE Holding(s, u) = {} /\ Free(s) = {} /\ users' = users
  <2>1. \A i \in Slot : Fresh(s, i) => users[s][i].id \in KeptUsers'
    <3> SUFFICES ASSUME NEW i \in Slot, Fresh(s, i)
                 PROVE  users[s][i].id \in KeptUsers'
      OBVIOUS
    <3> DEFINE a == users[s][i].address
    <3>1. users[s][i] # None
      BY <1>4 DEF Free
    <3>2. a \in Child /\ users[s][i].id \in User
      BY <1>2, <3>1, SlotEntry
    <3>3. users[s][i] = [id |-> users[s][i].id, address |-> a]
      BY <1>2, <3>1, SlotEntry DEF Entry
    <3>4. server[a] = s /\ user[a] = users[s][i].id /\ stage[a] # "authenticated"
      BY DEF Fresh
    <3> HIDE DEF a, s
    <3>5. Reachable(a) /\ stage[a] # "idle"
      BY <3>2, <3>3, <3>4, PresenceAssumption DEF Reachable, TypeOK
    <3>6. a \in Kept'
      BY <1>1, <1>4, <3>2, <3>4, <3>5 DEF Kept, Live, Reachable, TypeOK
    <3> QED
      BY <1>1, <3>4, <3>6 DEF KeptUsers
  <2>2. TableSize <= kills + Cardinality(KeptUsers')
    BY <1>2, <1>4, <2>1, NextCountsAreNumbers, FullTable
  <2> QED
    BY <1>1, <1>3, <2>2, CountsAreNumbers, NextCountsAreNumbers DEF ChildrenArePaidFor
<1>5. ASSUME NEW i \in Slot, users' = [users EXCEPT ![s][i] = entry],
             i \in Holding(s, u) \/ users[s][i] = None
      PROVE  ChildrenArePaidFor'
  <2> HIDE DEF entry
  <2>1. users'[s][i] = entry
    BY <1>2, <1>5 DEF TypeOK
  <2>2. c \in Kept' /\ user'[c] = u
    BY <1>1, <1>2, <2>1 DEF Kept, Live, Reachable, entry, TypeOK
  <2>3. \A d \in Kept : user[d] # u => d \in Kept'
    <3> SUFFICES ASSUME NEW d \in Kept, user[d] # u, stage[d] # "authenticated"
                 PROVE  Reachable(d)'
      BY <1>1, <1>3, <2>2 DEF Kept, TypeOK
    <3>1. d \in Child /\ server[d] \in Server
      BY ServedIsServing DEF Kept, Live
    <3>2. PICK j \in Slot : users[server[d]][j] = [id |-> user[d], address |-> d]
      BY DEF Kept, Reachable
    <3>3. users[server[d]][j].id = user[d] /\ users[server[d]][j] # None
      <4>1. [id |-> user[d], address |-> d] \in Entry
        BY <3>1, ServedIsServing DEF Entry, Kept, Live
      <4> QED
        BY <3>2, <4>1, PresenceAssumption
    <3>4. users'[server[d]][j] = users[server[d]][j]
      BY <1>2, <1>5, <3>1, <3>3 DEF Holding, TypeOK
    <3> QED
      BY <1>1, <3>2, <3>4 DEF Reachable
  <2>4. KeptUsers \subseteq KeptUsers'
    BY <1>1, <2>2, <2>3 DEF KeptUsers
  <2>5. kills + overlaps <= kills' + overlaps'
    BY <1>1, CountsAreNumbers
  <2> QED
    BY <1>3, <2>4, <2>5, NoneIsLost
<1> HIDE DEF entry
<1>6. \/ Holding(s, u) = {} /\ Free(s) = {} /\ users' = users
      \/ \E i \in Slot : /\ users' = [users EXCEPT ![s][i] = entry]
                         /\ i \in Holding(s, u) \/ users[s][i] = None
  BY RegisteredSlot DEF Holding, Free, entry
<1> QED
  BY <1>4, <1>5, <1>6

LEMMA NextPaidFor ==
  /\ TypeOK /\ OneSlotPerUser /\ StaleAreCounted /\ ChildrenArePaidFor
  /\ [Next]_vars
  => ChildrenArePaidFor'
<1> SUFFICES ASSUME TypeOK, OneSlotPerUser, StaleAreCounted, ChildrenArePaidFor, [Next]_vars
             PROVE  ChildrenArePaidFor'
  OBVIOUS
<1>1. TypeOK'
  BY NextTypeOK
<1>2. ASSUME NEW c \in Child, Authenticate(c) \/ shm_register_user(c)
      PROVE  ChildrenArePaidFor'
  BY <1>1, <1>2, AuthenticatedArePaidFor, RegisteredArePaidFor
<1>3. ASSUME NEW c \in Child,
             \/ Add(c) \/ SetProfile(c) \/ NotAdded(c) \/ ReadMembers(c) \/ ReadProfiles(c)
             \/ NotNotified(c) \/ Disconnect(c) \/ Remove(c) \/ DeleteProfile(c)
             \/ NotRemoved(c)
      PROVE  ChildrenArePaidFor'
  <2>1. /\ UNCHANGED <<users, user, server, kills, overlaps>>
        /\ \A d \in Child : /\ stage'[d] = "authenticated" <=> stage[d] = "authenticated"
                            /\ stage'[d] = "idle" <=> stage[d] = "idle"
    BY <1>3 DEF Add, SetProfile, NotAdded, ReadMembers, ReadProfiles, NotNotified, Disconnect,
                Remove, DeleteProfile, NotRemoved, Goes, shared, TypeOK
  <2>2. Live' = Live /\ KeptUsers' = KeptUsers
    BY <2>1 DEF Live, Kept, KeptUsers, Reachable
  <2>3. kills + overlaps <= kills' + overlaps'
    BY <2>1, CountsAreNumbers
  <2> QED
    BY <1>1, <2>2, <2>3, NoneIsLost
<1>4. ASSUME NEW c \in Child, shm_unregister_user(c) PROVE ChildrenArePaidFor'
  <2>1. {c} \in SUBSET Live /\ Ended({c}) /\ kills' = kills /\ overlaps' = overlaps
    BY <1>4 DEF shm_unregister_user, Live
  <2>2. \A d \in Kept \ {c} : user[d] # user[c] => d \in Kept'
    <3> SUFFICES ASSUME NEW d \in Kept \ {c}, user[d] # user[c], stage[d] # "authenticated"
                 PROVE  Reachable(d)'
      BY <2>1 DEF Kept, Live, Ended
    <3>1. d \in Child /\ server[d] \in Server /\ user[d] \in User
      BY ServedIsServing DEF Kept, Live
    <3>2. PICK j \in Slot : users[server[d]][j] = [id |-> user[d], address |-> d]
      BY DEF Kept, Reachable
    <3>3. users'[server[d]][j] = users[server[d]][j]
      BY <1>4, <3>1, <3>2, ClearedTables DEF Holding
    <3>4. user'[d] = user[d] /\ server'[d] = server[d]
      BY <2>1, <3>1 DEF Ended
    <3> QED
      BY <3>2, <3>3, <3>4 DEF Reachable
  <2> QED
    BY <1>1, <2>1, <2>2, EndedArePaidFor, CountsAreNumbers
<1>5. ASSUME NEW c \in Child, Killed(c) PROVE ChildrenArePaidFor'
  <2>1. {c} \in SUBSET Live /\ Ended({c}) /\ kills' = kills + 1 /\ UNCHANGED <<users, overlaps>>
    BY <1>5 DEF Killed, Live
  <2>2. \A d \in Kept \ {c} : d \in Kept'
    BY <2>1 DEF Kept, Live, Reachable, Ended
  <2>3. kills + overlaps <= kills' + overlaps'
    BY <2>1, CountsAreNumbers
  <2> QED
    BY <1>1, <2>1, <2>2, <2>3, EndedArePaidFor
<1>6. ASSUME NEW s \in Server, Restart(s) PROVE ChildrenArePaidFor'
  <2>1. /\ ChildrenOf(s) \in SUBSET Live
        /\ Ended(ChildrenOf(s)) /\ UNCHANGED overlaps
        /\ users' = [users EXCEPT ![s] = [i \in Slot |-> None]]
    BY <1>6, PresenceAssumption DEF Restart, ChildrenOf, Live, TypeOK
  <2>2. \A d \in Kept \ ChildrenOf(s) : d \in Kept'
    <3> SUFFICES ASSUME NEW d \in Kept \ ChildrenOf(s) PROVE d \in Kept'
      OBVIOUS
    <3>1. /\ d \in Live /\ d \in Child /\ server[d] # s /\ d \notin ChildrenOf(s)
      BY DEF Kept, Live, ChildrenOf
    <3>2. server[d] \in Server
      BY <3>1, ServedIsServing DEF Live
    <3>3. users'[server[d]] = users[server[d]]
      BY <2>1, <3>1, <3>2 DEF TypeOK
    <3>4. user'[d] = user[d] /\ server'[d] = server[d] /\ stage'[d] = stage[d]
      BY <2>1, <3>1 DEF Ended
    <3> QED
      BY <3>1, <3>3, <3>4 DEF Kept, Live, Reachable
  <2>3. kills + overlaps <= kills' + overlaps'
    <3>1. Cardinality(ChildrenOf(s)) \in Nat
      BY <2>1, ChildrenAreFinite DEF Live
    <3>2. kills' = kills + Cardinality(ChildrenOf(s))
      BY <1>6 DEF Restart
    <3> QED
      BY <2>1, <3>1, <3>2, CountsAreNumbers
  <2> QED
    BY <1>1, <2>1, <2>2, <2>3, EndedArePaidFor
<1>7. CASE UNCHANGED vars
  BY <1>7 DEF vars, shared, ChildrenArePaidFor, Live, Kept, KeptUsers, Reachable
<1> QED
  BY <1>2, <1>3, <1>4, <1>5, <1>6, <1>7 DEF Next, Login, Logout

\* With a slot for every child, a session that others are not notified of is paid for by
\* a killed child or a login of a user who was still served, each by one.
THEOREM SessionsAreReachable == Spec => []ActiveUsersAreReachable
<1>1. Init => ChildrenArePaidFor
  <2> SUFFICES ASSUME Init PROVE ChildrenArePaidFor
    OBVIOUS
  <2>1. TypeOK /\ Live = {} /\ Cardinality(Live) = 0
    BY InitTypeOK, FS_EmptySet DEF Init, Live
  <2> QED
    BY <2>1, CountsAreNumbers DEF ChildrenArePaidFor
<1> QED
  BY <1>1, NextPaidFor, PaidForIsReachable, StaleBound, OneSlot, TypeCorrectness, PTL DEF Spec

================================================================================
