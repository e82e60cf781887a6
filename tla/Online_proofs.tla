----------------------------- MODULE Online_proofs -----------------------------
(***************************************************************************)
(* Proofs about who is shown as online.  What a client shows of a user is  *)
(* right as soon as its login is over, or the last event of the user is on *)
(* its way to it, or a line that says so is.                               *)
(***************************************************************************)
EXTENDS OnlineUsers, TLAPS

-----------------------------------------------------------------------------
(***************************************************************************)
(* Types                                                                   *)
(***************************************************************************)
Stage == {"new", "out", "registered", "online", "told", "in", "leaving", "offline", "untold", "gone"}
Entry == {"none", "reading", "synced", "registered", "listing", "in"}
Flag == {"unknown", "online", "offline"}

EventLine == [kind : {"online", "offline"}, user : Person, number : Nat \ {0}]
LoginLine ==
  [kind : {"start", "end"}, number : {0}]
  \cup [kind : {"CHAT_USER"}, user : Person, flag : {"online", "offline"}, number : {0}]
  \cup [kind : {"online"}, user : Person, number : {0}]

OnlineTypeOK ==
  /\ stage \in [Person -> Stage] /\ home \in [Person -> Host] /\ moves \in [Person -> Nat]
  /\ redis \in SUBSET Person
  /\ published \in [Host -> Seq(EventLine)] /\ direct \in SUBSET EventLine
  /\ web \in BOOLEAN
  /\ entry \in [Viewer -> Entry] /\ unsent \in [Viewer -> SUBSET Person]
  /\ lines \in [Viewer -> Seq(LoginLine)]
  /\ shown \in [Viewer -> [Person -> Flag]] /\ sync \in [Viewer -> [Person -> Flag]]
  /\ last \in [Viewer -> [Person -> Nat]]
  /\ stale \in [Viewer -> SUBSET Person] /\ slipped \in [Viewer -> SUBSET Person]

-----------------------------------------------------------------------------
(***************************************************************************)
(* The inductive invariant                                                 *)
(***************************************************************************)
\* The child of the user has published its last event.
Published(u) == stage[u] \in {"new", "in", "gone", "out"}

\* Redis has those who are between their two commands, and comings and goings have a number.
UsersAreCounted ==
  \A u \in Person :
    /\ u \in redis <=> stage[u] \in {"online", "told", "in", "leaving"}
    /\ moves[u] = 0 => stage[u] \in {"new", "out", "in"}

\* Copies are of events that took place; those of the last one say what is true.
CopiesAreTrue ==
  /\ \A e \in direct :
       /\ e.number <= moves[e.user]
       /\ e.number = moves[e.user] =>
            stage[e.user] \in IF e.kind = "online" THEN {"told", "in"} ELSE {"untold", "gone", "out"}
  /\ \A h \in Host : \A i \in DOMAIN published[h] :
       LET e == published[h][i]
       IN /\ e.number <= moves[e.user]
          /\ e.number = moves[e.user] =>
               stage[e.user] \in IF e.kind = "online" THEN {"in"} ELSE {"gone", "out"}
  /\ \A v \in Viewer, u \in Person : last[v][u] <= moves[u]

\* The last event of a user is in the queue of a server.
Queued(u, h) ==
  \E i \in DOMAIN published[h] : published[h][i].user = u /\ published[h][i].number = moves[u]

\* The last one is behind the earlier ones.
QueuesAreInOrder ==
  \A h \in Host : \A i \in DOMAIN published[h] :
    LET e == published[h][i]
    IN /\ \A j \in DOMAIN published[h] :
            i < j /\ published[h][j].user = e.user => e.number < published[h][j].number
       /\ Published(e.user) => Queued(e.user, h)

\* A login goes on to its end: lines of the database, SYNC_END, users in Redis.
Ends(v) == \E i \in DOMAIN lines[v] : lines[v][i].kind = "end"
Synced(v) == entry[v] \notin {"none", "reading"} /\ ~Ends(v)
LoginsAreInOrder ==
  /\ ~web => \A v, w \in Viewer : entry[v] # "none" /\ entry[w] # "none" => v = w
  /\ direct # {} => \E w \in Viewer : entry[w] # "none"
  /\ \A v \in Viewer :
       /\ entry[v] = "none" => /\ lines[v] = << >> /\ sync[v] = Unknown
                               /\ ~web => shown[v] = Unknown
       /\ entry[v] \in {"none", "reading"} => ~Ends(v)
       /\ entry[v] \notin {"listing", "in"} =>
            \A i \in DOMAIN lines[v] : lines[v][i].kind # "online"
       /\ Synced(v) => \A i \in DOMAIN lines[v] : lines[v][i].kind = "online"
       /\ \A i, j \in DOMAIN lines[v] :
            i < j /\ lines[v][i].kind \in {"end", "online"} => lines[v][j].kind = "online"
       /\ web /\ (entry[v] \in {"none", "reading"} \/ Ends(v)) =>
            \A t \in seen[v] : t.kind # "end"

\* What is on its way to a viewer.
Delivers(h) == \E w \in Viewer : InTable(w) /\ HostOf(w) = h
Awaited(u) == ~Published(u) \/ \E h \in Host : Delivers(h) /\ Queued(u, h)
Listed(v, u) ==
  \/ entry[v] \in {"synced", "registered"}
  \/ entry[v] = "listing" /\ u \in unsent[v]
  \/ \E i \in DOMAIN lines[v] : lines[v][i].kind = "online" /\ lines[v][i].user = u

\* Who hears of an old event by a direct copy has heard of the last one, or will.
DirectIsFollowed(v, u) ==
  v \in Hearing =>
    \A e \in direct : e.user = u =>
      \/ \E w \in Viewer :
           /\ InTable(w)
           /\ ~Published(u) \/ Queued(u, HostOf(w)) \/ last[v][u] = moves[u]
      \/ ~web /\ e.kind = "online" /\ e.number = moves[u]

\* Of a user who is away, the login says so.
AwayIsSaid(v, u) ==
  stage[u] \in {"new", "out"} /\ entry[v] # "none" =>
    /\ \A i \in DOMAIN lines[v] :
         /\ lines[v][i].kind = "online" => lines[v][i].user # u
         /\ lines[v][i].kind = "CHAT_USER" /\ lines[v][i].user = u => lines[v][i].flag = "offline"
    /\ entry[v] = "listing" => u \notin unsent[v]
    /\ ~Synced(v) => IF web THEN sync[v][u] # "online" ELSE shown[v][u] # "online"

\* After the login a user is shown right, or will be.
InIsShown(v, u) ==
  stage[u] = "in" /\ entry[v] \notin {"none", "reading"} =>
    (Synced(v) /\ shown[v][u] = "online") \/ Awaited(u) \/ Listed(v, u)
AwayIsShown(v, u) ==
  stage[u] \in {"new", "gone", "out"} /\ Synced(v) =>
    shown[v][u] # "online" \/ Awaited(u)

RightOrComing(v, u) ==
  DirectIsFollowed(v, u) /\ AwayIsSaid(v, u) /\ InIsShown(v, u) /\ AwayIsShown(v, u)

Ordered == UsersAreCounted /\ CopiesAreTrue /\ QueuesAreInOrder /\ LoginsAreInOrder
OnlineInv ==
  /\ OnlineTypeOK /\ Ordered
  /\ \A v \in Viewer, u \in Person :
       /\ LoggingIn(v) /\ Leaving(u) => u \in slipped[v]
       /\ u \notin stale[v] \cup slipped[v] => RightOrComing(v, u)

-----------------------------------------------------------------------------
(***************************************************************************)
(* Sequences                                                               *)
(***************************************************************************)
LEMMA TailOf ==
  ASSUME NEW S, NEW s \in Seq(S), s # << >>, NEW t, t = Tail(s)
  PROVE  /\ t \in Seq(S) /\ Head(s) = s[1] /\ Head(s) \in S /\ 1 \in DOMAIN s
         /\ \A i \in DOMAIN t : i \in Nat /\ i > 0 /\ i + 1 \in DOMAIN s /\ t[i] = s[i + 1]
         /\ \A j \in DOMAIN s : j \in Nat /\ (j # 1 => j - 1 \in DOMAIN t /\ t[j - 1] = s[j])
<1>1. Len(s) \in Nat /\ Len(s) > 0 /\ DOMAIN s = 1 .. Len(s)
  OBVIOUS
<1>2. t \in Seq(S) /\ Len(t) = Len(s) - 1 /\ DOMAIN t = 1 .. Len(t)
  OBVIOUS
<1>3. \A i \in 1 .. Len(t) : t[i] = s[i + 1]
  BY <1>1, <1>2
<1>4. Head(s) = s[1] /\ Head(s) \in S
  OBVIOUS
<1>5. \A i \in DOMAIN t : i \in Nat /\ i > 0 /\ i + 1 \in DOMAIN s /\ t[i] = s[i + 1]
  BY <1>1, <1>2, <1>3
<1>6. ASSUME NEW j \in DOMAIN s
      PROVE  j \in Nat /\ (j # 1 => j - 1 \in DOMAIN t /\ t[j - 1] = s[j])
  <2>1. j \in Nat /\ j >= 1 /\ j <= Len(s)
    BY <1>1
  <2>2. ASSUME j # 1
        PROVE  j - 1 \in DOMAIN t /\ t[j - 1] = s[j]
    <3>1. j - 1 \in 1 .. Len(t)
      BY <1>1, <1>2, <2>1, <2>2
    <3>2. t[j - 1] = s[(j - 1) + 1] /\ (j - 1) + 1 = j
      BY <1>3, <2>1, <3>1
    <3> QED
      BY <1>2, <3>1, <3>2
  <2> QED
    BY <2>1, <2>2
<1> QED
  BY <1>1, <1>2, <1>4, <1>5, <1>6

\* One more at the end.
LEMMA EndOf ==
  ASSUME NEW S, NEW s \in Seq(S), NEW x \in S, NEW t, t = Append(s, x) \/ t = s \o <<x>>
  PROVE  /\ t \in Seq(S)
         /\ \A i \in DOMAIN s : i \in Nat /\ i \in DOMAIN t /\ t[i] = s[i]
         /\ \E n \in DOMAIN t : /\ t[n] = x /\ n \in Nat /\ \A i \in DOMAIN s : i < n
                                /\ \A i \in DOMAIN t : i \in DOMAIN s \/ i = n
<1>1. Len(s) \in Nat /\ DOMAIN s = 1 .. Len(s)
  OBVIOUS
<1>2. /\ t \in Seq(S) /\ Len(t) = Len(s) + 1 /\ t[Len(s) + 1] = x
      /\ \A i \in 1 .. Len(s) : t[i] = s[i]
  <2>1. CASE t = Append(s, x)
    BY <2>1
  <2>2. CASE t = s \o <<x>>
    <3>1. <<x>> \in Seq(S) /\ Len(<<x>>) = 1 /\ <<x>>[1] = x
      OBVIOUS
    <3> QED
      BY <2>2, <3>1
  <2> QED
    BY <2>1, <2>2
<1>3. DOMAIN t = 1 .. Len(s) + 1
  BY <1>1, <1>2
<1>4. \A i \in DOMAIN s : i \in Nat /\ i \in DOMAIN t /\ t[i] = s[i]
  BY <1>1, <1>2, <1>3
<1>5. /\ Len(s) + 1 \in DOMAIN t /\ t[Len(s) + 1] = x /\ Len(s) + 1 \in Nat
      /\ \A i \in DOMAIN s : i < Len(s) + 1
      /\ \A i \in DOMAIN t : i \in DOMAIN s \/ i = Len(s) + 1
  BY <1>1, <1>2, <1>3
<1> QED
  BY <1>2, <1>4, <1>5

-----------------------------------------------------------------------------
(***************************************************************************)
(* Users come and go                                                       *)
(***************************************************************************)
LEMMA PersonTypes ==
  ASSUME OnlineTypeOK, UsersAreCounted, NEW p \in Person, broadcast(p),
         UNCHANGED <<web, login, lines, display, stale>>,
         slipped' \in [Viewer -> SUBSET Person]
  PROVE  OnlineTypeOK'
<1>1. /\ web' = web /\ entry' = entry /\ unsent' = unsent /\ lines' = lines
      /\ shown' = shown /\ sync' = sync /\ last' = last /\ stale' = stale
  BY DEF login, display
<1>2. Event(p) \in EventLine \/ stage[p] \in {"new", "out", "in"}
  <2>1. ASSUME moves[p] # 0
        PROVE  Event(p) \in EventLine
    <3>1. moves[p] \in Nat \ {0}
      BY <2>1 DEF OnlineTypeOK
    <3> QED
      BY <3>1 DEF Event, Kind, EventLine
  <2> QED
    BY <2>1 DEF UsersAreCounted
<1>3. /\ stage' \in [Person -> Stage] /\ home' \in [Person -> Host] /\ moves' \in [Person -> Nat]
      /\ redis' \in SUBSET Person /\ direct' \in SUBSET EventLine
      /\ published' \in [Host -> Seq(EventLine)]
  <2>1. CASE Come(p)
    <3>1. /\ stage' = [stage EXCEPT ![p] = "registered"] /\ moves' = [moves EXCEPT ![p] = @ + 1]
          /\ redis' = redis /\ published' = published /\ direct' = direct
      BY <2>1 DEF Come, Steps, copies
    <3>2. home' \in [Person -> Host]
      BY <2>1 DEF Come, OnlineTypeOK
    <3>3. stage' \in [Person -> Stage]
      BY <3>1 DEF OnlineTypeOK, Stage
    <3>4. moves' \in [Person -> Nat]
      BY <3>1 DEF OnlineTypeOK
    <3> QED
      BY <3>1, <3>2, <3>3, <3>4 DEF OnlineTypeOK
  <2>2. CASE redis_user_online(p)
    BY <2>2 DEF redis_user_online, Steps, copies, OnlineTypeOK, Stage
  <2>3. CASE udp_broadcast_all(p)
    BY <1>2, <2>3 DEF udp_broadcast_all, Steps, OnlineTypeOK, Stage
  <2>4. CASE publish(p)
    <3>1. Event(p) \in EventLine
      BY <1>2, <2>4 DEF publish, Steps
    <3>2. \A h \in Host : Append(published[h], Event(p)) \in Seq(EventLine)
      BY <3>1 DEF OnlineTypeOK
    <3> QED
      BY <2>4, <3>2 DEF publish, Steps, OnlineTypeOK, Stage
  <2>5. CASE Leave(p)
    BY <2>5 DEF Leave, Steps, copies, OnlineTypeOK, Stage
  <2>6. CASE redis_user_offline(p)
    BY <2>6 DEF redis_user_offline, Steps, copies, OnlineTypeOK, Stage
  <2>7. CASE shm_unregister_user(p)
    BY <2>7 DEF shm_unregister_user, Steps, copies, OnlineTypeOK, Stage
  <2> QED
    BY <2>1, <2>2, <2>3, <2>4, <2>5, <2>6, <2>7 DEF broadcast
<1> QED
  BY <1>1, <1>3 DEF OnlineTypeOK

\* What a step of a user changes.
PersonSteps(p) ==
  /\ stage' = [stage EXCEPT ![p] = stage'[p]] /\ moves' = [moves EXCEPT ![p] = moves'[p]]
  /\ \A u \in Person : u # p => (u \in redis' <=> u \in redis)
  /\ \/ /\ <<stage[p], stage'[p]>> \in {<<"new", "registered">>, <<"out", "registered">>, <<"in", "leaving">>}
        /\ moves'[p] = moves[p] + 1
        /\ redis' = redis /\ direct' = direct /\ published' = published
     \/ /\ <<stage[p], stage'[p]>> \in {<<"registered", "online">>, <<"leaving", "offline">>}
        /\ moves'[p] = moves[p]
        /\ p \in redis' <=> stage'[p] = "online"
        /\ direct' = direct /\ published' = published
     \/ /\ <<stage[p], stage'[p]>> \in {<<"online", "told">>, <<"offline", "untold">>}
        /\ moves'[p] = moves[p] /\ redis' = redis /\ published' = published
        /\ direct' \in {direct, direct \cup {Event(p)}}
        /\ direct' # direct =>
             \/ \E v \in Viewer : InTable(v)
             \/ ~web /\ \E v \in Viewer : entry[v] # "none"
     \/ /\ <<stage[p], stage'[p]>> \in {<<"told", "in">>, <<"untold", "gone">>}
        /\ moves'[p] = moves[p] /\ redis' = redis /\ direct' = direct
        /\ published' = [h \in Host |-> Append(published[h], Event(p))]
     \/ /\ <<stage[p], stage'[p]>> = <<"gone", "out">>
        /\ moves'[p] = moves[p] /\ redis' = redis /\ direct' = direct /\ published' = published

LEMMA WhatAPersonDoes ==
  ASSUME OnlineTypeOK, NEW p \in Person, broadcast(p)
  PROVE  PersonSteps(p)
<1>1. stage \in [Person -> Stage] /\ moves \in [Person -> Nat]
  BY DEF OnlineTypeOK
<1>2. CASE Come(p)
  BY <1>1, <1>2 DEF Come, Steps, copies, PersonSteps
<1>3. CASE redis_user_online(p)
  BY <1>1, <1>3 DEF redis_user_online, Steps, copies, PersonSteps
<1>4. CASE udp_broadcast_all(p)
  BY <1>1, <1>4 DEF udp_broadcast_all, Steps, PersonSteps
<1>5. CASE publish(p)
  BY <1>1, <1>5 DEF publish, Steps, PersonSteps
<1>6. CASE Leave(p)
  BY <1>1, <1>6 DEF Leave, Steps, copies, PersonSteps
<1>7. CASE redis_user_offline(p)
  BY <1>1, <1>7 DEF redis_user_offline, Steps, copies, PersonSteps
<1>8. CASE shm_unregister_user(p)
  BY <1>1, <1>8 DEF shm_unregister_user, Steps, copies, PersonSteps
<1> QED
  BY <1>2, <1>3, <1>4, <1>5, <1>6, <1>7, <1>8 DEF broadcast

LEMMA PersonsAreCounted ==
  ASSUME OnlineTypeOK, UsersAreCounted, NEW p \in Person, PersonSteps(p), moves'[p] \in Nat
  PROVE  UsersAreCounted'
<1>1. stage \in [Person -> Stage] /\ moves \in [Person -> Nat]
  BY DEF OnlineTypeOK
<1>2. ASSUME NEW u \in Person, u # p
      PROVE  stage'[u] = stage[u] /\ moves'[u] = moves[u] /\ (u \in redis' <=> u \in redis)
  BY <1>1, <1>2 DEF PersonSteps
<1>3. /\ p \in redis <=> stage[p] \in {"online", "told", "in", "leaving"}
      /\ moves[p] = 0 => stage[p] \in {"new", "out", "in"}
      /\ moves[p] \in Nat
  BY <1>1 DEF UsersAreCounted
<1>4. /\ p \in redis' <=> stage'[p] \in {"online", "told", "in", "leaving"}
      /\ moves'[p] = 0 => stage'[p] \in {"new", "out", "in"}
  BY <1>3 DEF PersonSteps
<1> QED
  BY <1>2, <1>4 DEF UsersAreCounted

\* The event a user's child sends is the last one, and true.
LEMMA SentEvent ==
  ASSUME OnlineTypeOK, UsersAreCounted, NEW p \in Person, stage[p] \notin {"new", "out", "in"}
  PROVE  /\ Event(p) \in EventLine /\ Event(p).user = p /\ Event(p).number = moves[p]
         /\ Event(p).kind = IF stage[p] \in {"online", "told"} THEN "online" ELSE "offline"
<1>1. moves[p] \in Nat \ {0}
  BY DEF OnlineTypeOK, UsersAreCounted
<1> QED
  BY <1>1 DEF Event, Kind, EventLine

LEMMA PersonCopiesAreTrue ==
  ASSUME OnlineTypeOK, UsersAreCounted, CopiesAreTrue, NEW p \in Person, PersonSteps(p),
         UNCHANGED last
  PROVE  CopiesAreTrue'
<1>1. /\ stage \in [Person -> Stage] /\ moves \in [Person -> Nat]
      /\ published \in [Host -> Seq(EventLine)] /\ direct \in SUBSET EventLine
      /\ last \in [Viewer -> [Person -> Nat]]
  BY DEF OnlineTypeOK
<1>2. ASSUME NEW u \in Person, u # p
      PROVE  stage'[u] = stage[u] /\ moves'[u] = moves[u]
  BY <1>1, <1>2 DEF PersonSteps
<1>3. moves'[p] \in {moves[p], moves[p] + 1} /\ moves[p] \in Nat
  BY <1>1 DEF PersonSteps
<1>4. ASSUME NEW e \in EventLine, e.number <= moves[e.user],
             e.number = moves[e.user] =>
               stage[e.user] \in IF e.kind = "online" THEN {"told", "in"} ELSE {"untold", "gone", "out"}
      PROVE  /\ e.number <= moves'[e.user]
             /\ e.number = moves'[e.user] =>
                  stage'[e.user] \in IF e.kind = "online" THEN {"told", "in"} ELSE {"untold", "gone", "out"}
  <2>1. e.user \in Person /\ e.number \in Nat
    BY DEF EventLine
  <2>2. CASE e.user # p
    BY <1>2, <1>4, <2>1, <2>2
  <2>3. CASE e.user = p
    BY <1>3, <1>4, <2>1, <2>3 DEF PersonSteps
  <2> QED
    BY <2>2, <2>3
<1>5. ASSUME NEW e \in direct'
      PROVE  /\ e.number <= moves'[e.user]
             /\ e.number = moves'[e.user] =>
                  stage'[e.user] \in IF e.kind = "online" THEN {"told", "in"} ELSE {"untold", "gone", "out"}
  <2>1. CASE e \in direct
    BY <1>1, <1>4, <2>1 DEF CopiesAreTrue
  <2>2. CASE e \notin direct
    <3>1. /\ e = Event(p) /\ moves'[p] = moves[p]
          /\ <<stage[p], stage'[p]>> \in {<<"online", "told">>, <<"offline", "untold">>}
      BY <2>2 DEF PersonSteps
    <3>2. /\ e.user = p /\ e.number = moves[p]
          /\ e.kind = IF stage[p] \in {"online", "told"} THEN "online" ELSE "offline"
      BY <3>1, SentEvent
    <3> QED
      BY <1>3, <3>1, <3>2
  <2> QED
    BY <2>1, <2>2
<1>6. ASSUME NEW h \in Host, NEW i \in DOMAIN published'[h], NEW e, e = published'[h][i]
      PROVE  /\ e.number <= moves'[e.user]
             /\ e.number = moves'[e.user] =>
                  stage'[e.user] \in IF e.kind = "online" THEN {"in"} ELSE {"gone", "out"}
  <2>1. CASE i \in DOMAIN published[h] /\ e = published[h][i]
    <3>1. /\ e.number <= moves[e.user]
          /\ e.number = moves[e.user] =>
               stage[e.user] \in IF e.kind = "online" THEN {"in"} ELSE {"gone", "out"}
      BY <2>1 DEF CopiesAreTrue
    <3>2. e \in EventLine
      BY <1>1, <2>1
    <3>3. e.user \in Person /\ e.number \in Nat
      BY <3>2 DEF EventLine
    <3>4. CASE e.user # p
      BY <1>2, <3>1, <3>3, <3>4
    <3>5. CASE e.user = p
      BY <1>3, <3>1, <3>3, <3>5 DEF PersonSteps
    <3> QED
      BY <3>4, <3>5
  <2>2. CASE ~(i \in DOMAIN published[h] /\ e = published[h][i])
    <3>1. published' # published
      BY <1>6, <2>2
    <3>2. /\ published' = [g \in Host |-> Append(published[g], Event(p))] /\ moves'[p] = moves[p]
          /\ <<stage[p], stage'[p]>> \in {<<"told", "in">>, <<"untold", "gone">>}
      BY <3>1 DEF PersonSteps
    <3>3. Event(p) \in EventLine /\ published[h] \in Seq(EventLine)
      BY <1>1, <3>2, SentEvent
    <3>4. published'[h] = Append(published[h], Event(p))
      BY <3>2
    <3>5. e = Event(p)
      BY <1>6, <2>2, <3>3, <3>4, EndOf
    <3>6. /\ e.user = p /\ e.number = moves[p]
          /\ e.kind = IF stage[p] \in {"online", "told"} THEN "online" ELSE "offline"
      BY <3>2, <3>5, SentEvent
    <3> QED
      BY <1>3, <3>2, <3>6
  <2> QED
    BY <2>1, <2>2
<1>7. \A v \in Viewer, u \in Person : last'[v][u] <= moves'[u]
  <2>1. ASSUME NEW v \in Viewer, NEW u \in Person
        PROVE  last[v][u] <= moves'[u]
    <3>1. last[v][u] <= moves[u] /\ last[v][u] \in Nat /\ moves[u] \in Nat
      BY <1>1 DEF CopiesAreTrue
    <3> QED
      BY <1>2, <1>3, <3>1
  <2> QED
    BY <2>1
<1> QED
  BY <1>5, <1>6, <1>7 DEF CopiesAreTrue

\* For other users nothing is new in the queues.
LEMMA OthersInQueues ==
  ASSUME OnlineTypeOK, UsersAreCounted, NEW p \in Person, PersonSteps(p), NEW h \in Host
  PROVE  /\ published'[h] \in Seq(EventLine)
         /\ \A i \in DOMAIN published[h] : i \in DOMAIN published'[h] /\ published'[h][i] = published[h][i]
         /\ \A i \in DOMAIN published'[h] :
              \/ i \in DOMAIN published[h] /\ published'[h][i] = published[h][i]
              \/ published'[h][i].user = p
         /\ \A u \in Person : u # p => (Queued(u, h)' <=> Queued(u, h))
<1>1. published[h] \in Seq(EventLine) /\ moves \in [Person -> Nat]
  BY DEF OnlineTypeOK
<1>2. /\ published'[h] \in Seq(EventLine)
      /\ \A i \in DOMAIN published[h] : i \in DOMAIN published'[h] /\ published'[h][i] = published[h][i]
      /\ \A i \in DOMAIN published'[h] :
           \/ i \in DOMAIN published[h] /\ published'[h][i] = published[h][i]
           \/ published'[h][i].user = p
  <2>1. CASE published' = published
    BY <1>1, <2>1
  <2>2. CASE published' # published
    <3>1. /\ published' = [g \in Host |-> Append(published[g], Event(p))]
          /\ <<stage[p], stage'[p]>> \in {<<"told", "in">>, <<"untold", "gone">>}
      BY <2>2 DEF PersonSteps
    <3>2. Event(p) \in EventLine /\ Event(p).user = p
      BY <3>1, SentEvent
    <3>3. published'[h] = Append(published[h], Event(p))
      BY <3>1
    <3> QED
      BY <1>1, <3>2, <3>3, EndOf
  <2> QED
    BY <2>1, <2>2
<1>3. \A u \in Person : u # p => moves'[u] = moves[u]
  BY <1>1 DEF PersonSteps
<1> QED
  BY <1>2, <1>3 DEF Queued

\* What a user's child publishes is queued.
LEMMA NowQueued ==
  ASSUME OnlineTypeOK, UsersAreCounted, NEW p \in Person, PersonSteps(p),
         stage[p] \in {"told", "untold"}, NEW h \in Host
  PROVE  Queued(p, h)'
<1>1. /\ published' = [g \in Host |-> Append(published[g], Event(p))] /\ moves'[p] = moves[p]
  BY DEF PersonSteps
<1>2. Event(p) \in EventLine /\ Event(p).user = p /\ Event(p).number = moves[p]
  BY SentEvent
<1>3. published[h] \in Seq(EventLine) /\ published'[h] = Append(published[h], Event(p))
  BY <1>1 DEF OnlineTypeOK
<1>4. PICK n \in DOMAIN published'[h] : published'[h][n] = Event(p)
  BY <1>2, <1>3, EndOf
<1> QED
  BY <1>1, <1>2, <1>4 DEF Queued

LEMMA PersonQueuesAreInOrder ==
  ASSUME OnlineTypeOK, UsersAreCounted, CopiesAreTrue, QueuesAreInOrder,
         NEW p \in Person, PersonSteps(p)
  PROVE  QueuesAreInOrder'
<1>1. /\ stage \in [Person -> Stage] /\ moves \in [Person -> Nat]
      /\ published \in [Host -> Seq(EventLine)]
  BY DEF OnlineTypeOK
<1>2. ASSUME NEW u \in Person, u # p
      PROVE  stage'[u] = stage[u] /\ moves'[u] = moves[u] /\ (Published(u)' <=> Published(u))
  BY <1>1, <1>2 DEF PersonSteps, Published
<1>3. ASSUME NEW h \in Host, NEW i \in DOMAIN published'[h], NEW j \in DOMAIN published'[h],
             i < j, published'[h][j].user = published'[h][i].user
      PROVE  published'[h][i].number < published'[h][j].number
  <2>1. CASE i \in DOMAIN published[h] /\ j \in DOMAIN published[h]
    <3>1. published'[h][i] = published[h][i] /\ published'[h][j] = published[h][j]
      BY <2>1, OthersInQueues
    <3> QED
      BY <1>3, <2>1, <3>1 DEF QueuesAreInOrder
  <2>2. CASE ~(i \in DOMAIN published[h] /\ j \in DOMAIN published[h])
    <3>1. published' # published
      BY <1>3, <2>2
    <3>2. /\ published' = [g \in Host |-> Append(published[g], Event(p))] /\ moves'[p] = moves[p]
          /\ <<stage[p], stage'[p]>> \in {<<"told", "in">>, <<"untold", "gone">>}
      BY <3>1 DEF PersonSteps
    <3>3. Event(p) \in EventLine /\ Event(p).user = p /\ Event(p).number = moves[p]
      BY <3>2, SentEvent
    <3>4. published[h] \in Seq(EventLine) /\ published'[h] = Append(published[h], Event(p))
      BY <1>1, <3>2
    <3>6. PICK s, t, x : s = published[h] /\ t = published'[h] /\ x = Event(p)
      OBVIOUS
    <3>7. s \in Seq(EventLine) /\ x \in EventLine /\ t = Append(s, x)
      BY <3>3, <3>4, <3>6
    <3>8. /\ \A k \in DOMAIN s : k \in Nat /\ k \in DOMAIN t /\ t[k] = s[k]
          /\ \E n \in DOMAIN t : /\ t[n] = x /\ n \in Nat /\ \A k \in DOMAIN s : k < n
                                 /\ \A k \in DOMAIN t : k \in DOMAIN s \/ k = n
      BY <3>7, EndOf
    <3>9. /\ \A k \in DOMAIN published[h] : /\ k \in Nat /\ k \in DOMAIN published'[h]
                                            /\ published'[h][k] = published[h][k]
          /\ \E n \in DOMAIN published'[h] :
               /\ published'[h][n] = Event(p) /\ n \in Nat /\ \A k \in DOMAIN published[h] : k < n
               /\ \A k \in DOMAIN published'[h] : k \in DOMAIN published[h] \/ k = n
      BY <3>6, <3>8
    <3>10. PICK n \in DOMAIN published'[h] :
            /\ published'[h][n] = Event(p) /\ n \in Nat /\ \A k \in DOMAIN published[h] : k < n
            /\ \A k \in DOMAIN published'[h] : k \in DOMAIN published[h] \/ k = n
      BY <3>9
    <3>11. \A k \in DOMAIN published[h] : k \in Nat /\ published'[h][k] = published[h][k]
      BY <3>9
    <3>12. j = n /\ i \in DOMAIN published[h]
      BY <1>3, <2>2, <3>10, <3>11
    <3>13. published'[h][i] = published[h][i] /\ published[h][i].user = p
      BY <1>3, <3>3, <3>10, <3>11, <3>12
    <3>14. /\ published[h][i].number <= moves[p] /\ published[h][i].number # moves[p]
      BY <3>2, <3>12, <3>13 DEF CopiesAreTrue
    <3>15. published[h][i] \in EventLine
      BY <3>4, <3>12
    <3>16. published[h][i].number \in Nat /\ moves[p] \in Nat
      BY <1>1, <3>15 DEF EventLine
    <3> QED
      BY <3>3, <3>10, <3>12, <3>13, <3>14, <3>16
  <2> QED
    BY <2>1, <2>2
<1>4. ASSUME NEW h \in Host, NEW i \in DOMAIN published'[h], NEW u, u = published'[h][i].user,
             Published(u)'
      PROVE  Queued(u, h)'
  <2>1. CASE u # p
    <3>1. i \in DOMAIN published[h] /\ published'[h][i] = published[h][i]
      BY <1>4, <2>1, OthersInQueues
    <3>2. published[h][i] \in EventLine
      BY <1>1, <3>1
    <3>3. u \in Person
      BY <1>4, <3>1, <3>2 DEF EventLine
    <3>4. Published(u)
      BY <1>2, <1>4, <2>1, <3>3
    <3>5. Queued(u, h)
      BY <1>4, <3>1, <3>4 DEF QueuesAreInOrder
    <3> QED
      BY <2>1, <3>3, <3>5, OthersInQueues
  <2>2. CASE u = p
    <3>1. \/ <<stage[p], stage'[p]>> \in {<<"told", "in">>, <<"untold", "gone">>}
          \/ <<stage[p], stage'[p]>> = <<"gone", "out">>
      BY <1>4, <2>2 DEF PersonSteps, Published
    <3>2. CASE <<stage[p], stage'[p]>> \in {<<"told", "in">>, <<"untold", "gone">>}
      <4>1. stage[p] \in {"told", "untold"}
        BY <3>2
      <4> QED
        BY <2>2, <4>1, NowQueued
    <3>3. CASE <<stage[p], stage'[p]>> = <<"gone", "out">>
      <4>1. published' = published /\ moves'[p] = moves[p]
        BY <3>3 DEF PersonSteps
      <4>2. Queued(p, h)
        BY <1>4, <2>2, <3>3, <4>1 DEF QueuesAreInOrder, Published
      <4> QED
        BY <2>2, <4>1, <4>2 DEF Queued
    <3> QED
      BY <3>1, <3>2, <3>3
  <2> QED
    BY <2>1, <2>2
<1> QED
  BY <1>3, <1>4 DEF QueuesAreInOrder

LEMMA PersonLoginsAreInOrder ==
  ASSUME LoginsAreInOrder, NEW p \in Person, PersonSteps(p), UNCHANGED <<web, login, lines, display>>
  PROVE  LoginsAreInOrder'
<1>1. /\ web' = web /\ entry' = entry /\ unsent' = unsent /\ lines' = lines
      /\ shown' = shown /\ sync' = sync /\ seen' = seen
  BY DEF login, display
<1>2. direct' # {} => \E w \in Viewer : entry[w] # "none"
  <2>1. CASE direct' = direct
    BY <2>1 DEF LoginsAreInOrder
  <2>2. CASE direct' # direct
    BY <2>2 DEF PersonSteps, InTable
  <2> QED
    BY <2>1, <2>2
<1>3. /\ \A v \in Viewer : (Synced(v)' <=> Synced(v)) /\ (Ends(v)' <=> Ends(v))
  BY <1>1 DEF Synced, Ends
<1> QED
  BY <1>1, <1>2, <1>3 DEF LoginsAreInOrder

\* For the other users all stays as it is.
LEMMA OthersStayRight ==
  ASSUME OnlineTypeOK, UsersAreCounted, NEW p \in Person, PersonSteps(p),
         UNCHANGED <<web, login, lines, display>>,
         NEW v \in Viewer, NEW u \in Person, u # p, RightOrComing(v, u)
  PROVE  RightOrComing(v, u)'
<1>1. /\ web' = web /\ entry' = entry /\ unsent' = unsent /\ lines' = lines
      /\ shown' = shown /\ sync' = sync /\ last' = last
  BY DEF login, display
<1>2. /\ stage'[u] = stage[u] /\ moves'[u] = moves[u] /\ (Published(u)' <=> Published(u))
  BY DEF PersonSteps, OnlineTypeOK, Published
<1>3. \A h \in Host : Queued(u, h)' <=> Queued(u, h)
  BY OthersInQueues
<1>4. ASSUME NEW e \in direct', e.user = u
      PROVE  e \in direct
  <2>1. CASE direct' = direct
    BY <2>1
  <2>2. CASE direct' # direct
    <3>1. direct' = direct \cup {Event(p)} /\ stage[p] \notin {"new", "out", "in"}
      BY <2>2 DEF PersonSteps
    <3>2. Event(p).user = p
      BY <3>1, SentEvent
    <3> QED
      BY <1>4, <3>1, <3>2
  <2> QED
    BY <2>1, <2>2
<1>5. /\ \A w \in Viewer : (InTable(w)' <=> InTable(w))
      /\ Synced(v)' <=> Synced(v)
      /\ Listed(v, u)' <=> Listed(v, u)
      /\ Hearing' = Hearing
  BY <1>1 DEF InTable, Synced, Ends, Listed, Hearing
<1>6. \A h \in Host : Delivers(h)' <=> Delivers(h)
  BY <1>5 DEF Delivers
<1>7. Awaited(u)' <=> Awaited(u)
  BY <1>2, <1>3, <1>6 DEF Awaited
<1>8. DirectIsFollowed(v, u)'
  BY <1>1, <1>2, <1>3, <1>4, <1>5, OnlineUsersAssumption DEF DirectIsFollowed, RightOrComing
<1>9. AwayIsSaid(v, u)'
  BY <1>1, <1>2, <1>5 DEF AwayIsSaid, RightOrComing
<1>10. InIsShown(v, u)'
  BY <1>1, <1>2, <1>5, <1>7 DEF InIsShown, RightOrComing
<1>11. AwayIsShown(v, u)'
  BY <1>1, <1>2, <1>5, <1>7 DEF AwayIsShown, RightOrComing
<1> QED
  BY <1>8, <1>9, <1>10, <1>11 DEF RightOrComing

\* Of the user himself: his event is on its way, or he left during the login.
LEMMA PersonStaysRight ==
  ASSUME OnlineTypeOK, UsersAreCounted, CopiesAreTrue, NEW p \in Person, PersonSteps(p),
         UNCHANGED <<web, login, lines, display>>,
         NEW v \in Viewer, RightOrComing(v, p),
         ~(LoggingIn(v) /\ Leaving(p)), ~(LoggingIn(v) /\ Leaving(p)')
  PROVE  RightOrComing(v, p)'
<1>1. /\ web' = web /\ entry' = entry /\ unsent' = unsent /\ lines' = lines
      /\ shown' = shown /\ sync' = sync /\ last' = last
  BY DEF login, display
<1>2. /\ stage \in [Person -> Stage] /\ moves \in [Person -> Nat] /\ entry \in [Viewer -> Entry]
      /\ stage[p] \in Stage /\ moves[p] \in Nat /\ entry[v] \in Entry
      /\ direct \in SUBSET EventLine
  BY DEF OnlineTypeOK
<1>3. /\ \A w \in Viewer : (InTable(w)' <=> InTable(w))
      /\ Synced(v)' <=> Synced(v)
      /\ Listed(v, p)' <=> Listed(v, p)
      /\ Hearing' = Hearing
  BY <1>1 DEF InTable, Synced, Ends, Listed, Hearing
<1>4. \A h \in Host : Delivers(h)' <=> Delivers(h)
  BY <1>3 DEF Delivers
<1>5. /\ DirectIsFollowed(v, p) /\ AwayIsSaid(v, p) /\ InIsShown(v, p) /\ AwayIsShown(v, p)
  BY DEF RightOrComing
<1>6. entry[v] # "none" => InTable(v) \/ LoggingIn(v)
  BY <1>2 DEF InTable, LoggingIn, Entry
<1>7. ~web /\ v \in Hearing => entry[v] # "none"
  BY DEF Hearing
<1> DEFINE
  Coming == <<stage[p], stage'[p]>> \in {<<"new", "registered">>, <<"out", "registered">>, <<"in", "leaving">>}
  InRedis == <<stage[p], stage'[p]>> \in {<<"registered", "online">>, <<"leaving", "offline">>}
  Telling == <<stage[p], stage'[p]>> \in {<<"online", "told">>, <<"offline", "untold">>}
  Publishing == <<stage[p], stage'[p]>> \in {<<"told", "in">>, <<"untold", "gone">>}
  Clearing == <<stage[p], stage'[p]>> = <<"gone", "out">>
<1>8. Coming \/ InRedis \/ Telling \/ Publishing \/ Clearing
  BY DEF PersonSteps
<1>9. Coming \/ InRedis \/ Telling => ~Published(p)'
  BY DEF Published
<1>10. ~Coming => moves'[p] = moves[p]
  BY DEF PersonSteps
<1>11. ~Telling => direct' = direct
  BY DEF PersonSteps
<1>12. Publishing => \A h \in Host : Queued(p, h)'
  <2>1. Publishing => stage[p] \in {"told", "untold"}
    OBVIOUS
  <2> QED
    BY <2>1, NowQueued
<1>13. Clearing => published' = published
  BY DEF PersonSteps
<1>14. Clearing => \A h \in Host : Queued(p, h)' <=> Queued(p, h)
  BY <1>10, <1>13 DEF Queued
<1>15. Clearing => (Awaited(p)' <=> Awaited(p))
  <2>1. Clearing => Published(p) /\ Published(p)'
    BY DEF Published
  <2> QED
    BY <1>4, <1>14, <2>1 DEF Awaited
<1>16. Coming /\ stage'[p] # "leaving" => stage[p] \in {"new", "out"}
  OBVIOUS
<1>17. DirectIsFollowed(v, p)'
  <2>1. SUFFICES ASSUME v \in Hearing, NEW e \in direct', e.user = p
                 PROVE  \/ \E w \in Viewer :
                             /\ InTable(w)
                             /\ ~Published(p)' \/ Queued(p, HostOf(w))' \/ last[v][p] = moves'[p]
                        \/ ~web /\ e.kind = "online" /\ e.number = moves'[p]
    BY <1>1, <1>3 DEF DirectIsFollowed
  <2>2. ASSUME e \in direct
        PROVE  \/ \E w \in Viewer :
                    /\ InTable(w)
                    /\ ~Published(p) \/ Queued(p, HostOf(w)) \/ last[v][p] = moves[p]
               \/ ~web /\ e.kind = "online" /\ e.number = moves[p]
    BY <1>5, <2>1, <2>2 DEF DirectIsFollowed
  <2>3. ASSUME Coming
        PROVE  \E w \in Viewer : InTable(w)
    <3>1. e \in direct
      BY <1>11, <2>3
    <3>2. CASE \E w \in Viewer : InTable(w)
      BY <3>2
    <3>3. CASE ~web /\ e.kind = "online" /\ e.number = moves[p]
      <4>1. stage[p] \in {"told", "in"}
        BY <2>1, <3>1, <3>3 DEF CopiesAreTrue
      <4>2. Leaving(p)'
        BY <2>3, <4>1 DEF Leaving
      <4> QED
        BY <1>1, <1>6, <1>7, <2>1, <3>3, <4>2 DEF LoggingIn
    <3> QED
      BY <2>2, <3>1, <3>2, <3>3
  <2>4. CASE Coming
    BY <1>9, <2>3, <2>4
  <2>5. CASE InRedis
    BY <1>9, <1>10, <1>11, <2>2, <2>5
  <2>6. CASE Telling
    <3>1. CASE e \in direct
      BY <1>9, <1>10, <2>2, <2>6, <3>1
    <3>2. CASE e \notin direct
      <4>1. /\ e = Event(p)
            /\ \/ \E w \in Viewer : InTable(w)
               \/ ~web
        BY <2>6, <3>2 DEF PersonSteps
      <4>2. /\ e.number = moves[p]
            /\ e.kind = IF stage[p] \in {"online", "told"} THEN "online" ELSE "offline"
        BY <2>6, <4>1, SentEvent
      <4>3. CASE \E w \in Viewer : InTable(w)
        BY <1>9, <2>6, <4>3
      <4>4. CASE ~web
        <5>1. CASE stage[p] = "online"
          BY <1>10, <2>6, <4>2, <4>4, <5>1
        <5>2. CASE stage[p] = "offline"
          <6>1. Leaving(p)'
            BY <2>6, <5>2 DEF Leaving
          <6>2. InTable(v)
            BY <1>1, <1>6, <1>7, <2>1, <4>4, <6>1 DEF LoggingIn
          <6> QED
            BY <1>9, <2>6, <6>2
        <5> QED
          BY <2>6, <5>1, <5>2
      <4> QED
        BY <4>1, <4>3, <4>4
    <3> QED
      BY <3>1, <3>2
  <2>7. CASE Publishing
    BY <1>10, <1>11, <1>12, <2>2, <2>7, OnlineUsersAssumption
  <2>8. CASE Clearing
    <3>1. Published(p)
      BY <2>8 DEF Published
    <3>2. moves'[p] = moves[p] /\ direct' = direct
      BY <1>10, <1>11, <2>8
    <3> QED
      BY <1>14, <2>2, <2>8, <3>1, <3>2, OnlineUsersAssumption
  <2> QED
    BY <1>8, <2>4, <2>5, <2>6, <2>7, <2>8
<1>18. AwayIsSaid(v, p)'
  <2>1. SUFFICES ASSUME stage'[p] \in {"new", "out"}, entry[v] # "none"
                 PROVE  lines[v] = << >> /\ entry[v] = "in"
    BY <1>1, <1>3 DEF AwayIsSaid, Synced, Ends
  <2>2. stage[p] = "gone"
    BY <1>8, <2>1
  <2>3. ~LoggingIn(v)
    BY <2>2 DEF Leaving
  <2> QED
    BY <2>1, <2>3 DEF LoggingIn
<1>19. InIsShown(v, p)'
  <2>1. SUFFICES ASSUME stage'[p] = "in", entry[v] \notin {"none", "reading"}
                 PROVE  Awaited(p)' \/ Listed(v, p)'
    BY <1>1 DEF InIsShown
  <2>2. Publishing
    BY <1>8, <2>1
  <2>3. CASE InTable(v)
    <3>1. Delivers(HostOf(v))' /\ Queued(p, HostOf(v))' /\ HostOf(v) \in Host
      BY <1>3, <1>12, <2>2, <2>3, OnlineUsersAssumption DEF Delivers
    <3> QED
      BY <3>1 DEF Awaited
  <2>4. CASE ~InTable(v)
    BY <1>2, <1>3, <2>1, <2>4 DEF InTable, Listed, Entry
  <2> QED
    BY <2>3, <2>4
<1>20. AwayIsShown(v, p)'
  <2>1. SUFFICES ASSUME stage'[p] \in {"new", "gone", "out"}, Synced(v)
                 PROVE  shown[v][p] # "online" \/ Awaited(p)'
    BY <1>1, <1>3 DEF AwayIsShown
  <2>2. CASE Publishing
    <3>1. Leaving(p)'
      BY <2>1, <2>2 DEF Leaving
    <3>2. InTable(v)
      BY <1>1, <1>6, <2>1, <3>1 DEF LoggingIn, Synced
    <3>3. Delivers(HostOf(v))' /\ Queued(p, HostOf(v))' /\ HostOf(v) \in Host
      BY <1>3, <1>12, <2>2, <3>2, OnlineUsersAssumption DEF Delivers
    <3> QED
      BY <3>3 DEF Awaited
  <2>3. CASE Clearing
    BY <1>5, <1>15, <2>1, <2>3 DEF AwayIsShown
  <2> QED
    BY <1>8, <2>1, <2>2, <2>3
<1> QED
  BY <1>17, <1>18, <1>19, <1>20 DEF RightOrComing

-----------------------------------------------------------------------------
(***************************************************************************)
(* Clients log in                                                          *)
(***************************************************************************)
\* What a step of a login changes.
LoginSteps(x) ==
  /\ \A v \in Viewer \ {x} : entry'[v] = entry[v] /\ unsent'[v] = unsent[v] /\ lines'[v] = lines[v]
  /\ \/ /\ entry[x] = "none" /\ entry'[x] = "reading"
        /\ web \/ \A w \in Viewer : entry[w] = "none"
        /\ \E line \in LoginLine : lines'[x] = lines[x] \o <<line>> /\ line.kind = "start"
     \/ /\ entry[x] = "reading" /\ entry'[x] = "reading"
        /\ \E line \in LoginLine :
             /\ lines'[x] = lines[x] \o <<line>> /\ line.kind = "CHAT_USER"
             /\ line.flag = "online" => IsOnline(line.user, HostOf(x))
     \/ /\ entry[x] = "reading" /\ entry'[x] = "synced"
        /\ \E line \in LoginLine : lines'[x] = lines[x] \o <<line>> /\ line.kind = "end"
     \/ entry[x] = "synced" /\ entry'[x] = "registered" /\ lines'[x] = lines[x]
     \/ entry[x] = "registered" /\ entry'[x] = "listing" /\ lines'[x] = lines[x] /\ unsent'[x] = redis
     \/ /\ entry[x] = "listing" /\ entry'[x] = "listing"
        /\ \E line \in LoginLine :
             /\ lines'[x] = lines[x] \o <<line>> /\ line.kind = "online"
             /\ line.user \in unsent[x] /\ unsent'[x] = unsent[x] \ {line.user}
     \/ entry[x] = "listing" /\ entry'[x] = "in" /\ lines'[x] = lines[x] /\ unsent[x] = {}

LEMMA WhatALoginDoes ==
  ASSUME OnlineTypeOK, NEW x \in Viewer, LogIn(x)
  PROVE  /\ LoginSteps(x)
         /\ entry' \in [Viewer -> Entry] /\ unsent' \in [Viewer -> SUBSET Person]
         /\ lines' \in [Viewer -> Seq(LoginLine)]
<1>1. /\ entry \in [Viewer -> Entry] /\ unsent \in [Viewer -> SUBSET Person]
      /\ lines \in [Viewer -> Seq(LoginLine)] /\ redis \in SUBSET Person
  BY DEF OnlineTypeOK
<1>2. ASSUME NEW line \in LoginLine, Sends(x, <<line>>)
      PROVE  /\ lines' \in [Viewer -> Seq(LoginLine)] /\ lines'[x] = lines[x] \o <<line>>
             /\ \A v \in Viewer \ {x} : lines'[v] = lines[v]
  <2>1. lines' = [lines EXCEPT ![x] = lines[x] \o <<line>>] /\ lines[x] \in Seq(LoginLine)
    BY <1>1, <1>2 DEF Sends
  <2>2. lines[x] \o <<line>> \in Seq(LoginLine)
    BY <2>1, EndOf
  <2> QED
    BY <1>1, <2>1, <2>2
<1>3. ASSUME NEW a \in Entry, NEW b \in Entry, Enters(x, a, b)
      PROVE  /\ entry' \in [Viewer -> Entry] /\ entry[x] = a /\ entry'[x] = b
             /\ \A v \in Viewer \ {x} : entry'[v] = entry[v]
  BY <1>1, <1>3 DEF Enters
<1>4. CASE Authenticate(x)
  <2> DEFINE line == [kind |-> "start", number |-> 0]
  <2>1. line \in LoginLine /\ line.kind = "start"
    BY DEF LoginLine
  <2>2. Sends(x, <<line>>) /\ Enters(x, "none", "reading")
    BY <1>4 DEF Authenticate
  <2> HIDE DEF line
  <2>3. /\ lines' \in [Viewer -> Seq(LoginLine)] /\ lines'[x] = lines[x] \o <<line>>
        /\ \A v \in Viewer \ {x} : lines'[v] = lines[v]
    BY <1>2, <2>1, <2>2
  <2>4. /\ entry' \in [Viewer -> Entry] /\ entry[x] = "none" /\ entry'[x] = "reading"
        /\ \A v \in Viewer \ {x} : entry'[v] = entry[v]
    BY <1>3, <2>2 DEF Entry
  <2>5. /\ unsent' = [unsent EXCEPT ![x] = {u \in Person : stage[u] # "new"}]
        /\ web \/ \A w \in Viewer : entry[w] = "none"
    BY <1>4 DEF Authenticate
  <2>6. unsent' \in [Viewer -> SUBSET Person] /\ \A v \in Viewer \ {x} : unsent'[v] = unsent[v]
    BY <1>1, <2>5
  <2> QED
    BY <2>1, <2>3, <2>4, <2>5, <2>6 DEF LoginSteps
<1>5. CASE forward_db_line(x)
  <2>1. PICK u \in unsent[x] :
          /\ unsent' = [unsent EXCEPT ![x] = @ \ {u}]
          /\ Sends(x, <<[kind |-> "CHAT_USER", user |-> u,
                         flag |-> IF IsOnline(u, HostOf(x)) THEN "online" ELSE "offline",
                         number |-> 0]>>)
    BY <1>5 DEF forward_db_line
  <2> DEFINE line == [kind |-> "CHAT_USER", user |-> u,
                      flag |-> IF IsOnline(u, HostOf(x)) THEN "online" ELSE "offline", number |-> 0]
  <2>2. u \in Person
    BY <1>1
  <2>3. /\ line \in LoginLine /\ line.kind = "CHAT_USER" /\ line.user = u
        /\ line.flag = "online" => IsOnline(line.user, HostOf(x))
    <3>1. line.flag = IF IsOnline(u, HostOf(x)) THEN "online" ELSE "offline"
      OBVIOUS
    <3>2. line.flag \in {"online", "offline"}
      BY <3>1
    <3>3. line \in [kind : {"CHAT_USER"}, user : Person, flag : {"online", "offline"}, number : {0}]
      BY <2>2, <3>2
    <3>4. line \in LoginLine
      BY <3>3 DEF LoginLine
    <3>5. line.kind = "CHAT_USER" /\ line.user = u
      OBVIOUS
    <3> HIDE DEF line
    <3>6. line.flag = "online" => IsOnline(line.user, HostOf(x))
      BY <3>1, <3>5
    <3> QED
      BY <3>4, <3>5, <3>6
  <2>4. Sends(x, <<line>>)
    BY <2>1
  <2> HIDE DEF line
  <2>5. /\ lines' \in [Viewer -> Seq(LoginLine)] /\ lines'[x] = lines[x] \o <<line>>
        /\ \A v \in Viewer \ {x} : lines'[v] = lines[v]
    BY <1>2, <2>3, <2>4
  <2>6. entry[x] = "reading" /\ entry' = entry
    BY <1>5 DEF forward_db_line
  <2>7. unsent' \in [Viewer -> SUBSET Person] /\ \A v \in Viewer \ {x} : unsent'[v] = unsent[v]
    BY <1>1, <2>1
  <2> QED
    BY <1>1, <2>3, <2>5, <2>6, <2>7 DEF LoginSteps
<1>6. CASE forward_end(x)
  <2> DEFINE line == [kind |-> "end", number |-> 0]
  <2>1. line \in LoginLine /\ line.kind = "end"
    BY DEF LoginLine
  <2>2. Sends(x, <<line>>) /\ Enters(x, "reading", "synced") /\ unsent' = unsent
    BY <1>6 DEF forward_end
  <2> HIDE DEF line
  <2>3. /\ lines' \in [Viewer -> Seq(LoginLine)] /\ lines'[x] = lines[x] \o <<line>>
        /\ \A v \in Viewer \ {x} : lines'[v] = lines[v]
    BY <1>2, <2>1, <2>2
  <2>4. /\ entry' \in [Viewer -> Entry] /\ entry[x] = "reading" /\ entry'[x] = "synced"
        /\ \A v \in Viewer \ {x} : entry'[v] = entry[v]
    BY <1>3, <2>2 DEF Entry
  <2> QED
    BY <1>1, <2>1, <2>2, <2>3, <2>4 DEF LoginSteps
<1>7. CASE shm_register_user(x)
  <2>1. Enters(x, "synced", "registered") /\ unsent' = unsent /\ lines' = lines
    BY <1>7 DEF shm_register_user
  <2>2. /\ entry' \in [Viewer -> Entry] /\ entry[x] = "synced" /\ entry'[x] = "registered"
        /\ \A v \in Viewer \ {x} : entry'[v] = entry[v]
    BY <1>3, <2>1 DEF Entry
  <2> QED
    BY <1>1, <2>1, <2>2 DEF LoginSteps
<1>8. CASE notify_existing_online_users(x)
  <2>1. Enters(x, "registered", "listing") /\ unsent' = [unsent EXCEPT ![x] = redis] /\ lines' = lines
    BY <1>8 DEF notify_existing_online_users
  <2>2. /\ entry' \in [Viewer -> Entry] /\ entry[x] = "registered" /\ entry'[x] = "listing"
        /\ \A v \in Viewer \ {x} : entry'[v] = entry[v]
    BY <1>3, <2>1 DEF Entry
  <2>3. /\ unsent' \in [Viewer -> SUBSET Person] /\ unsent'[x] = redis
        /\ \A v \in Viewer \ {x} : unsent'[v] = unsent[v]
    BY <1>1, <2>1
  <2> QED
    BY <1>1, <2>1, <2>2, <2>3 DEF LoginSteps
<1>9. CASE send_line(x)
  <2>1. PICK u \in unsent[x] :
          /\ unsent' = [unsent EXCEPT ![x] = @ \ {u}]
          /\ Sends(x, <<[kind |-> "online", user |-> u, number |-> 0]>>)
    BY <1>9 DEF send_line
  <2> DEFINE line == [kind |-> "online", user |-> u, number |-> 0]
  <2>2. u \in Person
    BY <1>1
  <2>3. line \in LoginLine /\ line.kind = "online" /\ line.user = u
    BY <2>2 DEF LoginLine
  <2>4. Sends(x, <<line>>)
    BY <2>1
  <2> HIDE DEF line
  <2>5. /\ lines' \in [Viewer -> Seq(LoginLine)] /\ lines'[x] = lines[x] \o <<line>>
        /\ \A v \in Viewer \ {x} : lines'[v] = lines[v]
    BY <1>2, <2>3, <2>4
  <2>6. entry[x] = "listing" /\ entry' = entry
    BY <1>9 DEF send_line
  <2>7. /\ unsent' \in [Viewer -> SUBSET Person] /\ unsent'[x] = unsent[x] \ {u}
        /\ \A v \in Viewer \ {x} : unsent'[v] = unsent[v]
    BY <1>1, <2>1
  <2> QED
    BY <1>1, <2>3, <2>5, <2>6, <2>7 DEF LoginSteps
<1>10. CASE Told(x)
  <2>1. Enters(x, "listing", "in") /\ unsent[x] = {} /\ unsent' = unsent /\ lines' = lines
    BY <1>10 DEF Told
  <2>2. /\ entry' \in [Viewer -> Entry] /\ entry[x] = "listing" /\ entry'[x] = "in"
        /\ \A v \in Viewer \ {x} : entry'[v] = entry[v]
    BY <1>3, <2>1 DEF Entry
  <2> QED
    BY <1>1, <2>1, <2>2 DEF LoginSteps
<1> QED
  BY <1>4, <1>5, <1>6, <1>7, <1>8, <1>9, <1>10 DEF LogIn

\* A line that a login sends.
NewLine(x, line) ==
  \/ entry[x] = "none" /\ entry'[x] = "reading" /\ line.kind = "start"
  \/ /\ entry[x] = "reading" /\ entry'[x] = "reading" /\ line.kind = "CHAT_USER"
     /\ line.flag = "online" => IsOnline(line.user, HostOf(x))
  \/ entry[x] = "reading" /\ entry'[x] = "synced" /\ line.kind = "end"
  \/ entry[x] = "listing" /\ entry'[x] = "listing" /\ line.kind = "online" /\ line.user \in unsent[x]

LEMMA LinesOfALogin ==
  ASSUME OnlineTypeOK, NEW x \in Viewer, LoginSteps(x)
  PROVE  /\ \A i \in DOMAIN lines[x] : i \in DOMAIN lines'[x] /\ lines'[x][i] = lines[x][i]
         /\ \A i \in DOMAIN lines'[x] :
              \/ i \in DOMAIN lines[x] /\ lines'[x][i] = lines[x][i]
              \/ NewLine(x, lines'[x][i]) /\ \A j \in DOMAIN lines'[x] : ~(i < j)
         /\ entry[x] = "reading" /\ entry'[x] = "synced" => Ends(x)'
         /\ entry[x] = "listing" =>
              \A u \in unsent[x] : \/ entry'[x] = "listing" /\ u \in unsent'[x]
                                   \/ Listed(x, u)'
<1>1. lines[x] \in Seq(LoginLine)
  BY DEF OnlineTypeOK
<1>2. CASE lines'[x] = lines[x]
  <2>1. \A line \in LoginLine : lines[x] \o <<line>> # lines[x]
    BY <1>1
  <2>2. entry[x] \in {"synced", "registered"} \/ (entry[x] = "listing" /\ unsent[x] = {})
    BY <1>2, <2>1 DEF LoginSteps
  <2>3. ~(entry[x] = "reading" /\ entry'[x] = "synced")
    BY <2>2
  <2>4. entry[x] = "listing" => unsent[x] = {}
    BY <2>2
  <2> QED
    BY <1>2, <2>3, <2>4
<1>3. CASE \E line \in LoginLine : lines'[x] = lines[x] \o <<line>>
  <2>1. /\ \E line \in LoginLine : lines'[x] = lines[x] \o <<line>> /\ NewLine(x, line)
        /\ entry[x] = "reading" /\ entry'[x] = "synced" =>
             \E line \in LoginLine : lines'[x] = lines[x] \o <<line>> /\ line.kind = "end"
        /\ entry[x] = "listing" /\ unsent[x] # {} =>
             \E line \in LoginLine : /\ lines'[x] = lines[x] \o <<line>> /\ line.kind = "online"
                                     /\ unsent'[x] = unsent[x] \ {line.user} /\ entry'[x] = "listing"
    <3>1. lines'[x] # lines[x]
      <4>1. PICK line \in LoginLine : lines'[x] = lines[x] \o <<line>>
        BY <1>3
      <4> QED
        BY <1>1, <4>1
    <3>2. \E line \in LoginLine : lines'[x] = lines[x] \o <<line>> /\ NewLine(x, line)
      BY <3>1 DEF LoginSteps, NewLine
    <3>3. entry[x] = "reading" /\ entry'[x] = "synced" =>
             \E line \in LoginLine : lines'[x] = lines[x] \o <<line>> /\ line.kind = "end"
      BY DEF LoginSteps
    <3>4. entry[x] = "listing" /\ unsent[x] # {} =>
             \E line \in LoginLine : /\ lines'[x] = lines[x] \o <<line>> /\ line.kind = "online"
                                     /\ unsent'[x] = unsent[x] \ {line.user} /\ entry'[x] = "listing"
      BY DEF LoginSteps
    <3> QED
      BY <3>2, <3>3, <3>4
  <2>2. ASSUME NEW line \in LoginLine, lines'[x] = lines[x] \o <<line>>
        PROVE  /\ \A i \in DOMAIN lines[x] : i \in DOMAIN lines'[x] /\ lines'[x][i] = lines[x][i]
               /\ \E n \in DOMAIN lines'[x] : lines'[x][n] = line
               /\ \A i \in DOMAIN lines'[x] :
                    \/ i \in DOMAIN lines[x]
                    \/ lines'[x][i] = line /\ \A j \in DOMAIN lines'[x] : ~(i < j)
    <3>1. /\ \A i \in DOMAIN lines[x] : i \in Nat /\ i \in DOMAIN lines'[x] /\ lines'[x][i] = lines[x][i]
          /\ \E n \in DOMAIN lines'[x] :
               /\ lines'[x][n] = line /\ n \in Nat /\ \A i \in DOMAIN lines[x] : i < n
               /\ \A i \in DOMAIN lines'[x] : i \in DOMAIN lines[x] \/ i = n
      <4>1. lines'[x] = Append(lines[x], line) \/ lines'[x] = lines[x] \o <<line>>
        BY <2>2
      <4> QED
        BY <1>1, <4>1, EndOf
    <3> QED
      BY <3>1
  <2>3. PICK line \in LoginLine : lines'[x] = lines[x] \o <<line>> /\ NewLine(x, line)
    BY <2>1
  <2>4. /\ \A i \in DOMAIN lines[x] : i \in DOMAIN lines'[x] /\ lines'[x][i] = lines[x][i]
        /\ \A i \in DOMAIN lines'[x] :
             \/ i \in DOMAIN lines[x] /\ lines'[x][i] = lines[x][i]
             \/ NewLine(x, lines'[x][i]) /\ \A j \in DOMAIN lines'[x] : ~(i < j)
    BY <2>2, <2>3
  <2>5. ASSUME entry[x] = "reading", entry'[x] = "synced"
        PROVE  Ends(x)'
    <3>1. PICK end \in LoginLine : lines'[x] = lines[x] \o <<end>> /\ end.kind = "end"
      BY <2>1, <2>5
    <3>2. PICK n \in DOMAIN lines'[x] : lines'[x][n] = end
      BY <2>2, <3>1
    <3> QED
      BY <3>1, <3>2 DEF Ends
  <2>6. ASSUME entry[x] = "listing", NEW u \in unsent[x]
        PROVE  \/ entry'[x] = "listing" /\ u \in unsent'[x]
               \/ Listed(x, u)'
    <3>1. PICK new \in LoginLine : /\ lines'[x] = lines[x] \o <<new>> /\ new.kind = "online"
                                    /\ unsent'[x] = unsent[x] \ {new.user} /\ entry'[x] = "listing"
      BY <2>1, <2>6
    <3>2. PICK n \in DOMAIN lines'[x] : lines'[x][n] = new
      BY <2>2, <3>1
    <3> QED
      BY <3>1, <3>2 DEF Listed
  <2> QED
    BY <2>4, <2>5, <2>6
<1>4. lines'[x] = lines[x] \/ \E line \in LoginLine : lines'[x] = lines[x] \o <<line>>
  BY DEF LoginSteps
<1> QED
  BY <1>2, <1>3, <1>4

LEMMA LoginsStayInOrder ==
  ASSUME OnlineTypeOK, LoginsAreInOrder, NEW x \in Viewer, LoginSteps(x),
         UNCHANGED <<copies, web, display>>
  PROVE  LoginsAreInOrder'
<1>1. /\ web' = web /\ shown' = shown /\ sync' = sync /\ seen' = seen /\ direct' = direct
  BY DEF copies, display
<1>2. /\ \A i \in DOMAIN lines[x] : i \in DOMAIN lines'[x] /\ lines'[x][i] = lines[x][i]
      /\ \A i \in DOMAIN lines'[x] :
           \/ i \in DOMAIN lines[x] /\ lines'[x][i] = lines[x][i]
           \/ NewLine(x, lines'[x][i]) /\ \A j \in DOMAIN lines'[x] : ~(i < j)
      /\ entry[x] = "reading" /\ entry'[x] = "synced" => Ends(x)'
  BY LinesOfALogin
<1>3. ASSUME NEW v \in Viewer, v # x
      PROVE  entry'[v] = entry[v] /\ lines'[v] = lines[v]
  BY <1>3 DEF LoginSteps
<1>4. entry'[x] # "none" /\ (web \/ entry[x] # "none" \/ \A w \in Viewer : entry[w] = "none")
  BY DEF LoginSteps
<1>5. ~web => \A v, w \in Viewer : entry'[v] # "none" /\ entry'[w] # "none" => v = w
  BY <1>3, <1>4 DEF LoginsAreInOrder
<1>6. direct # {} => \E w \in Viewer : entry'[w] # "none"
  BY <1>4
<1> DEFINE
  InOrder(v) ==
       /\ entry[v] = "none" => /\ lines[v] = << >> /\ sync[v] = Unknown
                               /\ ~web => shown[v] = Unknown
       /\ entry[v] \in {"none", "reading"} => ~Ends(v)
       /\ entry[v] \notin {"listing", "in"} =>
            \A i \in DOMAIN lines[v] : lines[v][i].kind # "online"
       /\ Synced(v) => \A i \in DOMAIN lines[v] : lines[v][i].kind = "online"
       /\ \A i, j \in DOMAIN lines[v] :
            i < j /\ lines[v][i].kind \in {"end", "online"} => lines[v][j].kind = "online"
       /\ web /\ (entry[v] \in {"none", "reading"} \/ Ends(v)) =>
            \A t \in seen[v] : t.kind # "end"
<1>7. \A v \in Viewer : InOrder(v)
  BY DEF LoginsAreInOrder
<1>8. ASSUME NEW v \in Viewer, v # x
      PROVE  InOrder(v)'
  BY <1>1, <1>3, <1>7, <1>8 DEF Ends, Synced
<1>9. InOrder(x)'
  <2>1. InOrder(x)
    BY <1>7
  <2>2. entry'[x] \in {"none", "reading"} => ~Ends(x)'
    BY <1>2, <2>1 DEF LoginSteps, NewLine, Ends
  <2>3. entry'[x] \notin {"listing", "in"} => \A i \in DOMAIN lines'[x] : lines'[x][i].kind # "online"
    BY <1>2, <2>1 DEF LoginSteps, NewLine
  <2>4. Synced(x)' => \A i \in DOMAIN lines'[x] : lines'[x][i].kind = "online"
    <3>1. Synced(x)' => Synced(x)
      BY <1>2 DEF Synced, Ends, LoginSteps
    <3> QED
      BY <1>2, <2>1, <3>1 DEF NewLine, Synced
  <2>5. \A i, j \in DOMAIN lines'[x] :
            i < j /\ lines'[x][i].kind \in {"end", "online"} => lines'[x][j].kind = "online"
    <3>1. ASSUME NEW i \in DOMAIN lines'[x], NEW j \in DOMAIN lines'[x], i < j,
                 lines'[x][i].kind \in {"end", "online"}
          PROVE  lines'[x][j].kind = "online"
      <4>1. i \in DOMAIN lines[x] /\ lines'[x][i] = lines[x][i]
        BY <1>2, <3>1
      <4>2. CASE j \in DOMAIN lines[x] /\ lines'[x][j] = lines[x][j]
        BY <2>1, <3>1, <4>1, <4>2
      <4>3. CASE NewLine(x, lines'[x][j])
        <5>1. entry[x] \in {"none", "reading"} => lines[x][i].kind # "end" /\ lines[x][i].kind # "online"
          BY <2>1, <4>1 DEF Ends
        <5> QED
          BY <3>1, <4>1, <4>3, <5>1 DEF NewLine
      <4> QED
        BY <1>2, <4>2, <4>3
    <3> QED
      BY <3>1
  <2>6. web /\ (entry'[x] \in {"none", "reading"} \/ Ends(x)') => \A t \in seen[x] : t.kind # "end"
    <3>1. entry'[x] \in {"none", "reading"} \/ Ends(x)' => entry[x] \in {"none", "reading"} \/ Ends(x)
      BY <1>2 DEF LoginSteps, NewLine, Ends
    <3> QED
      BY <2>1, <3>1
  <2> QED
    BY <1>1, <1>4, <2>2, <2>3, <2>4, <2>5, <2>6
<1>10. \A v \in Viewer : InOrder(v)'
  BY <1>8, <1>9
<1> HIDE DEF InOrder
<1>11. (\A v \in Viewer : InOrder(v))'
  BY <1>10
<1> QED
  BY <1>1, <1>5, <1>6, <1>11 DEF LoginsAreInOrder, InOrder

\* What a login changes can only help.
LEMMA LoginsHelp ==
  ASSUME NEW x \in Viewer, LoginSteps(x), UNCHANGED <<people, copies>>
  PROVE  /\ \A w \in Viewer : InTable(w) => InTable(w)'
         /\ \A u \in Person, h \in Host : Queued(u, h)' <=> Queued(u, h)
         /\ \A u \in Person : Published(u)' <=> Published(u)
         /\ \A u \in Person : Awaited(u) => Awaited(u)'
<1>1. \A w \in Viewer : InTable(w) => InTable(w)'
  BY DEF LoginSteps, InTable
<1>2. \A u \in Person, h \in Host : Queued(u, h)' <=> Queued(u, h)
  BY DEF people, copies, Queued
<1>3. \A u \in Person : Published(u)' <=> Published(u)
  BY DEF people, Published
<1>4. \A h \in Host : Delivers(h) => Delivers(h)'
  BY <1>1 DEF Delivers
<1> QED
  BY <1>1, <1>2, <1>3, <1>4 DEF Awaited

LEMMA OtherLoginsStayRight ==
  ASSUME NEW x \in Viewer, LoginSteps(x), UNCHANGED <<people, copies, web, display>>,
         NEW v \in Viewer, v # x, NEW u \in Person, RightOrComing(v, u)
  PROVE  RightOrComing(v, u)'
<1>1. /\ web' = web /\ shown' = shown /\ sync' = sync /\ last' = last
      /\ direct' = direct /\ stage' = stage /\ moves' = moves
  BY DEF copies, display, people
<1>2. entry'[v] = entry[v] /\ unsent'[v] = unsent[v] /\ lines'[v] = lines[v]
  BY DEF LoginSteps
<1>3. /\ v \in Hearing' => v \in Hearing
      /\ Synced(v)' <=> Synced(v)
      /\ Listed(v, u)' <=> Listed(v, u)
  BY <1>1, <1>2 DEF Hearing, Synced, Ends, Listed
<1>4. /\ \A w \in Viewer : InTable(w) => InTable(w)'
      /\ \A h \in Host : Queued(u, h)' <=> Queued(u, h)
      /\ Published(u)' <=> Published(u)
      /\ Awaited(u) => Awaited(u)'
  BY LoginsHelp
<1>5. DirectIsFollowed(v, u)'
  BY <1>1, <1>3, <1>4, OnlineUsersAssumption DEF DirectIsFollowed, RightOrComing
<1>6. AwayIsSaid(v, u)'
  BY <1>1, <1>2, <1>3 DEF AwayIsSaid, RightOrComing
<1>7. InIsShown(v, u)'
  BY <1>1, <1>2, <1>3, <1>4 DEF InIsShown, RightOrComing
<1>8. AwayIsShown(v, u)'
  BY <1>1, <1>2, <1>3, <1>4 DEF AwayIsShown, RightOrComing
<1> QED
  BY <1>5, <1>6, <1>7, <1>8 DEF RightOrComing

\* Of the client that logs in: its lines say what is so.
LEMMA LoginStaysRight ==
  ASSUME OnlineTypeOK, UsersAreCounted, LoginsAreInOrder,
         NEW x \in Viewer, LoginSteps(x), lines' \in [Viewer -> Seq(LoginLine)],
         UNCHANGED <<people, copies, web, display>>,
         NEW u \in Person, RightOrComing(x, u)
  PROVE  RightOrComing(x, u)'
<1>1. /\ web' = web /\ shown' = shown /\ sync' = sync /\ last' = last
      /\ direct' = direct /\ stage' = stage /\ moves' = moves /\ redis' = redis
  BY DEF copies, display, people
<1>2. /\ \A i \in DOMAIN lines[x] : i \in DOMAIN lines'[x] /\ lines'[x][i] = lines[x][i]
      /\ \A i \in DOMAIN lines'[x] :
           \/ i \in DOMAIN lines[x] /\ lines'[x][i] = lines[x][i]
           \/ NewLine(x, lines'[x][i]) /\ \A j \in DOMAIN lines'[x] : ~(i < j)
      /\ entry[x] = "reading" /\ entry'[x] = "synced" => Ends(x)'
      /\ entry[x] = "listing" =>
           \A w \in unsent[x] : \/ entry'[x] = "listing" /\ w \in unsent'[x]
                                \/ Listed(x, w)'
  BY LinesOfALogin
<1>3. /\ \A w \in Viewer : InTable(w) => InTable(w)'
      /\ \A h \in Host : Queued(u, h)' <=> Queued(u, h)
      /\ Published(u)' <=> Published(u)
      /\ Awaited(u) => Awaited(u)'
  BY LoginsHelp
<1>4. entry'[x] # "none" /\ entry'[x] \in Entry /\ entry[x] \in Entry
  BY DEF LoginSteps, OnlineTypeOK, Entry
<1>5. Synced(x)' <=> Synced(x)
  <2>1. Ends(x) => Ends(x)'
    BY <1>2 DEF Ends
  <2>2. Ends(x)' => Ends(x) \/ (entry[x] = "reading" /\ entry'[x] = "synced")
    BY <1>2 DEF Ends, NewLine
  <2>3. entry'[x] \notin {"none", "reading"} =>
          entry[x] \notin {"none", "reading"} \/ (entry[x] = "reading" /\ entry'[x] = "synced")
    BY DEF LoginSteps
  <2>4. entry[x] \notin {"none", "reading"} => entry'[x] \notin {"none", "reading"}
    BY DEF LoginSteps
  <2> QED
    BY <1>2, <2>1, <2>2, <2>3, <2>4 DEF Synced
<1>6. DirectIsFollowed(x, u)'
  <2>1. CASE entry[x] = "none" /\ ~web
    <3>1. direct = {}
      BY <2>1 DEF LoginSteps, LoginsAreInOrder
    <3> QED
      BY <1>1, <3>1 DEF DirectIsFollowed
  <2>2. CASE ~(entry[x] = "none" /\ ~web)
    <3>1. x \in Hearing
      BY <2>2 DEF Hearing
    <3>2. ASSUME NEW e \in direct, e.user = u
          PROVE  \/ \E w \in Viewer :
                      /\ InTable(w)
                      /\ ~Published(u) \/ Queued(u, HostOf(w)) \/ last[x][u] = moves[u]
                 \/ ~web /\ e.kind = "online" /\ e.number = moves[u]
      BY <3>1, <3>2 DEF DirectIsFollowed, RightOrComing
    <3> QED
      BY <1>1, <1>3, <3>2, OnlineUsersAssumption DEF DirectIsFollowed
  <2> QED
    BY <2>1, <2>2
<1>7. AwayIsSaid(x, u)'
  <2>1. SUFFICES ASSUME stage[u] \in {"new", "out"}
                 PROVE  /\ \A i \in DOMAIN lines'[x] :
                             /\ lines'[x][i].kind = "online" => lines'[x][i].user # u
                             /\ lines'[x][i].kind = "CHAT_USER" /\ lines'[x][i].user = u =>
                                  lines'[x][i].flag = "offline"
                        /\ entry'[x] = "listing" => u \notin unsent'[x]
                        /\ ~Synced(x) => IF web THEN sync[x][u] # "online" ELSE shown[x][u] # "online"
    BY <1>1, <1>5 DEF AwayIsSaid
  <2>2. u \notin redis
    BY <2>1 DEF UsersAreCounted
  <2>3. /\ \A i \in DOMAIN lines[x] :
             /\ lines[x][i].kind = "online" => lines[x][i].user # u
             /\ lines[x][i].kind = "CHAT_USER" /\ lines[x][i].user = u => lines[x][i].flag = "offline"
        /\ entry[x] = "listing" => u \notin unsent[x]
    <3>1. CASE entry[x] = "none"
      BY <3>1 DEF LoginsAreInOrder
    <3>2. CASE entry[x] # "none"
      BY <2>1, <3>2 DEF AwayIsSaid, RightOrComing
    <3> QED
      BY <3>1, <3>2
  <2>4. ~Synced(x) => IF web THEN sync[x][u] # "online" ELSE shown[x][u] # "online"
    <3>1. CASE entry[x] = "none"
      <4>1. sync[x] = Unknown /\ (~web => shown[x] = Unknown)
        BY <3>1 DEF LoginsAreInOrder
      <4> QED
        BY <4>1 DEF Unknown
    <3>2. CASE entry[x] # "none"
      BY <2>1, <3>2 DEF AwayIsSaid, RightOrComing
    <3> QED
      BY <3>1, <3>2
  <2>5. entry'[x] = "listing" => u \notin unsent'[x]
    <3>1. entry'[x] = "listing" =>
            unsent'[x] = redis \/ (entry[x] = "listing" /\ unsent'[x] \subseteq unsent[x])
      BY DEF LoginSteps
    <3> QED
      BY <2>2, <2>3, <3>1
  <2>6. ASSUME NEW i \in DOMAIN lines'[x]
        PROVE  /\ lines'[x][i].kind = "online" => lines'[x][i].user # u
               /\ lines'[x][i].kind = "CHAT_USER" /\ lines'[x][i].user = u =>
                    lines'[x][i].flag = "offline"
    <3>1. CASE i \in DOMAIN lines[x] /\ lines'[x][i] = lines[x][i]
      BY <2>3, <3>1
    <3>2. CASE NewLine(x, lines'[x][i])
      <4>1. lines'[x][i].kind = "online" => lines'[x][i].user # u
        BY <2>3, <3>2 DEF NewLine
      <4>2. lines'[x][i].kind = "CHAT_USER" /\ lines'[x][i].user = u => lines'[x][i].flag # "online"
        BY <2>1, <2>2, <3>2 DEF NewLine, IsOnline
      <4>3. lines'[x][i] \in LoginLine
        <5>1. lines'[x] \in Seq(LoginLine)
          OBVIOUS
        <5> QED
          BY <5>1, <2>6
      <4>4. lines'[x][i].kind = "CHAT_USER" => lines'[x][i].flag \in {"online", "offline"}
        BY <4>3 DEF LoginLine
      <4> QED
        BY <4>1, <4>2, <4>4
    <3> QED
      BY <1>2, <3>1, <3>2
  <2> QED
    BY <2>4, <2>5, <2>6
<1>8. InIsShown(x, u)'
  <2>1. SUFFICES ASSUME stage[u] = "in", entry'[x] \notin {"none", "reading"}
                 PROVE  (Synced(x) /\ shown[x][u] = "online") \/ Awaited(u)' \/ Listed(x, u)'
    BY <1>1, <1>5 DEF InIsShown
  <2>2. CASE entry[x] \in {"none", "reading"}
    <3>1. entry'[x] = "synced"
      BY <2>1, <2>2 DEF LoginSteps
    <3> QED
      BY <3>1 DEF Listed
  <2>3. CASE entry[x] = "synced"
    <3>1. entry'[x] = "registered"
      BY <2>3 DEF LoginSteps
    <3> QED
      BY <3>1 DEF Listed
  <2>4. CASE entry[x] = "registered"
    <3>1. entry'[x] = "listing" /\ unsent'[x] = redis
      BY <2>4 DEF LoginSteps
    <3>2. u \in redis
      BY <2>1 DEF UsersAreCounted
    <3> QED
      BY <3>1, <3>2 DEF Listed
  <2>5. CASE entry[x] \in {"listing", "in"}
    <3>1. (Synced(x) /\ shown[x][u] = "online") \/ Awaited(u) \/ Listed(x, u)
      BY <2>1, <2>5 DEF InIsShown, RightOrComing
    <3>2. Listed(x, u) => Listed(x, u)'
      BY <1>2, <2>5 DEF Listed
    <3> QED
      BY <1>3, <3>1, <3>2
  <2> QED
    BY <1>4, <2>2, <2>3, <2>4, <2>5 DEF Entry
<1>9. AwayIsShown(x, u)'
  BY <1>1, <1>3, <1>5 DEF AwayIsShown, RightOrComing
<1> QED
  BY <1>6, <1>7, <1>8, <1>9 DEF RightOrComing

-----------------------------------------------------------------------------
(***************************************************************************)
(* A client reads the lines of its login                                   *)
(***************************************************************************)
\* What a line of the login changes.
LineSteps(x, line) ==
  /\ \A v \in Viewer \ {x} : /\ lines'[v] = lines[v] /\ shown'[v] = shown[v] /\ sync'[v] = sync[v]
                             /\ \A t \in seen'[v] : t \in seen[v]
                             /\ stale'[v] = stale[v]
  /\ lines'[x] = Tail(lines[x]) /\ last' = last /\ stale[x] \subseteq stale'[x]
  /\ \A t \in seen'[x] : t \in seen[x] \/ t = line
  /\ \/ /\ web /\ line \in seen[x] /\ shown'[x] = shown[x] /\ sync'[x] = sync[x]
        /\ line.kind = "online" /\ shown[x][line.user] # "online" => line.user \in stale'[x]
     \/ /\ web /\ shown'[x] = BrowserShows(shown[x], sync[x], line)
        /\ sync'[x] = Buffers(sync[x], line)
     \/ /\ ~web /\ shown'[x] = DesktopShows(shown[x], line)
        /\ sync'[x] = sync[x]

LEMMA DisplayTypes ==
  ASSUME NEW s \in [Person -> Flag], NEW b \in [Person -> Flag], NEW line \in LoginLine \cup EventLine
  PROVE  /\ DesktopShows(s, line) \in [Person -> Flag]
         /\ BrowserShows(s, b, line) \in [Person -> Flag]
         /\ Buffers(b, line) \in [Person -> Flag]
<1>1. /\ line.kind \in {"start", "end", "CHAT_USER", "online", "offline"}
      /\ line.kind \in {"CHAT_USER", "online", "offline"} => line.user \in Person
      /\ line.kind = "CHAT_USER" => line.flag \in {"online", "offline"}
  <2>1. CASE line \in EventLine
    BY <2>1 DEF EventLine
  <2>2. CASE line \in LoginLine
    BY <2>2 DEF LoginLine
  <2> QED
    BY <2>1, <2>2
<1>2. Unknown \in [Person -> Flag]
  BY DEF Unknown, Flag
<1>3. DesktopShows(s, line) \in [Person -> Flag]
  <2>1. CASE line.kind = "start"
    BY <1>2, <2>1 DEF DesktopShows
  <2>2. CASE line.kind = "CHAT_USER"
    BY <1>1, <2>2 DEF DesktopShows, Flag
  <2>3. CASE line.kind \in {"online", "offline"}
    BY <1>1, <2>3 DEF DesktopShows, Flag
  <2>4. CASE line.kind = "end"
    BY <2>4 DEF DesktopShows
  <2> QED
    BY <1>1, <2>1, <2>2, <2>3, <2>4
<1>4. BrowserShows(s, b, line) \in [Person -> Flag]
  <2>1. CASE line.kind \in {"start", "CHAT_USER"}
    BY <2>1 DEF BrowserShows
  <2>2. CASE line.kind = "end"
    BY <2>2 DEF BrowserShows
  <2>3. CASE line.kind = "online"
    BY <1>1, <2>3 DEF BrowserShows, Flag
  <2>4. CASE line.kind = "offline"
    BY <1>1, <2>4 DEF BrowserShows, Flag
  <2> QED
    BY <1>1, <2>1, <2>2, <2>3, <2>4
<1>5. Buffers(b, line) \in [Person -> Flag]
  <2>1. CASE line.kind \in {"start", "end"}
    BY <1>2, <2>1 DEF Buffers
  <2>2. CASE line.kind = "CHAT_USER"
    BY <1>1, <2>2 DEF Buffers, Flag
  <2>3. CASE line.kind \in {"online", "offline"}
    BY <2>3 DEF Buffers
  <2> QED
    BY <1>1, <2>1, <2>2, <2>3
<1> QED
  BY <1>3, <1>4, <1>5

LEMMA HandledTypes ==
  ASSUME OnlineTypeOK, NEW line \in LoginLine \cup EventLine, NEW V, Handled(V, line)
  PROVE  shown' \in [Viewer -> [Person -> Flag]] /\ sync' \in [Viewer -> [Person -> Flag]]
<1>1. ASSUME NEW v \in Viewer
      PROVE  /\ shown[v] \in [Person -> Flag] /\ sync[v] \in [Person -> Flag]
             /\ BrowserShows(shown[v], sync[v], line) \in [Person -> Flag]
             /\ DesktopShows(shown[v], line) \in [Person -> Flag]
             /\ Buffers(sync[v], line) \in [Person -> Flag]
  <2>1. shown[v] \in [Person -> Flag] /\ sync[v] \in [Person -> Flag]
    BY DEF OnlineTypeOK
  <2> QED
    BY <2>1, DisplayTypes
<1>2. shown' \in [Viewer -> [Person -> Flag]]
  BY <1>1 DEF Handled
<1>3. sync' \in [Viewer -> [Person -> Flag]]
  BY <1>1 DEF Handled
<1> QED
  BY <1>2, <1>3

LEMMA ComesTypes ==
  ASSUME OnlineTypeOK, NEW line \in LoginLine \cup EventLine, NEW V, NEW D, Comes(V, D, line)
  PROVE  last' \in [Viewer -> [Person -> Nat]] /\ stale' \in [Viewer -> SUBSET Person]
<1>1. /\ line.number \in Nat /\ (IsEvent(line) => line \in EventLine)
      /\ line.kind \in {"online", "offline"} => line.user \in Person
  <2>1. CASE line \in EventLine
    BY <2>1 DEF EventLine
  <2>2. CASE line \in LoginLine
    BY <2>2 DEF LoginLine, IsEvent
  <2> QED
    BY <2>1, <2>2
<1>2. IsEvent(line) => line.user \in Person
  BY <1>1 DEF EventLine
<1>3. ASSUME NEW v \in Viewer
      PROVE  (IF v \in V /\ IsEvent(line) /\ line.number > last[v][line.user]
              THEN [last[v] EXCEPT ![line.user] = line.number] ELSE last[v]) \in [Person -> Nat]
  BY <1>1 DEF OnlineTypeOK
<1>4. ASSUME NEW v \in Viewer
      PROVE  (IF v \in V /\ Misleads(v, D, line)
              THEN stale[v] \cup {line.user} ELSE stale[v]) \in SUBSET Person
  <2>1. Misleads(v, D, line) => line.user \in Person
    BY <1>1, <1>2 DEF Misleads, Early, IsNews
  <2> QED
    BY <2>1 DEF OnlineTypeOK
<1>5. last' \in [Viewer -> [Person -> Nat]]
  BY <1>3 DEF Comes
<1>6. stale' \in [Viewer -> SUBSET Person]
  BY <1>4 DEF Comes
<1> QED
  BY <1>5, <1>6

LEMMA WhatALineDoes ==
  ASSUME OnlineTypeOK, NEW x \in Viewer, ReceiveLine(x)
  PROVE  /\ LineSteps(x, lines[x][1])
         /\ lines[x] # << >>
         /\ shown' \in [Viewer -> [Person -> Flag]] /\ sync' \in [Viewer -> [Person -> Flag]]
         /\ last' \in [Viewer -> [Person -> Nat]] /\ stale' \in [Viewer -> SUBSET Person]
         /\ lines' \in [Viewer -> Seq(LoginLine)]
<1> DEFINE line == lines[x][1]
<1>1. lines \in [Viewer -> Seq(LoginLine)] /\ last \in [Viewer -> [Person -> Nat]]
  BY DEF OnlineTypeOK
<1>2. lines[x] \in Seq(LoginLine) /\ lines[x] # << >>
  BY <1>1 DEF ReceiveLine
<1>3. Head(lines[x]) = line /\ line \in LoginLine /\ Tail(lines[x]) \in Seq(LoginLine)
  BY <1>2, TailOf
<1>4. lines' = [lines EXCEPT ![x] = Tail(@)] /\ Dispatch({x}, line)
  BY <1>3 DEF ReceiveLine
<1> HIDE DEF line
<1> DEFINE dropping == {v \in {x} : web /\ Text(line) \in seen[v]}
<1>5. /\ Handled({x} \ dropping, line) /\ Comes({x}, dropping, line)
      /\ \E emptied \in {{}, {x} \ dropping} :
           seen' = [v \in Viewer |-> IF v \in emptied THEN {}
                                     ELSE IF v \in {x} /\ web THEN seen[v] \cup {Text(line)}
                                     ELSE seen[v]]
  BY <1>4 DEF Dispatch
<1>6. Text(line) = line /\ ~IsEvent(line)
  <2>1. line.number = 0
    BY <1>3 DEF LoginLine
  <2>2. [line EXCEPT !.number = 0] = line
    <3>1. CASE line \in [kind : {"start", "end"}, number : {0}]
      BY <2>1, <3>1
    <3>2. CASE line \in [kind : {"CHAT_USER"}, user : Person, flag : {"online", "offline"}, number : {0}]
      BY <2>1, <3>2
    <3>3. CASE line \in [kind : {"online"}, user : Person, number : {0}]
      BY <2>1, <3>3
    <3> QED
      BY <1>3, <3>1, <3>2, <3>3 DEF LoginLine
  <2> QED
    BY <2>1, <2>2 DEF Text, IsEvent
<1>7. dropping = IF web /\ line \in seen[x] THEN {x} ELSE {}
  BY <1>6
<1>8. shown' \in [Viewer -> [Person -> Flag]] /\ sync' \in [Viewer -> [Person -> Flag]]
  BY <1>3, <1>5, HandledTypes
<1>9. last' \in [Viewer -> [Person -> Nat]] /\ stale' \in [Viewer -> SUBSET Person]
  BY <1>3, <1>5, ComesTypes
<1>10. lines' \in [Viewer -> Seq(LoginLine)] /\ lines'[x] = Tail(lines[x])
  BY <1>1, <1>3, <1>4
<1>11. last' = last
  BY <1>1, <1>5, <1>6 DEF Comes
<1> HIDE DEF dropping
<1>12. ASSUME NEW v \in Viewer, v # x
       PROVE  /\ lines'[v] = lines[v] /\ shown'[v] = shown[v] /\ sync'[v] = sync[v]
              /\ \A t \in seen'[v] : t \in seen[v]
              /\ stale'[v] = stale[v]
  <2>1. lines'[v] = lines[v]
    BY <1>1, <1>4, <1>12
  <2>2. shown'[v] = shown[v] /\ sync'[v] = sync[v]
    BY <1>5, <1>12 DEF Handled
  <2>3. stale'[v] = stale[v]
    BY <1>5, <1>12 DEF Comes
  <2>4. \A t \in seen'[v] : t \in seen[v]
    BY <1>5, <1>12
  <2> QED
    BY <2>1, <2>2, <2>3, <2>4
<1>13. stale[x] \subseteq stale'[x] /\ \A t \in seen'[x] : t \in seen[x] \/ t = line
  <2>1. stale[x] \subseteq stale'[x]
    BY <1>5 DEF Comes
  <2>2. \A t \in seen'[x] : t \in seen[x] \/ t = line
    BY <1>5, <1>6
  <2> QED
    BY <2>1, <2>2
<1>14. CASE web /\ line \in seen[x]
  <2>1. dropping = {x}
    BY <1>7, <1>14
  <2>2. shown'[x] = shown[x] /\ sync'[x] = sync[x]
    BY <1>5, <2>1 DEF Handled
  <2>3. ASSUME line.kind = "online", shown[x][line.user] # "online"
        PROVE  line.user \in stale'[x]
    <3>1. Misleads(x, dropping, line)
      BY <1>6, <2>1, <2>3 DEF Misleads, IsNews
    <3> QED
      BY <1>5, <3>1 DEF Comes
  <2> QED
    BY <1>2, <1>8, <1>9, <1>10, <1>11, <1>12, <1>13, <1>14, <2>2, <2>3 DEF LineSteps, line
<1>15. CASE ~(web /\ line \in seen[x])
  <2>1. dropping = {}
    BY <1>7, <1>15
  <2>2. /\ web => shown'[x] = BrowserShows(shown[x], sync[x], line) /\ sync'[x] = Buffers(sync[x], line)
        /\ ~web => shown'[x] = DesktopShows(shown[x], line) /\ sync'[x] = sync[x]
    BY <1>5, <2>1 DEF Handled
  <2> QED
    BY <1>2, <1>8, <1>9, <1>10, <1>11, <1>12, <1>13, <1>15, <2>2 DEF LineSteps, line
<1> QED
  BY <1>14, <1>15

LEMMA LinesStayInOrder ==
  ASSUME OnlineTypeOK, LoginsAreInOrder, NEW x \in Viewer, LineSteps(x, lines[x][1]),
         lines[x] # << >>, UNCHANGED <<copies, web, login>>
  PROVE  LoginsAreInOrder'
<1> DEFINE
  InOrder(v) ==
       /\ entry[v] = "none" => /\ lines[v] = << >> /\ sync[v] = Unknown
                               /\ ~web => shown[v] = Unknown
       /\ entry[v] \in {"none", "reading"} => ~Ends(v)
       /\ entry[v] \notin {"listing", "in"} =>
            \A i \in DOMAIN lines[v] : lines[v][i].kind # "online"
       /\ Synced(v) => \A i \in DOMAIN lines[v] : lines[v][i].kind = "online"
       /\ \A i, j \in DOMAIN lines[v] :
            i < j /\ lines[v][i].kind \in {"end", "online"} => lines[v][j].kind = "online"
       /\ web /\ (entry[v] \in {"none", "reading"} \/ Ends(v)) =>
            \A t \in seen[v] : t.kind # "end"
<1>1. \A v \in Viewer : InOrder(v)
  BY DEF LoginsAreInOrder
<1>2. web' = web /\ entry' = entry /\ unsent' = unsent /\ direct' = direct
  BY DEF copies, login
<1>3. ASSUME NEW v \in Viewer, v # x
      PROVE  InOrder(v)'
  <2>1. /\ lines'[v] = lines[v] /\ shown'[v] = shown[v] /\ sync'[v] = sync[v]
        /\ \A t \in seen'[v] : t \in seen[v]
    BY <1>3 DEF LineSteps
  <2> QED
    BY <1>1, <1>2, <2>1 DEF Ends, Synced
<1>4. InOrder(x)'
  <2>1. InOrder(x) /\ entry[x] # "none"
    BY <1>1
  <2>2. lines[x] \in Seq(LoginLine) /\ lines'[x] = Tail(lines[x])
    BY DEF OnlineTypeOK, LineSteps
  <2>3. /\ 1 \in DOMAIN lines[x]
        /\ \A i \in DOMAIN lines'[x] : i \in Nat /\ i > 0 /\ i + 1 \in DOMAIN lines[x]
                                       /\ lines'[x][i] = lines[x][i + 1]
        /\ \A j \in DOMAIN lines[x] : j \in Nat /\ (j # 1 => j - 1 \in DOMAIN lines'[x]
                                                             /\ lines'[x][j - 1] = lines[x][j])
    BY <2>2, TailOf
  <2>4. Ends(x)' => Ends(x)
    BY <2>3 DEF Ends
  <2>5. lines[x][1].kind = "end" => \A i \in DOMAIN lines'[x] : lines'[x][i].kind = "online"
    <3>1. ASSUME lines[x][1].kind = "end", NEW i \in DOMAIN lines'[x]
          PROVE  lines'[x][i].kind = "online"
      <4>1. i + 1 \in DOMAIN lines[x] /\ 1 < i + 1 /\ lines'[x][i] = lines[x][i + 1]
        BY <2>3
      <4> QED
        BY <2>1, <2>3, <3>1, <4>1
    <3> QED
      BY <3>1
  <2>6. Synced(x)' => \A i \in DOMAIN lines'[x] : lines'[x][i].kind = "online"
    <3>1. ASSUME Synced(x)', ~Synced(x)
          PROVE  lines[x][1].kind = "end"
      <4>1. Ends(x) /\ ~Ends(x)'
        BY <1>2, <3>1 DEF Synced
      <4>2. PICK j \in DOMAIN lines[x] : lines[x][j].kind = "end"
        BY <4>1 DEF Ends
      <4>3. j = 1
        BY <2>3, <4>1, <4>2 DEF Ends
      <4> QED
        BY <4>2, <4>3
    <3>2. Synced(x) => \A i \in DOMAIN lines'[x] : lines'[x][i].kind = "online"
      BY <2>1, <2>3
    <3> QED
      BY <2>5, <3>1, <3>2
  <2>7. entry[x] \notin {"listing", "in"} => \A i \in DOMAIN lines'[x] : lines'[x][i].kind # "online"
    BY <2>1, <2>3
  <2>8. ASSUME NEW i \in DOMAIN lines'[x], NEW j \in DOMAIN lines'[x], i < j,
               lines'[x][i].kind \in {"end", "online"}
        PROVE  lines'[x][j].kind = "online"
    <3>1. /\ i + 1 \in DOMAIN lines[x] /\ lines'[x][i] = lines[x][i + 1] /\ i \in Nat
          /\ j + 1 \in DOMAIN lines[x] /\ lines'[x][j] = lines[x][j + 1] /\ j \in Nat
      BY <2>3
    <3>2. i + 1 < j + 1
      BY <2>8, <3>1
    <3> QED
      BY <2>1, <2>8, <3>1, <3>2
  <2>9. ASSUME web, entry[x] \in {"none", "reading"} \/ Ends(x)', NEW t \in seen'[x]
        PROVE  t.kind # "end"
    <3>1. t \in seen[x] \/ t = lines[x][1]
      BY DEF LineSteps
    <3>2. t \in seen[x] => t.kind # "end"
      BY <2>1, <2>4, <2>9
    <3>3. lines[x][1].kind # "end"
      <4>1. SUFFICES ASSUME lines[x][1].kind = "end"
                     PROVE  FALSE
        OBVIOUS
      <4>2. Ends(x)
        BY <2>3, <4>1 DEF Ends
      <4>3. Ends(x)'
        BY <2>1, <2>9, <4>2
      <4> QED
        BY <2>5, <4>1, <4>3 DEF Ends
    <3> QED
      BY <3>1, <3>2, <3>3
  <2>10. entry[x] \in {"none", "reading"} => ~Ends(x)'
    BY <2>1, <2>4
  <2> QED
    BY <1>2, <2>1, <2>6, <2>7, <2>8, <2>9, <2>10
<1>5. \A v \in Viewer : InOrder(v)'
  BY <1>3, <1>4
<1> HIDE DEF InOrder
<1>6. (\A v \in Viewer : InOrder(v))'
  BY <1>5
<1> QED
  BY <1>2, <1>6 DEF LoginsAreInOrder, InOrder

\* Other clients have nothing to do with it.
LEMMA OtherLinesStayRight ==
  ASSUME NEW x \in Viewer, NEW line, LineSteps(x, line), UNCHANGED <<people, copies, web, login>>,
         NEW v \in Viewer, v # x, NEW u \in Person, RightOrComing(v, u)
  PROVE  RightOrComing(v, u)'
<1>1. /\ web' = web /\ entry' = entry /\ unsent' = unsent /\ last' = last
      /\ direct' = direct /\ published' = published /\ stage' = stage /\ moves' = moves
  BY DEF copies, login, people, LineSteps
<1>2. lines'[v] = lines[v] /\ shown'[v] = shown[v] /\ sync'[v] = sync[v]
  BY DEF LineSteps
<1>3. /\ Hearing' = Hearing
      /\ Synced(v)' <=> Synced(v)
      /\ Listed(v, u)' <=> Listed(v, u)
      /\ \A w \in Viewer : InTable(w)' <=> InTable(w)
      /\ Published(u)' <=> Published(u)
      /\ \A h \in Host : Queued(u, h)' <=> Queued(u, h)
  BY <1>1, <1>2 DEF Hearing, Synced, Ends, Listed, InTable, Published, Queued
<1>4. Awaited(u)' <=> Awaited(u)
  BY <1>3 DEF Awaited, Delivers
<1>5. DirectIsFollowed(v, u)'
  BY <1>1, <1>3, OnlineUsersAssumption DEF DirectIsFollowed, RightOrComing
<1>6. AwayIsSaid(v, u)'
  BY <1>1, <1>2, <1>3 DEF AwayIsSaid, RightOrComing
<1>7. InIsShown(v, u)'
  BY <1>1, <1>2, <1>3, <1>4 DEF InIsShown, RightOrComing
<1>8. AwayIsShown(v, u)'
  BY <1>1, <1>2, <1>3, <1>4 DEF AwayIsShown, RightOrComing
<1> QED
  BY <1>5, <1>6, <1>7, <1>8 DEF RightOrComing

\* Of the client that reads: what the line said it shows now, or showed before.
LEMMA LineStaysRight ==
  ASSUME OnlineTypeOK, LoginsAreInOrder, NEW x \in Viewer, LineSteps(x, lines[x][1]),
         lines[x] # << >>, UNCHANGED <<people, copies, web, login>>,
         NEW u \in Person, RightOrComing(x, u), u \notin stale'[x], ~Leaving(u)
  PROVE  RightOrComing(x, u)'
<1> DEFINE line == lines[x][1]
<1>1. /\ web' = web /\ entry' = entry /\ unsent' = unsent /\ last' = last
      /\ direct' = direct /\ published' = published /\ stage' = stage /\ moves' = moves
  BY DEF copies, login, people, LineSteps
<1>2. /\ Hearing' = Hearing
      /\ \A w \in Viewer : InTable(w)' <=> InTable(w)
      /\ Published(u)' <=> Published(u)
      /\ \A h \in Host : Queued(u, h)' <=> Queued(u, h)
  BY <1>1 DEF Hearing, InTable, Published, Queued
<1>3. Awaited(u)' <=> Awaited(u)
  BY <1>2 DEF Awaited, Delivers
<1>4. lines[x] \in Seq(LoginLine) /\ lines'[x] = Tail(lines[x]) /\ lines[x] # << >>
  BY DEF OnlineTypeOK, LineSteps
<1>5. /\ 1 \in DOMAIN lines[x]
      /\ \A i \in DOMAIN lines'[x] : i \in Nat /\ i > 0 /\ i + 1 \in DOMAIN lines[x]
                                     /\ lines'[x][i] = lines[x][i + 1]
      /\ \A j \in DOMAIN lines[x] : j \in Nat /\ (j # 1 => j - 1 \in DOMAIN lines'[x]
                                                           /\ lines'[x][j - 1] = lines[x][j])
  BY <1>4, TailOf
<1>6. line \in LoginLine
  BY <1>4, <1>5
<1>7. /\ line.kind \in {"start", "end", "CHAT_USER", "online"}
      /\ line.kind = "CHAT_USER" => line.flag \in {"online", "offline"} /\ line.user \in Person
      /\ line.kind = "online" => line.user \in Person
  BY <1>6 DEF LoginLine
<1>8. /\ shown[x] \in [Person -> Flag] /\ sync[x] \in [Person -> Flag]
  BY DEF OnlineTypeOK
<1>9. /\ entry[x] # "none"
      /\ entry[x] \in {"none", "reading"} => ~Ends(x)
      /\ Synced(x) => \A i \in DOMAIN lines[x] : lines[x][i].kind = "online"
      /\ \A i, j \in DOMAIN lines[x] :
            i < j /\ lines[x][i].kind \in {"end", "online"} => lines[x][j].kind = "online"
      /\ web /\ Ends(x) => \A t \in seen[x] : t.kind # "end"
  BY <1>4 DEF LoginsAreInOrder
<1>10. Synced(x) => Synced(x)'
  <2>1. Ends(x)' => Ends(x)
    BY <1>5 DEF Ends
  <2> QED
    BY <1>1, <2>1 DEF Synced
<1>11. Synced(x)' /\ ~Synced(x) => line.kind = "end"
  <2>1. SUFFICES ASSUME Synced(x)', ~Synced(x)
                 PROVE  line.kind = "end"
    OBVIOUS
  <2>2. Ends(x) /\ ~Ends(x)'
    BY <1>1, <2>1 DEF Synced
  <2>3. PICK j \in DOMAIN lines[x] : lines[x][j].kind = "end"
    BY <2>2 DEF Ends
  <2>4. j = 1
    BY <1>5, <2>2, <2>3 DEF Ends
  <2> QED
    BY <2>3, <2>4
<1> HIDE DEF line
<1>12. DirectIsFollowed(x, u)'
  BY <1>1, <1>2, OnlineUsersAssumption DEF DirectIsFollowed, RightOrComing
<1>13. AwayIsSaid(x, u)'
  <2>1. SUFFICES ASSUME stage[u] \in {"new", "out"}
                 PROVE  /\ \A i \in DOMAIN lines'[x] :
                             /\ lines'[x][i].kind = "online" => lines'[x][i].user # u
                             /\ lines'[x][i].kind = "CHAT_USER" /\ lines'[x][i].user = u =>
                                  lines'[x][i].flag = "offline"
                        /\ entry[x] = "listing" => u \notin unsent[x]
                        /\ ~Synced(x) => IF web THEN sync'[x][u] # "online" ELSE shown'[x][u] # "online"
    BY <1>1, <1>10 DEF AwayIsSaid
  <2>2. /\ \A i \in DOMAIN lines[x] :
             /\ lines[x][i].kind = "online" => lines[x][i].user # u
             /\ lines[x][i].kind = "CHAT_USER" /\ lines[x][i].user = u => lines[x][i].flag = "offline"
        /\ entry[x] = "listing" => u \notin unsent[x]
        /\ ~Synced(x) => IF web THEN sync[x][u] # "online" ELSE shown[x][u] # "online"
    BY <1>9, <2>1 DEF AwayIsSaid, RightOrComing
  <2>3. /\ line.kind = "online" => line.user # u
        /\ line.kind = "CHAT_USER" /\ line.user = u => line.flag = "offline"
    BY <1>5, <2>2 DEF line
  <2>4. ASSUME web, ~Synced(x)
        PROVE  sync'[x][u] # "online"
    <3>1. sync'[x] = sync[x] \/ sync'[x] = Buffers(sync[x], line)
      BY <2>4 DEF LineSteps, line
    <3>2. Buffers(sync[x], line)[u] # "online"
      BY <1>7, <1>8, <2>2, <2>3, <2>4 DEF Buffers, Unknown
    <3> QED
      BY <2>2, <2>4, <3>1, <3>2
  <2>5. ASSUME ~web, ~Synced(x)
        PROVE  shown'[x][u] # "online"
    <3>1. shown'[x] = DesktopShows(shown[x], line)
      BY <2>5 DEF LineSteps, line
    <3>2. DesktopShows(shown[x], line)[u] # "online"
      BY <1>7, <1>8, <2>2, <2>3, <2>5 DEF DesktopShows, Unknown
    <3> QED
      BY <3>1, <3>2
  <2> QED
    BY <1>5, <2>2, <2>4, <2>5
<1>14. ASSUME line.kind = "online"
       PROVE  /\ line.user = u => shown'[x][u] = "online"
              /\ line.user # u => shown'[x][u] = shown[x][u]
              /\ shown[x][u] = "online" => shown'[x][u] = "online"
  <2>1. \/ shown'[x] = shown[x] /\ (shown[x][line.user] # "online" => line.user \in stale'[x])
        \/ shown'[x] = [shown[x] EXCEPT ![line.user] = "online"]
    BY <1>14 DEF LineSteps, line, BrowserShows, DesktopShows
  <2> QED
    BY <1>7, <1>8, <1>14, <2>1
<1>15. InIsShown(x, u)'
  <2>1. SUFFICES ASSUME stage[u] = "in", entry[x] \notin {"none", "reading"}
                 PROVE  (Synced(x)' /\ shown'[x][u] = "online") \/ Awaited(u) \/ Listed(x, u)'
    BY <1>1, <1>3 DEF InIsShown
  <2>2. (Synced(x) /\ shown[x][u] = "online") \/ Awaited(u) \/ Listed(x, u)
    BY <2>1 DEF InIsShown, RightOrComing
  <2>3. CASE Synced(x) /\ shown[x][u] = "online"
    <3>1. line.kind = "online"
      BY <1>5, <1>9, <2>3 DEF line
    <3> QED
      BY <1>10, <1>14, <2>3, <3>1
  <2>4. CASE Listed(x, u)
    <3>1. CASE \/ entry[x] \in {"synced", "registered"}
               \/ entry[x] = "listing" /\ u \in unsent[x]
      BY <1>1, <3>1 DEF Listed
    <3>2. CASE \E i \in DOMAIN lines[x] : lines[x][i].kind = "online" /\ lines[x][i].user = u
      <4>1. PICK i \in DOMAIN lines[x] : lines[x][i].kind = "online" /\ lines[x][i].user = u
        BY <3>2
      <4>2. CASE i # 1
        <5>1. i - 1 \in DOMAIN lines'[x] /\ lines'[x][i - 1] = lines[x][i]
          BY <1>5, <4>2
        <5> QED
          BY <4>1, <5>1 DEF Listed
      <4>3. CASE i = 1
        <5>1. line.kind = "online" /\ line.user = u
          BY <4>1, <4>3 DEF line
        <5>2. \A j \in DOMAIN lines'[x] : lines'[x][j].kind = "online"
          <6>1. ASSUME NEW j \in DOMAIN lines'[x]
                PROVE  lines'[x][j].kind = "online"
            <7>1. j + 1 \in DOMAIN lines[x] /\ 1 < j + 1 /\ lines'[x][j] = lines[x][j + 1]
              BY <1>5
            <7> QED
              BY <1>5, <1>9, <4>1, <4>3, <7>1
          <6> QED
            BY <6>1
        <5>3. Synced(x)'
          BY <1>1, <2>1, <5>2 DEF Synced, Ends
        <5> QED
          BY <1>14, <5>1, <5>3
      <4> QED
        BY <4>2, <4>3
    <3> QED
      BY <2>4, <3>1, <3>2 DEF Listed
  <2> QED
    BY <2>2, <2>3, <2>4
<1>16. AwayIsShown(x, u)'
  <2>1. SUFFICES ASSUME stage[u] \in {"new", "gone", "out"}, Synced(x)'
                 PROVE  shown'[x][u] # "online" \/ Awaited(u)
    BY <1>1, <1>3 DEF AwayIsShown
  <2>2. stage[u] \in {"new", "out"}
    BY <2>1 DEF Leaving
  <2>3. /\ \A i \in DOMAIN lines[x] : lines[x][i].kind = "online" => lines[x][i].user # u
        /\ ~Synced(x) => IF web THEN sync[x][u] # "online" ELSE shown[x][u] # "online"
    BY <1>9, <2>2 DEF AwayIsSaid, RightOrComing
  <2>4. CASE Synced(x)
    <3>1. line.kind = "online" /\ line.user # u
      BY <1>5, <1>9, <2>3, <2>4 DEF line
    <3>2. shown'[x][u] = shown[x][u]
      BY <1>14, <3>1
    <3> QED
      BY <2>1, <2>4, <3>2 DEF AwayIsShown, RightOrComing
  <2>5. CASE ~Synced(x)
    <3>1. line.kind = "end"
      BY <1>11, <2>1, <2>5
    <3>2. CASE web
      <4>1. line \notin seen[x]
        <5>1. Ends(x)
          BY <1>5, <3>1 DEF Ends, line
        <5> QED
          BY <1>9, <3>1, <3>2, <5>1
      <4>2. shown'[x] = sync[x]
        BY <3>1, <3>2, <4>1 DEF LineSteps, BrowserShows, line
      <4> QED
        BY <2>3, <2>5, <3>2, <4>2
    <3>3. CASE ~web
      <4>1. shown'[x] = shown[x]
        BY <3>1, <3>3 DEF LineSteps, DesktopShows, line
      <4> QED
        BY <2>3, <2>5, <3>3, <4>1
    <3> QED
      BY <3>2, <3>3
  <2> QED
    BY <2>4, <2>5
<1> QED
  BY <1>12, <1>13, <1>15, <1>16 DEF RightOrComing

-----------------------------------------------------------------------------
(***************************************************************************)
(* Events come                                                             *)
(***************************************************************************)
\* What an event changes: unless the user becomes stale, the client shows of him what the
\* event says, or keeps what a later one said.
EventSteps(e) ==
  \A v \in Viewer :
    /\ sync'[v] = sync[v] /\ stale[v] \subseteq stale'[v]
    /\ \A t \in seen'[v] : t \in seen[v] \/ t.kind # "end"
    /\ \A u \in Person : u # e.user => shown'[v][u] = shown[v][u] /\ last'[v][u] = last[v][u]
    /\ v \notin Hearing => shown'[v] = shown[v] /\ last'[v] = last[v]
    /\ v \in Hearing =>
         /\ last'[v][e.user] = IF e.number > last[v][e.user] THEN e.number ELSE last[v][e.user]
         /\ e.user \notin stale'[v] =>
              /\ ~Ends(v)
              /\ IF e.number >= last[v][e.user]
                 THEN shown'[v][e.user] = "online" <=> e.kind = "online"
                 ELSE shown'[v][e.user] = shown[v][e.user]

LEMMA WhatAnEventDoes ==
  ASSUME OnlineTypeOK, NEW e \in EventLine, Datagram(e)
  PROVE  /\ EventSteps(e)
         /\ shown' \in [Viewer -> [Person -> Flag]] /\ sync' \in [Viewer -> [Person -> Flag]]
         /\ last' \in [Viewer -> [Person -> Nat]] /\ stale' \in [Viewer -> SUBSET Person]
<1>1. /\ e.kind \in {"online", "offline"} /\ e.user \in Person /\ e.number \in Nat /\ IsEvent(e)
  BY DEF EventLine, IsEvent
<1>2. /\ shown \in [Viewer -> [Person -> Flag]] /\ sync \in [Viewer -> [Person -> Flag]]
      /\ last \in [Viewer -> [Person -> Nat]] /\ stale \in [Viewer -> SUBSET Person]
  BY DEF OnlineTypeOK
<1>3. Text(e).kind = e.kind
  <2>1. e \in [kind : {"online", "offline"}, user : Person, number : Nat \ {0}]
    BY DEF EventLine
  <2>2. [e EXCEPT !.number = 0].kind = e.kind
    BY <2>1
  <2> QED
    BY <2>2 DEF Text
<1>4. ASSUME NEW V, NEW D, Comes(V, D, e), V = Hearing, D \subseteq V,
             \A v \in Viewer : sync'[v] = sync[v],
             \A v \in Viewer : \A t \in seen'[v] : t \in seen[v] \/ t.kind # "end",
             \A v \in Viewer : v \notin V \ D => shown'[v] = shown[v],
             \A v \in V \ D :
               shown'[v] = IF web THEN BrowserShows(shown[v], sync[v], e) ELSE DesktopShows(shown[v], e)
      PROVE  EventSteps(e)
  <2>1. SUFFICES ASSUME NEW v \in Viewer
                 PROVE  /\ stale[v] \subseteq stale'[v]
                        /\ \A u \in Person : u # e.user => shown'[v][u] = shown[v][u]
                                                           /\ last'[v][u] = last[v][u]
                        /\ v \notin Hearing => shown'[v] = shown[v] /\ last'[v] = last[v]
                        /\ v \in Hearing =>
                             /\ last'[v][e.user] = IF e.number > last[v][e.user] THEN e.number
                                                   ELSE last[v][e.user]
                             /\ e.user \notin stale'[v] =>
                                  /\ ~Ends(v)
                                  /\ IF e.number >= last[v][e.user]
                                     THEN shown'[v][e.user] = "online" <=> e.kind = "online"
                                     ELSE shown'[v][e.user] = shown[v][e.user]
    BY <1>4 DEF EventSteps
  <2>2. /\ last'[v] = IF v \in V /\ e.number > last[v][e.user]
                      THEN [last[v] EXCEPT ![e.user] = e.number] ELSE last[v]
        /\ stale[v] \subseteq stale'[v]
        /\ v \in V /\ Misleads(v, D, e) => e.user \in stale'[v]
    BY <1>1, <1>4 DEF Comes
  <2>3. last[v] \in [Person -> Nat] /\ shown[v] \in [Person -> Flag]
    BY <1>2
  <2>4. ASSUME v \in V \ D
        PROVE  /\ \A u \in Person : u # e.user => shown'[v][u] = shown[v][u]
               /\ shown'[v][e.user] = "online" <=> e.kind = "online"
    <3>1. CASE e.kind = "online"
      <4>1. shown'[v] = [shown[v] EXCEPT ![e.user] = "online"]
        BY <1>4, <2>4, <3>1 DEF BrowserShows, DesktopShows
      <4> QED
        BY <1>1, <2>3, <3>1, <4>1
    <3>2. CASE e.kind = "offline"
      <4>1. \/ shown'[v] = [shown[v] EXCEPT ![e.user] = IF @ = "unknown" THEN @ ELSE "offline"]
            \/ shown'[v] = [shown[v] EXCEPT ![e.user] = "offline"]
        BY <1>4, <2>4, <3>2 DEF BrowserShows, DesktopShows
      <4> QED
        BY <1>1, <2>3, <3>2, <4>1
    <3> QED
      BY <1>1, <3>1, <3>2
  <2>5. /\ \A u \in Person : u # e.user => shown'[v][u] = shown[v][u] /\ last'[v][u] = last[v][u]
        /\ v \notin Hearing => shown'[v] = shown[v] /\ last'[v] = last[v]
    BY <1>1, <1>4, <2>2, <2>3, <2>4
  <2>6. ASSUME v \in Hearing
        PROVE  last'[v][e.user] = IF e.number > last[v][e.user] THEN e.number ELSE last[v][e.user]
    BY <1>1, <1>4, <2>2, <2>3, <2>6
  <2>7. ASSUME v \in Hearing, e.user \notin stale'[v]
        PROVE  /\ ~Ends(v)
               /\ IF e.number >= last[v][e.user]
                  THEN shown'[v][e.user] = "online" <=> e.kind = "online"
                  ELSE shown'[v][e.user] = shown[v][e.user]
    <3>1. ~Misleads(v, D, e)
      BY <1>4, <2>2, <2>7
    <3>2. ~Ends(v)
      BY <1>1, <3>1 DEF Misleads, Early, Ends
    <3>3. last[v][e.user] \in Nat
      BY <1>1, <2>3
    <3>4. CASE v \in D
      <4>1. ~IsNews(v, e) /\ shown'[v] = shown[v]
        BY <1>4, <3>1, <3>4 DEF Misleads
      <4>2. e.number >= last[v][e.user] => e.kind = shown[v][e.user]
        BY <1>1, <4>1 DEF IsNews
      <4>3. ~(e.number >= last[v][e.user]) => shown'[v][e.user] = shown[v][e.user]
        BY <4>1
      <4> QED
        BY <3>2, <4>1, <4>2, <4>3
    <3>5. CASE v \notin D
      <4>1. e.number >= last[v][e.user]
        BY <1>1, <3>1, <3>3, <3>5 DEF Misleads
      <4> QED
        BY <1>4, <2>4, <2>7, <3>2, <3>5, <4>1
    <3> QED
      BY <3>4, <3>5
  <2> QED
    BY <2>2, <2>5, <2>6, <2>7
<1>5. CASE web /\ Comes(Viewer, Viewer, e) /\ UNCHANGED <<shown, sync, seen, recent>>
  <2>1. Viewer = Hearing
    BY <1>5 DEF Hearing
  <2>2. /\ Comes(Viewer, Viewer, e) /\ shown' = shown /\ sync' = sync /\ seen' = seen
    BY <1>5
  <2>3. EventSteps(e)
    BY <1>4, <2>1, <2>2
  <2>4. last' \in [Viewer -> [Person -> Nat]] /\ stale' \in [Viewer -> SUBSET Person]
    BY <2>2, ComesTypes
  <2> QED
    BY <1>2, <2>2, <2>3, <2>4
<1>6. CASE Dispatch(Hearing, e)
  <2> DEFINE D == {v \in Hearing : web /\ Text(e) \in seen[v]}
  <2>1. /\ Handled(Hearing \ D, e) /\ Comes(Hearing, D, e)
        /\ \E emptied \in {{}, Hearing \ D} :
             seen' = [v \in Viewer |-> IF v \in emptied THEN {}
                                       ELSE IF v \in Hearing /\ web THEN seen[v] \cup {Text(e)}
                                       ELSE seen[v]]
    BY <1>6 DEF Dispatch
  <2>2. Hearing \subseteq Viewer /\ D \subseteq Hearing
    BY DEF Hearing
  <2> HIDE DEF D
  <2>3. ASSUME NEW v \in Viewer, NEW t \in seen'[v]
        PROVE  t \in seen[v] \/ t.kind # "end"
    <3>1. t \in seen[v] \/ t = Text(e)
      BY <2>1, <2>3
    <3> QED
      BY <1>1, <1>3, <3>1
  <2>4. ASSUME NEW v \in Viewer
        PROVE  sync'[v] = sync[v]
    <3>1. Buffers(sync[v], e) = sync[v]
      BY <1>1 DEF Buffers
    <3> QED
      BY <2>1, <3>1 DEF Handled
  <2>5. ASSUME NEW v \in Viewer, v \notin Hearing \ D
        PROVE  shown'[v] = shown[v]
    BY <2>1, <2>5 DEF Handled
  <2>6. ASSUME NEW v \in Hearing \ D
        PROVE  shown'[v] = IF web THEN BrowserShows(shown[v], sync[v], e) ELSE DesktopShows(shown[v], e)
    BY <2>1, <2>2, <2>6 DEF Handled
  <2>7. EventSteps(e)
    BY <1>4, <2>1, <2>2, <2>3, <2>4, <2>5, <2>6
  <2>8. shown' \in [Viewer -> [Person -> Flag]] /\ sync' \in [Viewer -> [Person -> Flag]]
    BY <2>1, HandledTypes
  <2>9. last' \in [Viewer -> [Person -> Nat]] /\ stale' \in [Viewer -> SUBSET Person]
    BY <2>1, ComesTypes
  <2> QED
    BY <2>7, <2>8, <2>9
<1> QED
  BY <1>5, <1>6 DEF Datagram

LEMMA EventsKeepTheOrder ==
  ASSUME LoginsAreInOrder, NEW e, EventSteps(e), UNCHANGED <<direct, web, login, lines>>
  PROVE  LoginsAreInOrder'
<1>1. web' = web /\ entry' = entry /\ unsent' = unsent /\ direct' = direct /\ lines' = lines
  BY DEF login
<1>2. ASSUME NEW v \in Viewer
      PROVE  /\ Synced(v)' <=> Synced(v)
             /\ Ends(v)' <=> Ends(v)
             /\ sync'[v] = sync[v]
             /\ \A t \in seen'[v] : t \in seen[v] \/ t.kind # "end"
             /\ entry[v] = "none" /\ ~web => shown'[v] = shown[v]
  <2>1. (Synced(v)' <=> Synced(v)) /\ (Ends(v)' <=> Ends(v))
    BY <1>1 DEF Synced, Ends
  <2>2. entry[v] = "none" /\ ~web => v \notin Hearing
    BY DEF Hearing
  <2> QED
    BY <2>1, <2>2 DEF EventSteps
<1>3. \A v \in Viewer : entry[v] = "none" => sync'[v] = Unknown /\ (~web => shown'[v] = Unknown)
  BY <1>2 DEF LoginsAreInOrder
<1>4. \A v \in Viewer : web /\ (entry[v] \in {"none", "reading"} \/ Ends(v)) =>
                          \A t \in seen'[v] : t.kind # "end"
  BY <1>2 DEF LoginsAreInOrder
<1> QED
  BY <1>1, <1>2, <1>3, <1>4 DEF LoginsAreInOrder

\* After the last event of a user he is shown right, and after an earlier one the last one is
\* to come, or has come.
LEMMA EventStaysRight ==
  ASSUME OnlineTypeOK, LoginsAreInOrder, NEW e \in EventLine, EventSteps(e),
         UNCHANGED <<people, direct, web, login, lines>>,
         NEW v \in Viewer, NEW u \in Person, RightOrComing(v, u), u \notin stale'[v],
         last[v][u] <= moves[u],
         u = e.user =>
           /\ e.number <= moves[u]
           /\ e.number = moves[u] =>
                stage[u] \in IF e.kind = "online" THEN {"told", "in"} ELSE {"untold", "gone", "out"},
         \A h \in Host : Queued(u, h) => Queued(u, h)' \/ (u = e.user /\ e.number = moves[u]),
         u = e.user /\ v \in Hearing /\ e.number # moves[u] =>
           \E w \in Viewer :
             InTable(w) /\ (~Published(u) \/ Queued(u, HostOf(w))' \/ last[v][u] = moves[u])
  PROVE  RightOrComing(v, u)'
<1>1. /\ web' = web /\ entry' = entry /\ unsent' = unsent /\ direct' = direct /\ lines' = lines
      /\ stage' = stage /\ moves' = moves
  BY DEF login, people
<1>2. /\ Hearing' = Hearing
      /\ Synced(v)' <=> Synced(v)
      /\ Listed(v, u)' <=> Listed(v, u)
      /\ \A w \in Viewer : InTable(w)' <=> InTable(w)
      /\ Published(u)' <=> Published(u)
  BY <1>1 DEF Hearing, Synced, Ends, Listed, InTable, Published
<1>3. /\ e.kind \in {"online", "offline"} /\ e.number \in Nat
      /\ moves[u] \in Nat /\ last[v][u] \in Nat /\ entry[v] \in Entry
  BY DEF EventLine, OnlineTypeOK
<1>4. /\ sync'[v] = sync[v]
      /\ u # e.user => shown'[v][u] = shown[v][u] /\ last'[v][u] = last[v][u]
      /\ v \notin Hearing => shown'[v] = shown[v] /\ last'[v] = last[v]
      /\ u = e.user /\ v \in Hearing =>
           /\ last'[v][u] = IF e.number > last[v][u] THEN e.number ELSE last[v][u]
           /\ ~Ends(v)
           /\ IF e.number >= last[v][u] THEN shown'[v][u] = "online" <=> e.kind = "online"
              ELSE shown'[v][u] = shown[v][u]
  BY DEF EventSteps
<1>5. last[v][u] = moves[u] => last'[v][u] = moves[u]
  BY <1>3, <1>4
<1>6. /\ DirectIsFollowed(v, u) /\ AwayIsSaid(v, u) /\ InIsShown(v, u) /\ AwayIsShown(v, u)
  BY DEF RightOrComing
<1>7. \A h \in Host : Delivers(h)' <=> Delivers(h)
  BY <1>2 DEF Delivers
<1>8. CASE u = e.user /\ e.number = moves[u] /\ v \in Hearing
  <2>1. /\ last'[v][u] = moves[u] /\ ~Ends(v)
        /\ shown'[v][u] = "online" <=> e.kind = "online"
        /\ stage[u] \in IF e.kind = "online" THEN {"told", "in"} ELSE {"untold", "gone", "out"}
    BY <1>3, <1>4, <1>8
  <2>2. DirectIsFollowed(v, u)'
    BY <1>1, <1>2, <1>6, <2>1 DEF DirectIsFollowed
  <2>3. AwayIsSaid(v, u)'
    <3>1. stage[u] \in {"new", "out"} => shown'[v][u] # "online"
      BY <2>1
    <3> QED
      BY <1>1, <1>2, <1>4, <1>6, <3>1 DEF AwayIsSaid
  <2>4. InIsShown(v, u)'
    <3>1. stage[u] = "in" => shown'[v][u] = "online"
      BY <2>1
    <3>2. entry[v] \notin {"none", "reading"} => Synced(v)'
      BY <1>2, <2>1 DEF Synced
    <3> QED
      BY <1>1, <3>1, <3>2 DEF InIsShown
  <2>5. AwayIsShown(v, u)'
    <3>1. stage[u] \in {"new", "gone", "out"} => shown'[v][u] # "online"
      BY <2>1
    <3> QED
      BY <1>1, <3>1 DEF AwayIsShown
  <2> QED
    BY <2>2, <2>3, <2>4, <2>5 DEF RightOrComing
<1>9. CASE v \notin Hearing
  <2>1. ~web /\ entry[v] = "none"
    BY <1>9 DEF Hearing
  <2>2. DirectIsFollowed(v, u)'
    BY <1>2, <1>9 DEF DirectIsFollowed
  <2>3. AwayIsSaid(v, u)' /\ InIsShown(v, u)' /\ AwayIsShown(v, u)'
    BY <1>1, <2>1 DEF AwayIsSaid, InIsShown, AwayIsShown, Synced
  <2> QED
    BY <2>2, <2>3 DEF RightOrComing
<1>10. CASE ~(u = e.user /\ e.number = moves[u]) /\ v \in Hearing
  <2>1. \A h \in Host : Queued(u, h) => Queued(u, h)'
    BY <1>10
  <2>2. Awaited(u) => Awaited(u)'
    BY <1>2, <1>7, <2>1 DEF Awaited
  <2>3. DirectIsFollowed(v, u)'
    BY <1>1, <1>2, <1>5, <1>6, <2>1, OnlineUsersAssumption DEF DirectIsFollowed
  <2>4. CASE shown'[v][u] = shown[v][u]
    <3>1. AwayIsSaid(v, u)'
      BY <1>1, <1>2, <1>4, <1>6, <2>4 DEF AwayIsSaid
    <3>2. InIsShown(v, u)'
      BY <1>1, <1>2, <1>6, <2>2, <2>4 DEF InIsShown
    <3>3. AwayIsShown(v, u)'
      BY <1>1, <1>2, <1>6, <2>2, <2>4 DEF AwayIsShown
    <3> QED
      BY <2>3, <3>1, <3>2, <3>3 DEF RightOrComing
  <2>5. CASE shown'[v][u] # shown[v][u]
    <3>1. u = e.user /\ e.number # moves[u] /\ e.number >= last[v][u] /\ ~Ends(v)
      BY <1>4, <1>10, <2>5
    <3>2. last[v][u] # moves[u]
      BY <1>3, <3>1
    <3>3. PICK w \in Viewer : InTable(w) /\ (~Published(u) \/ Queued(u, HostOf(w))')
      BY <1>10, <3>1, <3>2
    <3>4. Awaited(u)'
      BY <1>2, <1>7, <3>3, OnlineUsersAssumption DEF Awaited, Delivers
    <3>5. ~web /\ entry[v] # "none" => Synced(v)
      <4>1. ~web /\ entry[v] # "none" => v = w
        BY <3>3 DEF LoginsAreInOrder, InTable
      <4> QED
        BY <3>1, <3>3, <4>1 DEF Synced, InTable
    <3>6. AwayIsSaid(v, u)'
      BY <1>1, <1>2, <1>4, <1>6, <3>5 DEF AwayIsSaid
    <3>7. InIsShown(v, u)' /\ AwayIsShown(v, u)'
      BY <3>4 DEF InIsShown, AwayIsShown
    <3> QED
      BY <2>3, <3>6, <3>7 DEF RightOrComing
  <2> QED
    BY <2>4, <2>5
<1> QED
  BY <1>8, <1>9, <1>10

LEMMA ADirectCopyIsRead ==
  ASSUME OnlineTypeOK, Ordered, ReceiveDirect, UNCHANGED <<people, web, login>>,
         slipped' \in [Viewer -> SUBSET Person]
  PROVE  /\ OnlineTypeOK' /\ Ordered'
         /\ \A v \in Viewer : stale[v] \subseteq stale'[v]
         /\ \A v \in Viewer, u \in Person :
              RightOrComing(v, u) /\ u \notin stale'[v] => RightOrComing(v, u)'
<1>1. PICK e \in direct : Datagram(e)
  BY DEF ReceiveDirect
<1>2. /\ published' = published /\ direct' = direct /\ lines' = lines /\ web' = web
      /\ entry' = entry /\ unsent' = unsent
      /\ stage' = stage /\ home' = home /\ moves' = moves /\ redis' = redis
  BY DEF ReceiveDirect, copies, people, login
<1>3. e \in EventLine /\ e.user \in Person /\ e.number \in Nat
  <2>1. e \in EventLine
    BY DEF OnlineTypeOK
  <2> QED
    BY <2>1 DEF EventLine
<1>4. /\ EventSteps(e)
      /\ shown' \in [Viewer -> [Person -> Flag]] /\ sync' \in [Viewer -> [Person -> Flag]]
      /\ last' \in [Viewer -> [Person -> Nat]] /\ stale' \in [Viewer -> SUBSET Person]
  BY <1>1, <1>3, WhatAnEventDoes
<1>5. OnlineTypeOK'
  BY <1>2, <1>4 DEF OnlineTypeOK
<1>6. /\ e.number <= moves[e.user]
      /\ e.number = moves[e.user] =>
           stage[e.user] \in IF e.kind = "online" THEN {"told", "in"} ELSE {"untold", "gone", "out"}
  BY DEF Ordered, CopiesAreTrue
<1>7. \A v \in Viewer, u \in Person : last[v][u] <= moves[u]
  BY DEF Ordered, CopiesAreTrue
<1>8. UsersAreCounted' /\ QueuesAreInOrder'
  BY <1>2 DEF Ordered, UsersAreCounted, QueuesAreInOrder, Published, Queued
<1>9. CopiesAreTrue'
  <2>1. ASSUME NEW v \in Viewer, NEW u \in Person
        PROVE  last'[v][u] <= moves[u]
    <3>1. last'[v][u] = last[v][u] \/ (u = e.user /\ last'[v][u] = e.number)
      BY <1>4 DEF EventSteps
    <3> QED
      BY <1>6, <1>7, <3>1
  <2> QED
    BY <1>2, <2>1 DEF Ordered, CopiesAreTrue
<1>10. LoginsAreInOrder'
  <2>1. LoginsAreInOrder /\ UNCHANGED <<direct, web, login, lines>>
    BY <1>2 DEF Ordered
  <2> QED
    BY <1>4, <2>1, EventsKeepTheOrder
<1>11. ASSUME NEW v \in Viewer, NEW u \in Person, RightOrComing(v, u), u \notin stale'[v]
       PROVE  RightOrComing(v, u)'
  <2>1. /\ LoginsAreInOrder /\ UNCHANGED <<people, direct, web, login, lines>>
        /\ last[v][u] <= moves[u]
    BY <1>2, <1>7 DEF Ordered
  <2>2. u = e.user =>
           /\ e.number <= moves[u]
           /\ e.number = moves[u] =>
                stage[u] \in IF e.kind = "online" THEN {"told", "in"} ELSE {"untold", "gone", "out"}
    BY <1>6
  <2>3. \A h \in Host : Queued(u, h) => Queued(u, h)'
    BY <1>2 DEF Queued
  <2>4. u = e.user /\ v \in Hearing /\ e.number # moves[u] =>
           \E w \in Viewer :
             InTable(w) /\ (~Published(u) \/ Queued(u, HostOf(w)) \/ last[v][u] = moves[u])
    BY <1>11 DEF RightOrComing, DirectIsFollowed
  <2>5. u = e.user /\ v \in Hearing /\ e.number # moves[u] =>
           \E w \in Viewer :
             InTable(w) /\ (~Published(u) \/ Queued(u, HostOf(w))' \/ last[v][u] = moves[u])
    BY <2>3, <2>4, OnlineUsersAssumption
  <2> QED
    BY <1>3, <1>4, <1>11, <2>1, <2>2, <2>3, <2>5, EventStaysRight
<1> QED
  BY <1>4, <1>5, <1>8, <1>9, <1>10, <1>11 DEF Ordered, EventSteps

\* What reading the first event of a server's queue changes.
QueueSteps(h, e) ==
  /\ published' \in [Host -> Seq(EventLine)]
  /\ e \in EventLine /\ e = Head(published[h])
  /\ \A u \in Person, g \in Host :
       /\ Queued(u, g)' => Queued(u, g)
       /\ Queued(u, g) => Queued(u, g)' \/ (g = h /\ u = e.user /\ e.number = moves[u])
  /\ QueuesAreInOrder'
  /\ e.number <= moves[e.user]
  /\ e.number = moves[e.user] =>
       stage[e.user] \in IF e.kind = "online" THEN {"in"} ELSE {"gone", "out"}
  /\ Published(e.user) => Queued(e.user, h)
  /\ \A g \in Host : \A i \in DOMAIN published'[g] :
       \E j \in DOMAIN published[g] : published'[g][i] = published[g][j]

LEMMA QueuesAfterARelay ==
  ASSUME OnlineTypeOK, Ordered, NEW h \in Host, published[h] # << >>,
         published' = [published EXCEPT ![h] = Tail(published[h])], UNCHANGED people
  PROVE  QueueSteps(h, published[h][1])
<1> DEFINE e == published[h][1]
<1>1. /\ published \in [Host -> Seq(EventLine)] /\ published[h] \in Seq(EventLine)
      /\ moves \in [Person -> Nat] /\ stage' = stage /\ moves' = moves
  BY DEF OnlineTypeOK, people
<1>2. published'[h] = Tail(published[h]) /\ \A g \in Host : g # h => published'[g] = published[g]
  BY <1>1
<1>3. /\ Tail(published[h]) \in Seq(EventLine) /\ Head(published[h]) = published[h][1]
      /\ Head(published[h]) \in EventLine
      /\ 1 \in DOMAIN published[h]
      /\ \A i \in DOMAIN published'[h] : i \in Nat /\ i > 0 /\ i + 1 \in DOMAIN published[h]
                                         /\ published'[h][i] = published[h][i + 1]
      /\ \A j \in DOMAIN published[h] : j \in Nat /\ (j # 1 => j - 1 \in DOMAIN published'[h]
                                                       /\ published'[h][j - 1] = published[h][j])
  BY <1>1, <1>2, TailOf
<1> HIDE DEF e
<1>e. e = published[h][1]
  BY DEF e
<1>4. published' \in [Host -> Seq(EventLine)]
  BY <1>1, <1>3
<1>5. ASSUME NEW u \in Person, NEW g \in Host
      PROVE  /\ Queued(u, g)' => Queued(u, g)
             /\ Queued(u, g) => Queued(u, g)' \/ (g = h /\ u = e.user /\ e.number = moves[u])
  <2>1. CASE g # h
    BY <1>1, <1>2, <2>1 DEF Queued
  <2>2. CASE g = h
    <3>1. ASSUME Queued(u, h)'
          PROVE  Queued(u, h)
      <4>1. PICK i \in DOMAIN published'[h] :
              published'[h][i].user = u /\ published'[h][i].number = moves[u]
        BY <1>1, <3>1 DEF Queued
      <4>2. i + 1 \in DOMAIN published[h] /\ published'[h][i] = published[h][i + 1]
        BY <1>3
      <4> QED
        BY <4>1, <4>2 DEF Queued
    <3>2. ASSUME Queued(u, h), ~(u = e.user /\ e.number = moves[u])
          PROVE  Queued(u, h)'
      <4>1. PICK j \in DOMAIN published[h] :
              published[h][j].user = u /\ published[h][j].number = moves[u]
        BY <3>2 DEF Queued
      <4>2. j # 1
        BY <1>e, <3>2, <4>1
      <4>3. j - 1 \in DOMAIN published'[h] /\ published'[h][j - 1] = published[h][j]
        BY <1>3, <4>2
      <4> QED
        BY <1>1, <4>1, <4>3 DEF Queued
    <3> QED
      BY <2>2, <3>1, <3>2
  <2> QED
    BY <2>1, <2>2
<1>6. /\ e.number <= moves[e.user]
      /\ e.number = moves[e.user] =>
           stage[e.user] \in IF e.kind = "online" THEN {"in"} ELSE {"gone", "out"}
  BY <1>3, <1>e DEF Ordered, CopiesAreTrue
<1>7. Published(e.user) => Queued(e.user, h)
  BY <1>3, <1>e DEF Ordered, QueuesAreInOrder
<1>8. ASSUME NEW g \in Host, NEW i \in DOMAIN published'[g]
      PROVE  \E j \in DOMAIN published[g] : published'[g][i] = published[g][j]
  BY <1>2, <1>3, <1>8
<1>9. QueuesAreInOrder'
  <2>1. ASSUME NEW g \in Host, NEW i \in DOMAIN published'[g], NEW j \in DOMAIN published'[g],
               i < j, published'[g][j].user = published'[g][i].user
        PROVE  published'[g][i].number < published'[g][j].number
    <3>1. CASE g # h
      BY <1>2, <2>1, <3>1 DEF Ordered, QueuesAreInOrder
    <3>2. CASE g = h
      <4>1. /\ i + 1 \in DOMAIN published[h] /\ published'[h][i] = published[h][i + 1] /\ i \in Nat
            /\ j + 1 \in DOMAIN published[h] /\ published'[h][j] = published[h][j + 1] /\ j \in Nat
        BY <1>3, <3>2
      <4>2. i + 1 < j + 1
        BY <2>1, <4>1
      <4>3. published[h][i + 1].number < published[h][j + 1].number
        BY <2>1, <3>2, <4>1, <4>2 DEF Ordered, QueuesAreInOrder
      <4> QED
        BY <3>2, <4>1, <4>3
    <3> QED
      BY <3>1, <3>2
  <2>2. ASSUME NEW g \in Host, NEW i \in DOMAIN published'[g], NEW u, u = published'[g][i].user,
               Published(u)'
        PROVE  Queued(u, g)'
    <3>1. PICK j \in DOMAIN published[g] : published'[g][i] = published[g][j]
      BY <1>8
    <3>2. published'[g][i] \in EventLine
      BY <1>4
    <3>3. u \in Person /\ published'[g][i].number \in Nat
      BY <2>2, <3>2 DEF EventLine
    <3>4. Queued(u, g)
      BY <1>1, <2>2, <3>1 DEF Ordered, QueuesAreInOrder, Published
    <3>5. CASE g = h /\ u = e.user /\ e.number = moves[u]
      <4>1. /\ i + 1 \in DOMAIN published[h] /\ published'[h][i] = published[h][i + 1] /\ 1 < i + 1
        BY <1>3, <3>5
      <4>2. published[h][1].number < published[h][i + 1].number
        BY <1>3, <1>e, <2>2, <3>5, <4>1 DEF Ordered, QueuesAreInOrder
      <4>3. published[h][i + 1].number <= moves[u]
        BY <2>2, <3>5, <4>1 DEF Ordered, CopiesAreTrue
      <4>4. moves[u] \in Nat /\ published[h][i + 1].number \in Nat
        BY <1>1, <3>3, <3>5, <4>1
      <4> QED
        BY <1>e, <3>5, <4>2, <4>3, <4>4
    <3> QED
      BY <1>5, <3>3, <3>4, <3>5
  <2> QED
    BY <2>1, <2>2 DEF QueuesAreInOrder
<1> QED
  BY <1>3, <1>4, <1>5, <1>6, <1>7, <1>8, <1>9, <1>e DEF QueueSteps

LEMMA ARelayIsRead ==
  ASSUME OnlineTypeOK, Ordered, NEW h \in Host, ReceiveRelay(h), UNCHANGED <<people, web, login>>,
         slipped' \in [Viewer -> SUBSET Person]
  PROVE  /\ OnlineTypeOK' /\ Ordered'
         /\ \A v \in Viewer : stale[v] \subseteq stale'[v]
         /\ \A v \in Viewer, u \in Person :
              RightOrComing(v, u) /\ u \notin stale'[v] => RightOrComing(v, u)'
<1> DEFINE e == published[h][1]
<1>1. /\ published' = [published EXCEPT ![h] = Tail(published[h])] /\ published[h] # << >>
      /\ e = published[h][1]
      /\ direct' = direct /\ lines' = lines /\ web' = web /\ entry' = entry /\ unsent' = unsent
      /\ stage' = stage /\ home' = home /\ moves' = moves /\ redis' = redis
  BY DEF ReceiveRelay, people, login
<1> HIDE DEF e
<1>2. QueueSteps(h, e)
  <2>1. published' = [published EXCEPT ![h] = Tail(published[h])] /\ published[h] # << >>
    BY <1>1
  <2>2. QueueSteps(h, published[h][1])
    BY <2>1, QueuesAfterARelay
  <2> QED
    BY <1>1, <2>2
<1>e. \A g \in Host : \A i \in DOMAIN published'[g] :
        \E j \in DOMAIN published[g] : published'[g][i] = published[g][j]
  BY <1>2 DEF QueueSteps
<1>3. /\ (Delivers(h) => Datagram(e)) /\ (~Delivers(h) => UNCHANGED <<display, stale>>)
  BY <1>2 DEF QueueSteps, ReceiveRelay, Delivers
<1>4. UsersAreCounted'
  BY <1>1 DEF Ordered, UsersAreCounted
<1>5. \A v \in Viewer, u \in Person : last[v][u] <= moves[u]
  BY DEF Ordered, CopiesAreTrue
<1>6. ASSUME \A v \in Viewer, u \in Person : last'[v][u] <= moves[u]
      PROVE  CopiesAreTrue'
  <2>1. ASSUME NEW g \in Host, NEW i \in DOMAIN published'[g], NEW c, c = published'[g][i]
        PROVE  /\ c.number <= moves[c.user]
               /\ c.number = moves[c.user] =>
                    stage[c.user] \in IF c.kind = "online" THEN {"in"} ELSE {"gone", "out"}
    <3>1. PICK j \in DOMAIN published[g] : published'[g][i] = published[g][j]
      BY <1>e
    <3> QED
      BY <2>1, <3>1 DEF Ordered, CopiesAreTrue
  <2>2. \A c \in direct :
          /\ c.number <= moves[c.user]
          /\ c.number = moves[c.user] =>
               stage[c.user] \in IF c.kind = "online" THEN {"told", "in"} ELSE {"untold", "gone", "out"}
    BY DEF Ordered, CopiesAreTrue
  <2> QED
    BY <1>1, <1>6, <2>1, <2>2 DEF CopiesAreTrue
<1>7. LoginsAreInOrder /\ UNCHANGED <<direct, web, login, lines>>
  BY <1>1 DEF Ordered, login
<1>8. CASE Delivers(h)
  <2>1. /\ EventSteps(e)
        /\ shown' \in [Viewer -> [Person -> Flag]] /\ sync' \in [Viewer -> [Person -> Flag]]
        /\ last' \in [Viewer -> [Person -> Nat]] /\ stale' \in [Viewer -> SUBSET Person]
    BY <1>2, <1>3, <1>8, WhatAnEventDoes DEF QueueSteps
  <2>2. OnlineTypeOK'
    BY <1>1, <1>2, <2>1 DEF QueueSteps, OnlineTypeOK
  <2>3. e.user \in Person /\ e.number \in Nat
    BY <1>2 DEF QueueSteps, EventLine
  <2>4. CopiesAreTrue'
    <3>1. ASSUME NEW v \in Viewer, NEW u \in Person
          PROVE  last'[v][u] <= moves[u]
      <4>1. last'[v][u] = last[v][u] \/ (u = e.user /\ last'[v][u] = e.number)
        BY <2>1 DEF EventSteps
      <4> QED
        BY <1>2, <1>5, <4>1 DEF QueueSteps
    <3> QED
      BY <1>6, <3>1
  <2>5. LoginsAreInOrder'
    BY <1>7, <2>1, EventsKeepTheOrder
  <2>6. ASSUME NEW v \in Viewer, NEW u \in Person, RightOrComing(v, u), u \notin stale'[v]
        PROVE  RightOrComing(v, u)'
    <3>1. /\ UNCHANGED <<people, direct, web, login, lines>>
          /\ last[v][u] <= moves[u]
      BY <1>1, <1>5, <1>7
    <3>2. u = e.user =>
             /\ e.number <= moves[u]
             /\ e.number = moves[u] =>
                  stage[u] \in IF e.kind = "online" THEN {"told", "in"} ELSE {"untold", "gone", "out"}
      BY <1>2 DEF QueueSteps
    <3>3. \A g \in Host : Queued(u, g) => Queued(u, g)' \/ (u = e.user /\ e.number = moves[u])
      BY <1>2 DEF QueueSteps
    <3>4. u = e.user /\ v \in Hearing /\ e.number # moves[u] =>
             \E w \in Viewer :
               InTable(w) /\ (~Published(u) \/ Queued(u, HostOf(w))' \/ last[v][u] = moves[u])
      <4>1. PICK w \in Viewer : InTable(w) /\ HostOf(w) = h
        BY <1>8 DEF Delivers
      <4>2. u = e.user /\ e.number # moves[u] /\ Published(u) => Queued(u, h)'
        BY <1>2 DEF QueueSteps
      <4> QED
        BY <4>1, <4>2
    <3> QED
      BY <1>2, <1>7, <2>1, <2>6, <3>1, <3>2, <3>3, <3>4, EventStaysRight DEF QueueSteps
  <2> QED
    BY <1>2, <1>4, <2>1, <2>2, <2>4, <2>5, <2>6 DEF QueueSteps, Ordered, EventSteps
\* No client is in the table of the server: nobody waits for its events.
<1>9. CASE ~Delivers(h)
  <2>1. /\ shown' = shown /\ sync' = sync /\ seen' = seen /\ last' = last /\ stale' = stale
    BY <1>3, <1>9 DEF display
  <2>2. OnlineTypeOK'
    BY <1>1, <1>2, <2>1 DEF QueueSteps, OnlineTypeOK
  <2>3. CopiesAreTrue'
    BY <1>5, <1>6, <2>1
  <2>4. LoginsAreInOrder'
    BY <1>1, <1>7, <2>1 DEF LoginsAreInOrder, Synced, Ends
  <2>5. ASSUME NEW v \in Viewer, NEW u \in Person, RightOrComing(v, u)
        PROVE  RightOrComing(v, u)'
    <3>1. /\ Hearing' = Hearing
          /\ Synced(v)' <=> Synced(v)
          /\ Listed(v, u)' <=> Listed(v, u)
          /\ \A w \in Viewer : InTable(w)' <=> InTable(w)
          /\ Published(u)' <=> Published(u)
      BY <1>1 DEF Hearing, Synced, Ends, Listed, InTable, Published
    <3>2. \A g \in Host : g # h => (Queued(u, g) => Queued(u, g)')
      BY <1>2 DEF QueueSteps
    <3>3. \A w \in Viewer : InTable(w) => HostOf(w) # h
      BY <1>9 DEF Delivers
    <3>4. \A g \in Host : Delivers(g)' <=> Delivers(g)
      BY <3>1 DEF Delivers
    <3>5. Awaited(u) => Awaited(u)'
      BY <1>9, <3>1, <3>2, <3>4 DEF Awaited
    <3>6. \A w \in Viewer : InTable(w) /\ Queued(u, HostOf(w)) => Queued(u, HostOf(w))'
      BY <3>2, <3>3, OnlineUsersAssumption
    <3>7. DirectIsFollowed(v, u)'
      BY <1>1, <2>1, <2>5, <3>1, <3>6 DEF DirectIsFollowed, RightOrComing
    <3>8. AwayIsSaid(v, u)'
      BY <1>1, <2>1, <2>5, <3>1 DEF AwayIsSaid, RightOrComing
    <3>9. InIsShown(v, u)' /\ AwayIsShown(v, u)'
      BY <1>1, <2>1, <2>5, <3>1, <3>5 DEF InIsShown, AwayIsShown, RightOrComing
    <3> QED
      BY <3>7, <3>8, <3>9 DEF RightOrComing
  <2> QED
    BY <1>2, <1>4, <2>1, <2>2, <2>3, <2>4, <2>5 DEF QueueSteps, Ordered
<1> QED
  BY <1>8, <1>9

-----------------------------------------------------------------------------
(***************************************************************************)
(* All steps                                                               *)
(***************************************************************************)
\* Whoever is away while a client logs in has slipped it.
Slips ==
  /\ slipped' \in [Viewer -> SUBSET Person]
  /\ \A v \in Viewer : slipped[v] \subseteq slipped'[v]
  /\ \A v \in Viewer, u \in Person : LoggingIn(v)' /\ Leaving(u)' => u \in slipped'[v]

LEMMA StepsSlip ==
  ASSUME OnlineTypeOK, OnlineNext
  PROVE  Slips
<1>1. slipped' = [v \in Viewer |-> slipped[v] \cup {u \in Person : Leaving(u)' /\ LoggingIn(v)'}]
  BY DEF OnlineNext
<1>2. slipped \in [Viewer -> SUBSET Person]
  BY DEF OnlineTypeOK
<1> QED
  BY <1>1, <1>2 DEF Slips

LEMMA PersonsKeepIt ==
  ASSUME OnlineInv, Slips, NEW p \in Person, broadcast(p), UNCHANGED <<web, login, lines, display, stale>>
  PROVE  OnlineInv'
<1>1. /\ OnlineTypeOK /\ UsersAreCounted /\ CopiesAreTrue /\ QueuesAreInOrder /\ LoginsAreInOrder
      /\ slipped' \in [Viewer -> SUBSET Person]
  BY DEF OnlineInv, Ordered, Slips
<1>2. PersonSteps(p) /\ OnlineTypeOK'
  BY <1>1, WhatAPersonDoes, PersonTypes
<1>3. moves'[p] \in Nat /\ last' = last /\ stale' = stale
      /\ UNCHANGED <<web, login, lines, display>>
  BY <1>2 DEF OnlineTypeOK, display
<1>4. UsersAreCounted' /\ CopiesAreTrue' /\ QueuesAreInOrder' /\ LoginsAreInOrder'
  BY <1>1, <1>2, <1>3, PersonsAreCounted, PersonCopiesAreTrue, PersonQueuesAreInOrder,
     PersonLoginsAreInOrder
<1>5. ASSUME NEW v \in Viewer, NEW u \in Person, u \notin stale'[v] \cup slipped'[v]
      PROVE  RightOrComing(v, u)'
  <2>1. RightOrComing(v, u) /\ ~(LoggingIn(v) /\ Leaving(u)) /\ ~(LoggingIn(v)' /\ Leaving(u)')
    BY <1>3, <1>5 DEF OnlineInv, Slips
  <2>2. LoggingIn(v)' <=> LoggingIn(v)
    BY DEF LoggingIn, login
  <2>3. CASE u # p
    BY <1>1, <1>2, <1>3, <2>1, <2>3, OthersStayRight
  <2>4. CASE u = p
    <3>1. ~(LoggingIn(v) /\ Leaving(p)) /\ ~(LoggingIn(v) /\ Leaving(p)') /\ RightOrComing(v, p)
      BY <2>1, <2>2, <2>4
    <3>2. RightOrComing(v, p)'
      BY <1>1, <1>2, <1>3, <3>1, PersonStaysRight
    <3> QED
      BY <2>4, <3>2
  <2> QED
    BY <2>3, <2>4
<1> QED
  BY <1>2, <1>4, <1>5 DEF OnlineInv, Ordered, Slips

LEMMA LoginsKeepIt ==
  ASSUME OnlineInv, Slips, NEW x \in Viewer, LogIn(x), UNCHANGED <<people, copies, web, display, stale>>
  PROVE  OnlineInv'
<1>1. /\ OnlineTypeOK /\ UsersAreCounted /\ CopiesAreTrue /\ QueuesAreInOrder /\ LoginsAreInOrder
      /\ slipped' \in [Viewer -> SUBSET Person]
  BY DEF OnlineInv, Ordered, Slips
<1>2. /\ LoginSteps(x)
      /\ entry' \in [Viewer -> Entry] /\ unsent' \in [Viewer -> SUBSET Person]
      /\ lines' \in [Viewer -> Seq(LoginLine)]
  BY <1>1, WhatALoginDoes
<1>3. /\ stale' = stale /\ last' = last /\ shown' = shown /\ sync' = sync /\ web' = web
      /\ published' = published /\ direct' = direct
      /\ stage' = stage /\ home' = home /\ moves' = moves /\ redis' = redis
      /\ UNCHANGED <<people, copies, web, display>> /\ UNCHANGED <<copies, web, display>>
  BY DEF people, copies, display
<1>4. OnlineTypeOK'
  BY <1>1, <1>2, <1>3 DEF OnlineTypeOK
<1>5. UsersAreCounted' /\ CopiesAreTrue' /\ QueuesAreInOrder'
  BY <1>1, <1>3 DEF UsersAreCounted, CopiesAreTrue, QueuesAreInOrder, Published, Queued
<1>6. LoginsAreInOrder'
  BY <1>1, <1>2, <1>3, LoginsStayInOrder
<1>7. ASSUME NEW v \in Viewer, NEW u \in Person, u \notin stale'[v] \cup slipped'[v]
      PROVE  RightOrComing(v, u)'
  <2>1. RightOrComing(v, u)
    BY <1>3, <1>7 DEF OnlineInv, Slips
  <2>2. CASE v # x
    BY <1>2, <1>3, <2>1, <2>2, OtherLoginsStayRight
  <2>3. CASE v = x
    <3>1. RightOrComing(x, u)'
      BY <1>1, <1>2, <1>3, <2>1, <2>3, LoginStaysRight
    <3> QED
      BY <2>3, <3>1
  <2> QED
    BY <2>2, <2>3
<1> QED
  BY <1>4, <1>5, <1>6, <1>7 DEF OnlineInv, Ordered, Slips

LEMMA LinesKeepIt ==
  ASSUME OnlineInv, Slips, NEW x \in Viewer, ReceiveLine(x), UNCHANGED <<people, copies, web, login>>
  PROVE  OnlineInv'
<1>1. /\ OnlineTypeOK /\ UsersAreCounted /\ CopiesAreTrue /\ QueuesAreInOrder /\ LoginsAreInOrder
      /\ slipped' \in [Viewer -> SUBSET Person]
  BY DEF OnlineInv, Ordered, Slips
<1>2. /\ LineSteps(x, lines[x][1]) /\ lines[x] # << >>
      /\ shown' \in [Viewer -> [Person -> Flag]] /\ sync' \in [Viewer -> [Person -> Flag]]
      /\ last' \in [Viewer -> [Person -> Nat]] /\ stale' \in [Viewer -> SUBSET Person]
      /\ lines' \in [Viewer -> Seq(LoginLine)]
  BY <1>1, WhatALineDoes
<1>3. /\ published' = published /\ direct' = direct /\ entry' = entry /\ unsent' = unsent /\ web' = web
      /\ stage' = stage /\ home' = home /\ moves' = moves /\ redis' = redis
      /\ UNCHANGED <<copies, web, login>>
  BY DEF people, copies, login
<1>4. OnlineTypeOK'
  BY <1>1, <1>2, <1>3 DEF OnlineTypeOK
<1>5. last' = last /\ \A v \in Viewer : stale[v] \subseteq stale'[v]
  BY <1>2 DEF LineSteps
<1>6. UsersAreCounted' /\ CopiesAreTrue' /\ QueuesAreInOrder'
  BY <1>1, <1>3, <1>5 DEF UsersAreCounted, CopiesAreTrue, QueuesAreInOrder, Published, Queued
<1>7. LoginsAreInOrder'
  BY <1>1, <1>2, <1>3, LinesStayInOrder
<1>8. ASSUME NEW v \in Viewer, NEW u \in Person, u \notin stale'[v] \cup slipped'[v]
      PROVE  RightOrComing(v, u)'
  <2>1. RightOrComing(v, u) /\ ~(LoggingIn(v) /\ Leaving(u))
    BY <1>5, <1>8 DEF OnlineInv, Slips
  <2>2. CASE v # x
    BY <1>2, <2>1, <2>2, OtherLinesStayRight
  <2>3. CASE v = x
    <3>1. ~Leaving(u)
      BY <1>2, <2>1, <2>3 DEF LoggingIn
    <3>2. RightOrComing(x, u)'
      BY <1>1, <1>2, <1>8, <2>1, <2>3, <3>1, LineStaysRight
    <3> QED
      BY <2>3, <3>2
  <2> QED
    BY <2>2, <2>3
<1> QED
  BY <1>4, <1>6, <1>7, <1>8 DEF OnlineInv, Ordered, Slips

LEMMA EventsKeepIt ==
  ASSUME OnlineInv, Slips, ReceiveDirect \/ \E h \in Host : ReceiveRelay(h),
         UNCHANGED <<people, web, login>>
  PROVE  OnlineInv'
<1>1. OnlineTypeOK /\ Ordered /\ slipped' \in [Viewer -> SUBSET Person]
  BY DEF OnlineInv, Slips
<1>2. /\ OnlineTypeOK' /\ Ordered'
      /\ \A v \in Viewer : stale[v] \subseteq stale'[v]
      /\ \A v \in Viewer, u \in Person :
           RightOrComing(v, u) /\ u \notin stale'[v] => RightOrComing(v, u)'
  <2>1. CASE ReceiveDirect
    BY <1>1, <2>1, ADirectCopyIsRead
  <2>2. ASSUME NEW h \in Host, ReceiveRelay(h)
        PROVE  /\ OnlineTypeOK' /\ Ordered'
               /\ \A v \in Viewer : stale[v] \subseteq stale'[v]
               /\ \A v \in Viewer, u \in Person :
                    RightOrComing(v, u) /\ u \notin stale'[v] => RightOrComing(v, u)'
    BY <1>1, <2>2, ARelayIsRead
  <2> QED
    BY <2>1, <2>2
<1>3. ASSUME NEW v \in Viewer, NEW u \in Person, u \notin stale'[v] \cup slipped'[v]
      PROVE  RightOrComing(v, u)'
  <2>1. RightOrComing(v, u)
    BY <1>2, <1>3 DEF OnlineInv, Slips
  <2> QED
    BY <1>2, <1>3, <2>1
<1> QED
  BY <1>2, <1>3 DEF OnlineInv, Slips

LEMMA OnlineStarts ==
  ASSUME OnlineInit
  PROVE  OnlineInv
<1>1. OnlineTypeOK
  <2>1. Unknown \in [Person -> Flag]
    BY DEF Unknown, Flag
  <2>2. /\ stage \in [Person -> Stage] /\ home \in [Person -> Host] /\ moves \in [Person -> Nat]
        /\ redis \in SUBSET Person /\ web \in BOOLEAN
    BY DEF OnlineInit, Stage
  <2>3. published \in [Host -> Seq(EventLine)] /\ direct \in SUBSET EventLine
    BY DEF OnlineInit
  <2>4. /\ entry \in [Viewer -> Entry] /\ unsent \in [Viewer -> SUBSET Person]
        /\ lines \in [Viewer -> Seq(LoginLine)]
    BY DEF OnlineInit, Entry
  <2>5. /\ shown \in [Viewer -> [Person -> Flag]] /\ sync \in [Viewer -> [Person -> Flag]]
        /\ last \in [Viewer -> [Person -> Nat]]
        /\ stale \in [Viewer -> SUBSET Person] /\ slipped \in [Viewer -> SUBSET Person]
    BY <2>1 DEF OnlineInit
  <2> QED
    BY <2>2, <2>3, <2>4, <2>5 DEF OnlineTypeOK
<1>2. UsersAreCounted
  <2>1. \A u \in Person : stage[u] \in {"new", "out", "in"} /\ (u \in redis <=> stage[u] = "in")
    BY DEF OnlineInit
  <2> QED
    BY <2>1 DEF UsersAreCounted
<1>3. CopiesAreTrue /\ QueuesAreInOrder
  <2>1. direct = {} /\ \A h \in Host : DOMAIN published[h] = {}
    BY DEF OnlineInit
  <2>2. \A v \in Viewer, u \in Person : last[v][u] <= moves[u]
    BY DEF OnlineInit
  <2> QED
    BY <2>1, <2>2 DEF CopiesAreTrue, QueuesAreInOrder
<1>4. \A v \in Viewer : /\ entry[v] = "none" /\ lines[v] = << >> /\ DOMAIN lines[v] = {}
                        /\ sync[v] = Unknown /\ shown[v] = Unknown /\ seen[v] = {}
  BY DEF OnlineInit
<1>5. LoginsAreInOrder
  BY <1>4 DEF LoginsAreInOrder, Ends, Synced, OnlineInit
<1>6. ASSUME NEW v \in Viewer, NEW u \in Person
      PROVE  ~LoggingIn(v) /\ RightOrComing(v, u)
  <2>1. ~LoggingIn(v)
    BY <1>4 DEF LoggingIn
  <2>2. DirectIsFollowed(v, u)
    BY DEF DirectIsFollowed, OnlineInit
  <2>3. AwayIsSaid(v, u) /\ InIsShown(v, u) /\ AwayIsShown(v, u)
    BY <1>4 DEF AwayIsSaid, InIsShown, AwayIsShown, Synced
  <2> QED
    BY <2>1, <2>2, <2>3 DEF RightOrComing
<1> QED
  BY <1>1, <1>2, <1>3, <1>5, <1>6 DEF OnlineInv, Ordered

LEMMA NothingChanges ==
  ASSUME OnlineInv, UNCHANGED onlineVars
  PROVE  OnlineInv'
<1>1. /\ stage' = stage /\ home' = home /\ moves' = moves /\ redis' = redis
      /\ published' = published /\ direct' = direct /\ web' = web
      /\ entry' = entry /\ unsent' = unsent /\ lines' = lines
      /\ shown' = shown /\ sync' = sync /\ seen' = seen /\ last' = last
      /\ stale' = stale /\ slipped' = slipped
  BY DEF onlineVars, people, copies, login, display
<1>2. OnlineTypeOK'
  BY <1>1 DEF OnlineInv, OnlineTypeOK
<1>3. Ordered'
  BY <1>1 DEF OnlineInv, Ordered, UsersAreCounted, CopiesAreTrue, QueuesAreInOrder, LoginsAreInOrder,
              Published, Queued, Ends, Synced
<1>4. \A v \in Viewer, u \in Person :
        /\ LoggingIn(v)' <=> LoggingIn(v)
        /\ Leaving(u)' <=> Leaving(u)
        /\ RightOrComing(v, u)' <=> RightOrComing(v, u)
  BY <1>1 DEF LoggingIn, Leaving, RightOrComing, DirectIsFollowed, AwayIsSaid, InIsShown, AwayIsShown,
              Hearing, InTable, Published, Queued, Synced, Ends, Awaited, Delivers, Listed
<1> QED
  BY <1>1, <1>2, <1>3, <1>4 DEF OnlineInv

\* What is shown is right, or something is to come that makes it so: for any number of users,
\* clients and servers, and however often users come and go.
THEOREM OnlineInvariance == OnlineSpec => []OnlineInv
<1>1. OnlineInit => OnlineInv
  BY OnlineStarts
<1>2. OnlineInv /\ [OnlineNext]_onlineVars => OnlineInv'
  <2>1. SUFFICES ASSUME OnlineInv, OnlineNext
                 PROVE  OnlineInv'
    BY NothingChanges
  <2>2. Slips
    BY <2>1, StepsSlip DEF OnlineInv
  <2> QED
    BY <2>1, <2>2, PersonsKeepIt, LoginsKeepIt, LinesKeepIt, EventsKeepIt DEF OnlineNext
<1> QED
  BY <1>1, <1>2, PTL DEF OnlineSpec

\* Once all is handled every client shows who is online and nobody else, except for users of
\* whom it was told in the wrong order, of whom a filter dropped news for a copy of an earlier
\* line, or who left during its login.
THEOREM OnlineIsShown == OnlineSpec => []OnlineUsersAreShown
<1>1. OnlineInv => OnlineUsersAreShown
  <2>1. SUFFICES ASSUME OnlineInv, NEW v \in Viewer, entry[v] = "in", lines[v] = << >>,
                        \A h \in Host : published[h] = << >>,
                        NEW u \in Person \ (stale[v] \cup slipped[v]),
                        stage[u] \in {"new", "out", "in"}
                 PROVE  shown[v][u] = "online" <=> stage[u] = "in"
    BY DEF OnlineUsersAreShown
  <2>2. InIsShown(v, u) /\ AwayIsShown(v, u)
    BY <2>1 DEF OnlineInv, RightOrComing
  <2>3. \A h \in Host : DOMAIN published[h] = {}
    BY <2>1
  <2>4. ~Awaited(u)
    BY <2>1, <2>3 DEF Awaited, Published, Queued
  <2>5. DOMAIN lines[v] = {}
    BY <2>1
  <2>6. Synced(v) /\ ~Listed(v, u)
    BY <2>1, <2>5 DEF Synced, Ends, Listed
  <2> QED
    BY <2>1, <2>2, <2>4, <2>6 DEF InIsShown, AwayIsShown
<1> QED
  BY <1>1, OnlineInvariance, PTL

===============================================================================
