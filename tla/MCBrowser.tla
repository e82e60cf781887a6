------------------------------- MODULE MCBrowser -------------------------------
(***************************************************************************)
(* A small instance of Browser: two rooms, so that the chat of one may be  *)
(* on the screen while messages of the other come in.                      *)
(***************************************************************************)
EXTENDS Browser, TLC

CONSTANTS r1, r2, m1, m2, ana, bob, b1

TwoRooms == {r1, r2}
TwoMessages == {m1, m2}
OneMessage == {m1}
TwoUsers == {ana, bob}
OneClient == {b1}

\* The coordinator of all rooms is not the one who logs in.
Bob(c) == bob
AnaHas(u) == u = ana

\* The page is at most two steps behind the gateway.
Prompt == \A c \in Client : Len(gateway[c].emits) <= 1 /\ Len(page[c].calls) <= 1

\* One event at most comes before the login, and what follows the third that the gateway
\* handled after it, copies included, is left out.
FewEvents ==
  \A c \in Client :
    /\ session[c] = "none" => clock <= 1
    /\ Len(gateway[c].story) <= 2

\* Rooms are interchangeable, and so are messages.
BrowserSymmetry == Permutations(Room) \cup Permutations(Message)

===============================================================================
