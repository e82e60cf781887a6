--------------------------- MODULE MCNetworkClient ---------------------------
(***************************************************************************)
(* Small instances of NetworkClient.                                       *)
(***************************************************************************)
EXTENDS NetworkClient, TLC

CONSTANTS r1, r2, m1, m2, ana, bob, desktop

OneRoom == {r1}
TwoRooms == {r1, r2}
OneMessage == {m1}
TwoMessages == {m1, m2}
TwoUsers == {ana, bob}
OneClient == {desktop}

\* Messages are interchangeable, and so are rooms.
NetworkClientSymmetry == Permutations(Room) \cup Permutations(Message)

==============================================================================
