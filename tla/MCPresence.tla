------------------------------ MODULE MCPresence ------------------------------
(***************************************************************************)
(* Small instances of Presence: two servers, so that a user can move from  *)
(* one to the other.                                                       *)
(***************************************************************************)
EXTENDS Presence, TLC

CONSTANTS c1, c2, s1, s2, ana, bob, eva

OneServer == {s1}
TwoServers == {s1, s2}
TwoChildren == {c1, c2}
OneUser == {ana}
TwoUsers == {ana, bob}
ThreeUsers == {ana, bob, eva}

\* Ana moves between the servers.
OfferedTo(u) == IF u = ana THEN Server ELSE {s1}

===============================================================================
