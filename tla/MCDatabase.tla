------------------------------ MODULE MCDatabase ------------------------------
(***************************************************************************)
(* Small instances of Database: two children, so that one request can      *)
(* arrive, wait or be killed while another is half done.                   *)
(***************************************************************************)
EXTENDS Database, TLC

CONSTANTS c1, c2, ana, bob, eva

OneChild == {c1}
TwoChildren == {c1, c2}
OneName == {ana}
TwoNames == {ana, bob}
ThreeNames == {ana, bob, eva}

\* Once a child was killed, one message is enough.
FewMessages == crashes > 0 => index.message <= 2

\* The children are interchangeable.
ChildSymmetry == Permutations(TwoChildren)

===============================================================================
