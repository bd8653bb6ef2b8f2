--------------------------- MODULE MCClientSession ---------------------------
(* Model values for the run of ClientSession. *)
EXTENDS ClientSession

CONSTANTS c1, s1, s2

OneRecv == {c1}
TwoSend == {s1, s2}
=============================================================================
