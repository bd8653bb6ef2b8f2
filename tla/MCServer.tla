------------------------------ MODULE MCServer ------------------------------
(* Model values for the runs of Server. *)
EXTENDS Server

CONSTANTS p1, p2

TwoApps == {p1, p2}
=============================================================================
