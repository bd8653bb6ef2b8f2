------------------------------ MODULE MCClient ------------------------------
(* Model values for the runs of Client. *)
EXTENDS Client

CONSTANTS t1, t2

TwoCallers == {t1, t2}
=============================================================================
