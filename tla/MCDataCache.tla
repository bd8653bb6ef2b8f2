----------------------------- MODULE MCDataCache -----------------------------
(* Model values and symmetry for the run of DataCache. *)
EXTENDS DataCache, TLC

CONSTANTS c1, c2, c3

ThreeCalls == {c1, c2, c3}
CallSymmetry == Permutations(Calls)
=============================================================================
