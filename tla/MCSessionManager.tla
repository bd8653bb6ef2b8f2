-------------------------- MODULE MCSessionManager --------------------------
(* Model values for the runs of SessionManager. *)
EXTENDS SessionManager, TLC

CONSTANTS c1, c2, b1, b2, a1, a2

TwoConns == {c1, c2}
OneBroadcast == {b1}
TwoBroadcasts == {b1, b2}
TwoAddrs == {a1, a2}
ManagerSymmetry ==
    Permutations(Conns) \cup Permutations(Broadcasts) \cup Permutations(Addrs)
=============================================================================
