------------------------------ MODULE MCRelay ------------------------------
(* An instance of Relay for TLC: one user logs in once, another twice. *)
EXTENDS Relay

CONSTANTS a, b1, b2, alice, bob

MCUserOf == [l \in Logins |-> IF l = a THEN alice ELSE bob]
=============================================================================
