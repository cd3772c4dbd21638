-------------------------- MODULE MCBridgeSessions --------------------------
(* BridgeSessions on small instances. *)
EXTENDS BridgeSessions, TLC

Symmetry == Permutations(Session) \union Permutations(Command)
=============================================================================
