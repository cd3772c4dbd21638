-------------------------- MODULE MCAttackerMemory ---------------------------
(* AttackerMemory on small instances. *)
EXTENDS AttackerMemory, TLC

CONSTANT p1

\* Two personas; every address falls back to the first.
MCFallback == [i \in Ip |-> p1]

Symmetry == Permutations(Session) \union Permutations(Ip)
=============================================================================
