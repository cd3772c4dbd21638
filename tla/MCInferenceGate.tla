-------------------------- MODULE MCInferenceGate ---------------------------
(* InferenceGate on small instances. *)
EXTENDS InferenceGate, TLC

Symmetry == Permutations(Call)
=============================================================================
