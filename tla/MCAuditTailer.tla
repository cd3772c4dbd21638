--------------------------- MODULE MCAuditTailer ----------------------------
(* AuditTailer on small instances. *)
EXTENDS AuditTailer, TLC

\* The sessions are interchangeable in a safety run.
Symmetry == Permutations(Session)
=============================================================================
