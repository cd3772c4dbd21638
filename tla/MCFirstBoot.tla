----------------------------- MODULE MCFirstBoot -----------------------------
(* FirstBoot on small instances. *)
EXTENDS FirstBoot

\* The first run may be given any answers, a later one is a rerun with a key.
MCAsked == [n \in 1..MaxRuns |-> IF n = 1 THEN Answers ELSE {[Plain EXCEPT !.key = "good"]}]
=============================================================================
