------------------------------ MODULE MCEventLog ------------------------------
(* Instances of EventLog for TLC. *)
EXTENDS EventLog, TLC

\* Observers are interchangeable.
Symmetry == Permutations(Writers)
=============================================================================
