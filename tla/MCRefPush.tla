------------------------------ MODULE MCRefPush ------------------------------
(* RefPush for TLC: all pods on one ref.                                     *)
EXTENDS RefPush

OneRef == [p \in Actors |-> CHOOSE r \in Refs : TRUE]

\* Re-opens and restarts at one time, edits and deletions at two.
Scenes == clock = 1 \/ (Undisturbed /\ \A p \in Actors : ~pod[p].opening)
==============================================================================
