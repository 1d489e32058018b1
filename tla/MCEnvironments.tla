--------------------------- MODULE MCEnvironments ---------------------------
(***************************************************************************)
(* Two callers of each kind for TLC; which of them may overlap is for the  *)
(* configurations to say.                                                  *)
(***************************************************************************)
EXTENDS Environments, TLC

CONSTANTS c1, c2, t1, t2

Callers == Permutations({c1, c2}) \cup Permutations({t1, t2})
=============================================================================
