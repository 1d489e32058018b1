--------------------------- MODULE MCPipelineCatalog ---------------------------
(***************************************************************************)
(* Two admins at work for TLC.                                             *)
(***************************************************************************)
EXTENDS PipelineCatalog, TLC

CONSTANTS s1, s2, a, b

Symmetric == Permutations({s1, s2})
=============================================================================
