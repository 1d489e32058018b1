------------------------- MODULE MCValidationRunner -------------------------
(***************************************************************************)
(* Small pipelines for TLC: an ingest step before, after and between steps *)
(* of other kinds, with each failure policy.                               *)
(***************************************************************************)
EXTENDS ValidationRunner

Ingest(p)   == [enabled |-> TRUE, ingest |-> TRUE, policy |-> p]
Builtin(p)  == [enabled |-> TRUE, ingest |-> FALSE, policy |-> p]
Disabled(p) == [enabled |-> FALSE, ingest |-> TRUE, policy |-> p]

MCPipelines ==
  { <<>>,
    << Ingest("block"), Ingest("warn") >>,
    << Builtin("block"), Ingest("warn"), Disabled("block") >>,
    << Ingest("ignore"), Builtin("warn") >> }

\* What the result of an ingest step may claim: the documented statuses, and the
\* live ones, which normalize_status takes as well.
ClaimedStatuses == {"passed", "warning", "failed", "error", "queued", "running"}
=============================================================================
