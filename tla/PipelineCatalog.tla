---------------------------- MODULE PipelineCatalog ----------------------------
(***************************************************************************)
(* The validation pipelines that admins keep                               *)
(* (services/validation_pipeline_service.py, with its repository), the job *)
(* that seeds one (seed.py), and the snapshots that runs take of them.     *)
(*                                                                         *)
(* A handler reads its row, assigns, and commits; SQLAlchemy then updates  *)
(* the columns whose value changed.  Making a pipeline the default is a    *)
(* commit of its row followed by a read of all rows and a second commit    *)
(* that clears the others.  Names are left out: a name that is taken only  *)
(* refuses a call.                                                         *)
(***************************************************************************)
EXTENDS Naturals, FiniteSets

CONSTANTS
  Slots,                  \* calls that may be in progress at once
  Texts,                  \* pipeline definitions that parse
  SeedText,               \* the one that the seed job inserts
  MaxId, MaxVersion,      \* bounds on rows and edits
  MaxRuns,                \* bound on the runs that are remembered
  Sqlite,                 \* SQLite uses a deleted last id again and ignores
                          \* foreign keys, PostgreSQL does neither
  OneEditor,              \* does an update wait for the one before it?
  MayCrash                \* may the process stop?

ASSUME CatalogAssumption ==
  /\ SeedText \in Texts
  /\ MaxId \in Nat /\ MaxVersion \in Nat /\ MaxRuns \in Nat
  /\ {Sqlite, OneEditor, MayCrash} \subseteq BOOLEAN

VARIABLES
  rows,        \* the validation_pipelines rows, by id
  lastId,      \* the highest id ever given
  calls,       \* the calls in progress
  unsettled,   \* defaults whose call ended before it cleared the others
  runs         \* what runs recorded of their pipeline

vars == <<rows, lastId, calls, unsettled, runs>>

Row == [enabled : BOOLEAN, default : BOOLEAN, version : Nat, text : Texts]

\* `read`: the row as the call read it; `want`: as the call leaves it;
\* `others`: the defaults that clear_other_defaults found.
Call == [step : {"idle", "update", "mark", "seed", "list", "clear"},
         id : Nat, read : Row, want : Row, others : SUBSET Nat]

Snapshot == [id : Nat, version : Nat, text : Texts]

Ids == DOMAIN rows

\* A call that clears the other defaults has made its own row the default.
TypeOK ==
  /\ Ids \subseteq 1..MaxId
  /\ \A id \in Ids : rows[id] \in Row
  /\ lastId \in Nat
  /\ calls \in [Slots -> Call]
  /\ \A c \in Slots : calls[c].step \in {"list", "clear"} => calls[c].want.default
  /\ unsettled \subseteq Nat
  /\ runs \subseteq Snapshot

NewRow(text, enabled, default) ==
  [enabled |-> enabled, default |-> default, version |-> 1, text |-> text]

Idle ==
  LET row == NewRow(SeedText, TRUE, FALSE)
  IN [step |-> "idle", id |-> 0, read |-> row, want |-> row, others |-> {}]

Init ==
  /\ rows = [id \in {} |-> NewRow(id, TRUE, TRUE)]
  /\ lastId = 0
  /\ calls = [c \in Slots |-> Idle]
  /\ unsettled = {}
  /\ runs = {}

Defaults == {id \in Ids : rows[id].default}

At(c, step) == calls[c].step = step

Quiet == \A c \in Slots : At(c, "idle")

Begin(c, step, id, read, want) ==
  /\ At(c, "idle")
  /\ calls' = [calls EXCEPT ![c] = [step |-> step, id |-> id, read |-> read,
                                    want |-> want, others |-> {}]]

Goto(c, step) == calls' = [calls EXCEPT ![c].step = step]

End(c) == calls' = [calls EXCEPT ![c] = Idle]

\* Mistaken: the whole row is written back.
WrittenWhole(row, read, want) == want

\* The UPDATE of a row that was read and assigned to: the columns whose value
\* the call changed; the others are what they have become.
Written(row, read, want) ==
  [column \in DOMAIN row |-> IF want[column] = read[column] THEN row[column] ELSE want[column]]

-----------------------------------------------------------------------------
(* Rows come and go. *)

NextId ==
  IF Sqlite THEN CHOOSE id \in 1..(MaxId + 1) : id \notin Ids /\ \A d \in Ids : d < id
  ELSE lastId + 1

\* The INSERT gets its id from the database.
Insert(row) ==
  /\ NextId \in 1..MaxId
  /\ rows' = [id \in Ids \cup {NextId} |-> IF id = NextId THEN row ELSE rows[id]]
  /\ lastId' = IF NextId > lastId THEN NextId ELSE lastId

\* Mistaken: every new pipeline clears the others.
CreatePipelineClears(c) ==
  \E text \in Texts, enabled, default \in BOOLEAN :
    LET row == NewRow(text, enabled, default) IN
    /\ Insert(row)
    /\ Begin(c, "list", NextId, row, row)
    /\ unsettled' = unsettled \ {NextId}
    /\ UNCHANGED runs

\* create_pipeline's first commit; a default goes on to clear the others.
CreatePipeline(c) ==
  \E text \in Texts, enabled, default \in BOOLEAN :
    LET row == NewRow(text, enabled, default) IN
    /\ Insert(row)
    /\ IF default THEN Begin(c, "list", NextId, row, row) ELSE At(c, "idle") /\ calls' = calls
    /\ unsettled' = unsettled \ {NextId}
    /\ UNCHANGED runs

\* A pipeline that a run names cannot be deleted, if foreign keys are enforced.
DeletePipeline(c, id) ==
  /\ At(c, "idle")
  /\ Sqlite \/ \A r \in runs : r.id # id
  /\ rows' = [d \in Ids \ {id} |-> rows[d]]
  /\ unsettled' = unsettled \ {id}
  /\ UNCHANGED <<lastId, calls, runs>>

\* The seed job looks for a default ...
StartSeed(c) ==
  LET row == NewRow(SeedText, TRUE, Defaults = {}) IN
  /\ Begin(c, "seed", 0, row, row)
  /\ UNCHANGED <<rows, lastId, unsettled, runs>>

\* ... and inserts its pipeline, clearing nothing.
InsertSeed(c) ==
  /\ At(c, "seed")
  /\ Insert(calls[c].want)
  /\ End(c)
  /\ unsettled' = IF calls[c].want.default /\ Defaults # {}
                  THEN unsettled \cup {NextId} ELSE unsettled \ {NextId}
  /\ UNCHANGED runs

-----------------------------------------------------------------------------
(* Updates. *)

Editing(c) == At(c, "update")

\* Mistaken: a new text keeps the version.
AfterEditSameVersion(row, text, enabled) == [row EXCEPT !.text = text, !.enabled = enabled]

\* What a PUT with a definition assigns.
AfterEdit(row, text, enabled) ==
  [row EXCEPT !.text = text, !.enabled = enabled, !.version = @ + 1]

\* update_pipeline reads the row; the body has a definition, or only the flag.
StartUpdate(c, id) ==
  /\ OneEditor => \A d \in Slots : ~Editing(d)
  /\ \E text \in Texts, enabled \in BOOLEAN :
       \/ /\ rows[id].version < MaxVersion
          /\ Begin(c, "update", id, rows[id], AfterEdit(rows[id], text, enabled))
       \/ Begin(c, "update", id, rows[id], [rows[id] EXCEPT !.enabled = enabled])
  /\ UNCHANGED <<rows, lastId, unsettled, runs>>

WriteRow(c) ==
  rows' = [rows EXCEPT ![calls[c].id] = Written(@, calls[c].read, calls[c].want)]

CommitUpdate(c) ==
  /\ Editing(c) /\ calls[c].id \in Ids
  /\ WriteRow(c)
  /\ End(c)
  /\ UNCHANGED <<lastId, unsettled, runs>>

\* The row is gone: the commit or the refresh raises, the call answers 500.
RowIsGone(c) ==
  /\ calls[c].step \in {"update", "mark", "list"}
  /\ calls[c].id \notin Ids
  /\ End(c)
  /\ UNCHANGED <<rows, lastId, unsettled, runs>>

-----------------------------------------------------------------------------
(* Making a pipeline the default. *)

StartSetDefault(c, id) ==
  /\ rows[id].enabled
  /\ Begin(c, "mark", id, rows[id], [rows[id] EXCEPT !.default = TRUE])
  /\ UNCHANGED <<rows, lastId, unsettled, runs>>

\* The first commit: nothing is sent if the row read as the default already.
MarkDefault(c) ==
  /\ At(c, "mark") /\ calls[c].id \in Ids
  /\ WriteRow(c)
  /\ Goto(c, "list")
  /\ unsettled' = unsettled \ {calls[c].id}
  /\ UNCHANGED <<lastId, runs>>

\* Mistaken: only enabled rows are looked at.
ListEnabledOthers(c) ==
  /\ At(c, "list")
  /\ calls' = [calls EXCEPT ![c].step = "clear",
                            ![c].others = {id \in Defaults : rows[id].enabled} \ {calls[c].id}]
  /\ UNCHANGED <<rows, lastId, unsettled, runs>>

\* clear_other_defaults reads all rows ...
ListOthers(c) ==
  /\ At(c, "list")
  /\ calls' = [calls EXCEPT ![c].step = "clear", ![c].others = Defaults \ {calls[c].id}]
  /\ UNCHANGED <<rows, lastId, unsettled, runs>>

\* ... and clears in one commit those that were a default.  (An UPDATE of
\* several rows is not counted by every database driver.)
ClearOthers(c) ==
  /\ At(c, "clear")
  /\ calls[c].others \subseteq Ids \/ \E d, e \in calls[c].others : d # e
  /\ rows' = [id \in Ids |-> IF id \in calls[c].others THEN [rows[id] EXCEPT !.default = FALSE]
                             ELSE rows[id]]
  /\ End(c)
  /\ UNCHANGED <<lastId, unsettled, runs>>

\* A row to be cleared was deleted: the UPDATE matches too few rows, and the
\* commit raises with nothing cleared.
ClearRaises(c) ==
  /\ At(c, "clear")
  /\ ~(calls[c].others \subseteq Ids)
  /\ End(c)
  /\ unsettled' = unsettled \cup {calls[c].id}
  /\ UNCHANGED <<rows, lastId, runs>>

-----------------------------------------------------------------------------
\* resolve_for_run: the pipeline that is named, or a default; start_run stores
\* what it read of it.
StartRun ==
  /\ \E id \in Ids :
       /\ rows[id].enabled
       /\ Cardinality(runs) < MaxRuns
       /\ runs' = runs \cup {[id |-> id, version |-> rows[id].version, text |-> rows[id].text]}
  /\ UNCHANGED <<rows, lastId, calls, unsettled>>

\* The process stops, between the two commits of a call perhaps.
Crash ==
  /\ MayCrash
  /\ ~Quiet
  /\ calls' = [c \in Slots |-> Idle]
  /\ unsettled' = unsettled \cup {calls[c].id : c \in {d \in Slots : At(d, "list") \/ At(d, "clear")}}
  /\ UNCHANGED <<rows, lastId, runs>>

Handle(c) ==
  \/ CreatePipeline(c)
  \/ \E id \in Ids : DeletePipeline(c, id) \/ StartUpdate(c, id) \/ StartSetDefault(c, id)
  \/ StartSeed(c) \/ InsertSeed(c)
  \/ CommitUpdate(c) \/ RowIsGone(c)
  \/ MarkDefault(c) \/ ListOthers(c) \/ ClearOthers(c) \/ ClearRaises(c)

Next == (\E c \in Slots : Handle(c)) \/ StartRun \/ Crash

Spec == Init /\ [][Next]_vars

-----------------------------------------------------------------------------
(* Properties *)

\* "Only one pipeline may be marked default at a time"
\* (repositories/validation_pipelines.py): however calls overlap, when all have
\* ended there are never two, apart from those whose call was cut short between
\* its commits, and those a seed job added beside another.
AtMostOneDefault ==
  Quiet => \A d, e \in Defaults \ unsettled : d = e

\* The version a run recorded says which definition it ran
\* (models/validation_pipeline.py: "Bumped on every PUT").
VersionIdentifiesDefinition ==
  \A r \in runs :
    r.id \in Ids /\ rows[r.id].version = r.version => rows[r.id].text = r.text

\* What one admin edited is not undone by others who change the default or the
\* flag at the same time: a row's version never goes back.
EditsAreNotUndone ==
  [][\A id \in Ids \cap DOMAIN rows' : rows'[id].version >= rows[id].version]_rows
=============================================================================
