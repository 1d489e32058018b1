------------------------------- MODULE Settings -------------------------------
(***************************************************************************)
(* A configuration that is kept as the single row of a table: the          *)
(* validation policy (services/validation_policy_service.py) and the form  *)
(* schema (services/form_schema_service.py).  A save reads the first row   *)
(* and writes it, or inserts one; a reset deletes the first row.           *)
(***************************************************************************)
EXTENDS Naturals

CONSTANTS
  Columns,   \* the columns of the row
  Values,    \* what a column may hold
  Default,   \* its default, one of them
  Savers,    \* calls that may be under way at once
  MaxRows    \* how many rows are ever inserted

ASSUME SettingsAssumption == Default \in Values /\ MaxRows \in Nat

VARIABLES
  settings,  \* the rows by their ids: the value of each column
  nextRow,   \* the next id
  saving,    \* what each call has read and is about to write
  asked,     \* what the last call that was told of its success left each column at
  raced      \* has the row changed between a call's read and its commit?

settingsVars == <<settings, nextRow, saving, asked, raced>>

NoRow == 0
Nothing == [c \in {} |-> Default]
Defaults == [c \in Columns |-> Default]
Idle == [op |-> "idle", row |-> NoRow, body |-> Nothing, writes |-> Nothing]

SettingsInit ==
  /\ settings = [id \in {} |-> Defaults] /\ nextRow = 1
  /\ saving = [s \in Savers |-> Idle]
  /\ asked = Defaults
  /\ raced = FALSE

\* The id of the first row, as repo.get orders them.
FirstRow ==
  IF DOMAIN settings = {} THEN NoRow
  ELSE CHOOSE id \in DOMAIN settings : \A other \in DOMAIN settings : id <= other

\* get_effective, and get_active_sections.
Effective == IF FirstRow = NoRow THEN Defaults ELSE settings[FirstRow]

Overlay(columns, body) == [c \in Columns |-> IF c \in DOMAIN body THEN body[c] ELSE columns[c]]

\* A body leaves out the columns that stay.
Bodies == UNION {[C -> Values] : C \in (SUBSET Columns) \ {{}}}

\* A column that is set to what it was is not written.
NetChange(columns, body) ==
  LET changed == {c \in DOMAIN body : body[c] # columns[c]}
  IN [c \in changed |-> body[c]]

BeginSave(s, body) ==
  /\ saving[s].op = "idle"
  /\ saving' = [saving EXCEPT ![s] = [op |-> "save", row |-> FirstRow, body |-> body,
                                      writes |-> NetChange(Effective, body)]]
  /\ UNCHANGED <<settings, nextRow, asked, raced>>

\* There is nothing to reset without a row.
BeginReset(s) ==
  /\ saving[s].op = "idle" /\ FirstRow # NoRow
  /\ saving' = [saving EXCEPT ![s] = [op |-> "reset", row |-> FirstRow, body |-> Nothing,
                                      writes |-> Nothing]]
  /\ UNCHANGED <<settings, nextRow, asked, raced>>

Others(s) == \E o \in Savers \ {s} : saving[o].op # "idle"

Finish(s) ==
  /\ saving' = [saving EXCEPT ![s] = Idle]
  /\ raced' = (raced \/ Others(s))

\* Mistaken: the columns that the body leaves out go back to their defaults.
AfterSaveFromDefaults(columns, body) == Overlay(Defaults, body)

AfterSave(columns, body) == Overlay(columns, body)

InsertRow(s) ==
  /\ saving[s].op = "save" /\ saving[s].row = NoRow /\ nextRow <= MaxRows
  /\ settings' = [id \in DOMAIN settings \cup {nextRow} |->
       IF id = nextRow THEN AfterSave(Defaults, saving[s].writes) ELSE settings[id]]
  /\ nextRow' = nextRow + 1
  /\ asked' = Overlay(asked, saving[s].body)
  /\ Finish(s)

\* A row that is gone fails the call.
UpdateRow(s) ==
  /\ saving[s].op = "save" /\ saving[s].row # NoRow
  /\ IF saving[s].row \in DOMAIN settings
     THEN /\ settings' = [settings EXCEPT ![saving[s].row] = AfterSave(@, saving[s].writes)]
          /\ asked' = Overlay(asked, saving[s].body)
     ELSE UNCHANGED <<settings, asked>>
  /\ Finish(s)
  /\ UNCHANGED nextRow

DeleteRow(s) ==
  /\ saving[s].op = "reset"
  /\ settings' = [id \in DOMAIN settings \ {saving[s].row} |-> settings[id]]
  /\ asked' = Defaults
  /\ Finish(s)
  /\ UNCHANGED nextRow

SettingsNext ==
  \E s \in Savers :
    \/ \E body \in Bodies : BeginSave(s, body)
    \/ BeginReset(s)
    \/ InsertRow(s) \/ UpdateRow(s) \/ DeleteRow(s)

SettingsSpec == SettingsInit /\ [][SettingsNext]_settingsVars

\* The table holds one row at most, and what the approval gate or the form reads
\* is what the admins were told is saved, unless two calls overlapped (the
\* "single-row upsert" of validation_policy_service.py:56 and its twin in
\* form_schema_service.py:215).
EffectiveAsSaved ==
  ~raced => (\A id, other \in DOMAIN settings : id = other) /\ Effective = asked
=============================================================================
