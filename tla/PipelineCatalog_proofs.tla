------------------------- MODULE PipelineCatalog_proofs -------------------------
(***************************************************************************)
(* For any number of admins, pipelines and edits: the types; that at rest  *)
(* at most one settled pipeline is the default; and, where one update      *)
(* waits for another, that versions only grow and tell definitions.        *)
(***************************************************************************)
EXTENDS PipelineCatalog, TLAPS

Settled == Defaults \ unsettled

\* Call c has made p the default and is still to clear q.
Covers(c, p, q) ==
  /\ calls[c].id = p
  /\ At(c, "list") \/ (At(c, "clear") /\ q \in calls[c].others)

\* Of any two settled defaults, one has a call that will clear the other.
RivalsAreCovered ==
  \A p, q \in Settled : p = q \/ \E c \in Slots : Covers(c, p, q) \/ Covers(c, q, p)

\* An update writes no default flag; a mark, and what follows it, sets it.
Fits(call) ==
  /\ call.step = "update" => call.want.default = call.read.default
  /\ call.step \in {"mark", "list", "clear"} => call.want.default

CallsFit == \A c \in Slots : Fits(calls[c])

IInv == TypeOK /\ CallsFit /\ RivalsAreCovered

-----------------------------------------------------------------------------
(* Facts about the operators. *)


\* An UPDATE leaves a row, and the flag of a call that did not change it.
LEMMA WrittenType ==
  ASSUME NEW row \in Row, NEW read \in Row, NEW want \in Row
  PROVE  /\ Written(row, read, want) \in Row
         /\ Written(row, read, want).default =
              IF want.default = read.default THEN row.default ELSE want.default
<1>1. DOMAIN row = {"enabled", "default", "version", "text"}
  BY DEF Row
<1>2. /\ row.enabled \in BOOLEAN /\ want.enabled \in BOOLEAN
      /\ row.default \in BOOLEAN /\ want.default \in BOOLEAN
      /\ row.version \in Nat /\ want.version \in Nat
      /\ row.text \in Texts /\ want.text \in Texts
  BY DEF Row
<1>3. Written(row, read, want) =
        [column \in {"enabled", "default", "version", "text"} |->
           IF want[column] = read[column] THEN row[column] ELSE want[column]]
  BY <1>1 DEF Written
<1>4. QED
  BY <1>2, <1>3 DEF Row

LEMMA NewRowType ==
  ASSUME NEW text \in Texts, NEW enabled \in BOOLEAN, NEW default \in BOOLEAN
  PROVE  /\ NewRow(text, enabled, default) \in Row
         /\ NewRow(text, enabled, default).default = default
  BY DEF NewRow, Row

LEMMA IdleType == Idle \in Call /\ Idle.step = "idle"
  BY CatalogAssumption, NewRowType DEF Idle, Call

LEMMA BeginType ==
  ASSUME TypeOK, NEW c \in Slots, NEW step \in {"update", "mark", "seed", "list"},
         NEW id \in Nat, NEW read \in Row, NEW want \in Row,
         Begin(c, step, id, read, want)
  PROVE  /\ calls' \in [Slots -> Call]
         /\ calls'[c].step = step /\ calls'[c].id = id
         /\ calls'[c].read = read /\ calls'[c].want = want
         /\ \A d \in Slots : d # c => calls'[d] = calls[d]
         /\ calls[c].step = "idle"
<1> DEFINE call == [step |-> step, id |-> id, read |-> read, want |-> want, others |-> {}]
<1>1. call \in Call /\ call.step = step /\ call.id = id /\ call.read = read /\ call.want = want
  BY DEF Call
<1>2. calls' = [calls EXCEPT ![c] = call] /\ calls[c].step = "idle"
  BY DEF Begin, At
<1> HIDE DEF call, Call
<1>3. QED
  BY <1>1, <1>2 DEF TypeOK

LEMMA EndType ==
  ASSUME TypeOK, NEW c \in Slots, End(c)
  PROVE  /\ calls' \in [Slots -> Call]
         /\ calls'[c].step = "idle"
         /\ \A d \in Slots : d # c => calls'[d] = calls[d]
<1> HIDE DEF Idle, Call
<1>1. QED
  BY IdleType DEF TypeOK, End

\* The rows after one of them was written.
LEMMA WriteRowType ==
  ASSUME TypeOK, NEW c \in Slots, calls[c].id \in Ids, WriteRow(c)
  PROVE  /\ DOMAIN rows' = Ids
         /\ \A id \in Ids : rows'[id] \in Row
         /\ \A id \in Ids : id # calls[c].id => rows'[id] = rows[id]
         /\ rows'[calls[c].id].default =
              IF calls[c].want.default = calls[c].read.default
              THEN rows[calls[c].id].default ELSE calls[c].want.default
<1>1. rows[calls[c].id] \in Row /\ calls[c].read \in Row /\ calls[c].want \in Row
  BY DEF TypeOK, Call
<1>2. rows' = [rows EXCEPT ![calls[c].id] =
                 Written(rows[calls[c].id], calls[c].read, calls[c].want)]
  BY DEF WriteRow
<1> HIDE DEF Row
<1>3. QED
  BY <1>1, <1>2, WrittenType DEF TypeOK, Ids

\* The rows after an insert.
LEMMA InsertType ==
  ASSUME TypeOK, NEW row \in Row, Insert(row)
  PROVE  /\ NextId \in Nat
         /\ DOMAIN rows' = Ids \cup {NextId} /\ DOMAIN rows' \subseteq 1..MaxId
         /\ \A id \in DOMAIN rows' : rows'[id] \in Row
         /\ rows'[NextId] = row
         /\ \A id \in Ids : id # NextId => rows'[id] = rows[id]
         /\ lastId' \in Nat
<1>1. NextId \in 1..MaxId /\ NextId \in Nat
  BY CatalogAssumption DEF Insert, CatalogAssumption
<1>2. rows' = [id \in Ids \cup {NextId} |-> IF id = NextId THEN row ELSE rows[id]]
  BY DEF Insert
<1>3. lastId' = IF NextId > lastId THEN NextId ELSE lastId
  BY DEF Insert
<1> HIDE DEF Row, NextId
<1>4. QED
  BY <1>1, <1>2, <1>3 DEF TypeOK, Ids

\* A step of call c keeps the rivals covered if each pair it leaves is covered
\* by c itself, or is an old pair that c did not cover.
LEMMA RivalsKept ==
  ASSUME RivalsAreCovered, NEW c \in Slots,
         \A d \in Slots : d # c => calls'[d] = calls[d],
         \A p, q \in Settled' :
           \/ p = q \/ Covers(c, p, q)' \/ Covers(c, q, p)'
           \/ p \in Settled /\ q \in Settled /\ ~Covers(c, p, q) /\ ~Covers(c, q, p)
  PROVE  RivalsAreCovered'
<1>1. SUFFICES ASSUME NEW p \in Settled', NEW q \in Settled', p # q
               PROVE  \E d \in Slots : Covers(d, p, q)' \/ Covers(d, q, p)'
  BY DEF RivalsAreCovered
<1>2. CASE Covers(c, p, q)' \/ Covers(c, q, p)'
  BY <1>2
<1>3. CASE p \in Settled /\ q \in Settled /\ ~Covers(c, p, q) /\ ~Covers(c, q, p)
  <2>1. PICK d \in Slots : Covers(d, p, q) \/ Covers(d, q, p)
    BY <1>1, <1>3 DEF RivalsAreCovered
  <2>2. d # c
    BY <1>3, <2>1
  <2>3. calls'[d] = calls[d]
    BY <2>2
  <2>4. Covers(d, p, q)' \/ Covers(d, q, p)'
    BY <2>1, <2>3 DEF Covers, At
  <2>5. QED
    BY <2>4
<1>4. QED
  BY <1>1, <1>2, <1>3

\* A step of call c keeps the types and the calls' flags, by the parts it changes.
LEMMA FitsKept ==
  ASSUME CallsFit, NEW c \in Slots,
         calls' \in [Slots -> Call], Fits(calls'[c]),
         \A d \in Slots : d # c => calls'[d] = calls[d],
         Ids' \subseteq 1..MaxId, \A id \in Ids' : rows'[id] \in Row,
         lastId' \in Nat, unsettled' \subseteq Nat, runs' \subseteq Snapshot
  PROVE  TypeOK' /\ CallsFit'
<1>1. \A d \in Slots : Fits(calls'[d])
  BY DEF CallsFit
<1>2. CallsFit'
  BY <1>1 DEF CallsFit, Fits
<1>3. \A d \in Slots : calls'[d].step \in {"list", "clear"} => calls'[d].want.default
  BY <1>1 DEF Fits
<1> HIDE DEF Row, Call, Snapshot, Ids
<1>4. TypeOK'
  BY <1>3 DEF TypeOK
<1>5. QED
  BY <1>2, <1>4

-----------------------------------------------------------------------------
(* Every action keeps the invariant. *)

LEMMA KeepInsertDefault ==
  ASSUME IInv, NEW c \in Slots, NEW row \in Row, row.default, Insert(row),
         Begin(c, "list", NextId, row, row), unsettled' = unsettled \ {NextId},
         UNCHANGED runs
  PROVE  IInv'
<1> USE DEF IInv
<1>1. /\ calls' \in [Slots -> Call]
      /\ calls'[c].step = "list" /\ calls'[c].id = NextId /\ calls'[c].want = row
      /\ \A d \in Slots : d # c => calls'[d] = calls[d]
      /\ calls[c].step = "idle"
  BY InsertType, BeginType
<1>2. Fits(calls'[c])
  BY <1>1 DEF Fits
<1>3. TypeOK' /\ CallsFit'
  BY <1>1, <1>2, InsertType, FitsKept DEF TypeOK, Ids
<1>4. \A p, q \in Settled' :
        p = q \/ Covers(c, p, q)' \/ Covers(c, q, p)'
        \/ (p \in Settled /\ q \in Settled /\ ~Covers(c, p, q) /\ ~Covers(c, q, p))
  <2>1. \A p \in Settled' : p = NextId \/ p \in Settled
    BY InsertType DEF Settled, Defaults, Ids
  <2>2. QED
    BY <1>1, <2>1 DEF Covers, At
<1>5. RivalsAreCovered'
  BY <1>1, <1>4, RivalsKept
<1>6. QED
  BY <1>3, <1>5

\* A new row that is not a default, or one that is but unsettled or alone.
LEMMA KeepInsertPlain ==
  ASSUME IInv, NEW c \in Slots, NEW row \in Row, Insert(row),
         calls' \in [Slots -> Call], calls'[c].step = "idle",
         calls[c].step \in {"idle", "seed"},
         \A d \in Slots : d # c => calls'[d] = calls[d],
         unsettled' = IF row.default /\ Defaults # {}
                      THEN unsettled \cup {NextId} ELSE unsettled \ {NextId},
         UNCHANGED runs
  PROVE  IInv'
<1> USE DEF IInv
<1>1. Fits(calls'[c])
  BY DEF Fits
<1>2. unsettled' \subseteq Nat
  BY InsertType DEF TypeOK
<1>3. TypeOK' /\ CallsFit'
  BY <1>1, <1>2, InsertType, FitsKept DEF TypeOK, Ids
<1>4. \A p, q \in Settled' : p = q \/ (p \in Settled /\ q \in Settled)
  <2>1. \A p \in Settled' : p \in Settled \/ (p = NextId /\ Defaults = {})
    BY InsertType DEF Settled, Defaults, Ids
  <2>2. QED
    BY <2>1 DEF Settled
<1>5. \A p, q : ~Covers(c, p, q)
  BY DEF Covers, At
<1>6. RivalsAreCovered'
  BY <1>4, <1>5, RivalsKept
<1>7. QED
  BY <1>3, <1>6

LEMMA KeepCreatePipeline ==
  ASSUME IInv, NEW c \in Slots, CreatePipeline(c)
  PROVE  IInv'
<1>1. PICK text \in Texts, enabled \in BOOLEAN, default \in BOOLEAN :
        LET row == NewRow(text, enabled, default) IN
        /\ Insert(row)
        /\ IF default THEN Begin(c, "list", NextId, row, row)
           ELSE At(c, "idle") /\ calls' = calls
        /\ unsettled' = unsettled \ {NextId}
        /\ UNCHANGED runs
  BY DEF CreatePipeline
<1> DEFINE row == NewRow(text, enabled, default)
<1>2. row \in Row /\ row.default = default
  BY NewRowType
<1>3. /\ Insert(row) /\ unsettled' = unsettled \ {NextId} /\ UNCHANGED runs
      /\ IF default THEN Begin(c, "list", NextId, row, row)
         ELSE At(c, "idle") /\ calls' = calls
  BY <1>1
<1> HIDE DEF row
<1>4. CASE default
  BY <1>2, <1>3, <1>4, KeepInsertDefault
<1>5. CASE ~default
  BY <1>2, <1>3, <1>5, KeepInsertPlain DEF At, IInv, TypeOK
<1>6. QED
  BY <1>4, <1>5

LEMMA KeepInsertSeed ==
  ASSUME IInv, NEW c \in Slots, InsertSeed(c)
  PROVE  IInv'
<1>1. calls[c].want \in Row
  BY DEF IInv, TypeOK, Call
<1>2. calls' \in [Slots -> Call] /\ calls'[c].step = "idle"
      /\ \A d \in Slots : d # c => calls'[d] = calls[d]
  BY EndType DEF IInv, InsertSeed
<1> HIDE DEF Row
<1>3. QED
  BY <1>1, <1>2, KeepInsertPlain DEF InsertSeed, At

\* A call that begins, or ends without having marked anything, and writes no row.
LEMMA KeepQuietStep ==
  ASSUME IInv, NEW c \in Slots, UNCHANGED <<rows, lastId, unsettled, runs>>,
         calls' \in [Slots -> Call], Fits(calls'[c]),
         \A d \in Slots : d # c => calls'[d] = calls[d],
         \/ calls[c].step \notin {"list", "clear"}
         \/ calls[c].id \notin Ids
  PROVE  IInv'
<1>1. TypeOK' /\ CallsFit'
  BY FitsKept DEF IInv, TypeOK, Ids
<1>2. Settled' = Settled
  BY DEF Settled, Defaults, Ids
<1>3. \A p, q \in Settled : ~Covers(c, p, q)
  BY DEF Covers, At, Settled, Defaults
<1>4. RivalsAreCovered'
  BY <1>2, <1>3, RivalsKept DEF IInv
<1>5. QED
  BY <1>1, <1>4 DEF IInv

LEMMA KeepStartSeed ==
  ASSUME IInv, NEW c \in Slots, StartSeed(c)
  PROVE  IInv'
<1> DEFINE row == NewRow(SeedText, TRUE, Defaults = {})
<1>1. row \in Row
  BY CatalogAssumption, NewRowType
<1>2. Begin(c, "seed", 0, row, row) /\ UNCHANGED <<rows, lastId, unsettled, runs>>
  BY DEF StartSeed
<1> HIDE DEF row
<1>3. QED
  BY <1>1, <1>2, BeginType, KeepQuietStep DEF Fits, IInv

\* What calls assign to a row.
LEMMA AssignType ==
  ASSUME NEW row \in Row, NEW text \in Texts, NEW enabled \in BOOLEAN
  PROVE  /\ AfterEdit(row, text, enabled) \in Row
         /\ AfterEdit(row, text, enabled).default = row.default
         /\ [row EXCEPT !.enabled = enabled] \in Row
         /\ [row EXCEPT !.enabled = enabled].default = row.default
         /\ [row EXCEPT !.default = TRUE] \in Row
         /\ [row EXCEPT !.default = TRUE].default = TRUE
<1>1. AfterEdit(row, text, enabled) \in Row
  <2>1. row.version \in Nat /\ row.version + 1 \in Nat
    BY DEF Row
  <2>2. PICK version \in Nat : version = row.version + 1
    BY <2>1
  <2>3. [row EXCEPT !.text = text, !.enabled = enabled, !.version = version] \in Row
    BY DEF Row
  <2>4. QED
    BY <2>2, <2>3 DEF AfterEdit
<1>2. AfterEdit(row, text, enabled).default = row.default
  BY DEF AfterEdit, Row
<1>3. [row EXCEPT !.enabled = enabled] \in Row
  BY DEF Row
<1>4. [row EXCEPT !.enabled = enabled].default = row.default
  BY DEF Row
<1>5. [row EXCEPT !.default = TRUE] \in Row
  BY DEF Row
<1>6. [row EXCEPT !.default = TRUE].default = TRUE
  <2>1. "default" \in DOMAIN row
    BY DEF Row
  <2>2. QED
    BY <2>1, Zenon
<1>7. QED
  BY <1>1, <1>2, <1>3, <1>4, <1>5, <1>6

LEMMA KeepStartUpdate ==
  ASSUME IInv, NEW c \in Slots, NEW id \in Ids, StartUpdate(c, id)
  PROVE  IInv'
<1>1. PICK text \in Texts, enabled \in BOOLEAN :
        \/ Begin(c, "update", id, rows[id], AfterEdit(rows[id], text, enabled))
        \/ Begin(c, "update", id, rows[id], [rows[id] EXCEPT !.enabled = enabled])
  BY DEF StartUpdate
<1>2. rows[id] \in Row /\ id \in Nat
  BY CatalogAssumption DEF IInv, TypeOK
<1>3. PICK want \in Row :
        want.default = rows[id].default /\ Begin(c, "update", id, rows[id], want)
  BY <1>1, <1>2, AssignType
<1>4. UNCHANGED <<rows, lastId, unsettled, runs>>
  BY DEF StartUpdate
<1> HIDE DEF Row
<1>5. QED
  BY <1>2, <1>3, <1>4, BeginType, KeepQuietStep DEF Fits, IInv

LEMMA KeepStartSetDefault ==
  ASSUME IInv, NEW c \in Slots, NEW id \in Ids, StartSetDefault(c, id)
  PROVE  IInv'
<1>1. rows[id] \in Row /\ id \in Nat
  BY CatalogAssumption DEF IInv, TypeOK
<1>2. /\ [rows[id] EXCEPT !.default = TRUE] \in Row
      /\ [rows[id] EXCEPT !.default = TRUE].default = TRUE
  BY <1>1, CatalogAssumption, AssignType
<1>3. PICK want \in Row : want.default = TRUE /\ Begin(c, "mark", id, rows[id], want)
  BY <1>2 DEF StartSetDefault
<1>4. UNCHANGED <<rows, lastId, unsettled, runs>>
  BY DEF StartSetDefault
<1> HIDE DEF Row
<1>5. QED
  BY <1>1, <1>3, <1>4, BeginType, KeepQuietStep DEF Fits, IInv

LEMMA KeepRowIsGone ==
  ASSUME IInv, NEW c \in Slots, RowIsGone(c)
  PROVE  IInv'
  BY EndType, KeepQuietStep DEF RowIsGone, Fits, IInv

\* The row is written without its default flag.
LEMMA KeepCommitUpdate ==
  ASSUME IInv, NEW c \in Slots, CommitUpdate(c)
  PROVE  IInv'
<1>1. /\ calls' \in [Slots -> Call] /\ calls'[c].step = "idle"
      /\ \A d \in Slots : d # c => calls'[d] = calls[d]
  BY EndType DEF CommitUpdate, IInv
<1>2. calls[c].step = "update" /\ calls[c].want.default = calls[c].read.default
  BY DEF CommitUpdate, Editing, At, IInv, CallsFit, Fits
<1>3. /\ DOMAIN rows' = Ids /\ \A id \in Ids : rows'[id] \in Row
      /\ \A id \in Ids : rows'[id].default = rows[id].default
  <2> HIDE DEF Row
  <2>1. QED
    BY <1>2, WriteRowType DEF CommitUpdate, IInv
<1>4. TypeOK' /\ CallsFit'
  BY <1>1, <1>3, FitsKept DEF IInv, TypeOK, CommitUpdate, Ids, Fits
<1>5. Settled' = Settled
  BY <1>3 DEF Settled, Defaults, Ids, CommitUpdate
<1>6. \A p, q : ~Covers(c, p, q)
  BY <1>2 DEF Covers, At
<1>7. RivalsAreCovered'
  BY <1>1, <1>5, <1>6, RivalsKept DEF IInv
<1>8. QED
  BY <1>4, <1>7 DEF IInv

\* The marked row and every other are now rivals that this call covers.
LEMMA KeepMarkDefault ==
  ASSUME IInv, NEW c \in Slots, MarkDefault(c)
  PROVE  IInv'
<1> DEFINE id == calls[c].id
<1>1. calls[c] \in Call /\ calls[c].step = "mark" /\ calls[c].want.default
  BY DEF MarkDefault, At, IInv, TypeOK, CallsFit, Fits
<1>2. calls' = [calls EXCEPT ![c] = [calls[c] EXCEPT !.step = "list"]]
  BY DEF MarkDefault, Goto
<1>3. /\ [calls[c] EXCEPT !.step = "list"] \in Call
      /\ calls'[c].step = "list" /\ calls'[c].id = id
      /\ calls'[c].want = calls[c].want
  BY <1>1, <1>2 DEF Call, IInv, TypeOK
<1>4. /\ calls' \in [Slots -> Call]
      /\ \A d \in Slots : d # c => calls'[d] = calls[d]
  <2> HIDE DEF Call
  <2>1. QED
    BY <1>2, <1>3 DEF IInv, TypeOK
<1>5. /\ DOMAIN rows' = Ids /\ \A d \in Ids : rows'[d] \in Row
      /\ \A d \in Ids : d # id => rows'[d] = rows[d]
  <2> HIDE DEF Row
  <2>1. QED
    BY WriteRowType DEF MarkDefault, IInv
<1>6. TypeOK' /\ CallsFit'
  BY <1>1, <1>3, <1>4, <1>5, FitsKept DEF IInv, TypeOK, MarkDefault, Ids, Fits
<1>7. \A p \in Settled' : p = id \/ p \in Settled
  BY <1>5 DEF Settled, Defaults, Ids, MarkDefault
<1>8. \A p, q : p = id => Covers(c, p, q)'
  BY <1>3 DEF Covers, At
<1>9. \A p, q : ~Covers(c, p, q)
  BY <1>1 DEF Covers, At
<1> HIDE DEF id
<1>10. \A p, q \in Settled' :
         \/ p = q \/ Covers(c, p, q)' \/ Covers(c, q, p)'
         \/ p \in Settled /\ q \in Settled /\ ~Covers(c, p, q) /\ ~Covers(c, q, p)
  <2>1. TAKE p, q \in Settled'
  <2>2. CASE p = id
    BY <1>8, <2>2
  <2>3. CASE q = id
    BY <1>8, <2>3
  <2>4. CASE p # id /\ q # id
    BY <1>7, <1>9, <2>4
  <2>5. QED
    BY <2>2, <2>3, <2>4
<1>11. RivalsAreCovered'
  BY <1>4, <1>10, RivalsKept DEF IInv
<1>12. QED
  BY <1>6, <1>11 DEF IInv

\* What the call has listed is what it has still to cover.
LEMMA KeepListOthers ==
  ASSUME IInv, NEW c \in Slots, ListOthers(c)
  PROVE  IInv'
<1> DEFINE id == calls[c].id
           call == [calls[c] EXCEPT !.step = "clear", !.others = Defaults \ {id}]
<1>1. calls[c] \in Call /\ calls[c].step = "list" /\ calls[c].want.default
  BY DEF ListOthers, At, IInv, TypeOK
<1>2. calls' = [calls EXCEPT ![c] = call]
  BY DEF ListOthers
<1>3. Defaults \subseteq Nat
  <2>1. Ids \subseteq 1..MaxId
    BY DEF IInv, TypeOK
  <2>2. Defaults \subseteq Ids
    BY DEF Defaults
  <2>3. QED
    BY <2>1, <2>2, CatalogAssumption
<1>4. /\ call \in Call /\ call.step = "clear" /\ call.id = id
      /\ call.others = Defaults \ {id} /\ call.want = calls[c].want
  BY <1>1, <1>3 DEF Call
<1> HIDE DEF call, Call
<1>5. /\ calls' \in [Slots -> Call] /\ calls'[c] = call
      /\ \A d \in Slots : d # c => calls'[d] = calls[d]
  BY <1>2, <1>4 DEF IInv, TypeOK
<1>6. Fits(calls'[c])
  BY <1>1, <1>4, <1>5 DEF Fits
<1>7. TypeOK' /\ CallsFit'
  BY <1>5, <1>6, FitsKept DEF IInv, TypeOK, ListOthers, Ids
<1>8. Settled' = Settled /\ Settled \subseteq Defaults
  BY DEF Settled, Defaults, Ids, ListOthers
<1>9. \A p, q \in Settled : p = id /\ q # id => Covers(c, p, q)'
  BY <1>4, <1>5, <1>8 DEF Covers, At
<1>10. \A p, q : Covers(c, p, q) => p = id
  BY DEF Covers
<1> HIDE DEF id
<1>11. \A p, q \in Settled' :
         \/ p = q \/ Covers(c, p, q)' \/ Covers(c, q, p)'
         \/ p \in Settled /\ q \in Settled /\ ~Covers(c, p, q) /\ ~Covers(c, q, p)
  <2>1. TAKE p, q \in Settled'
  <2>2. CASE p = id /\ q # id
    BY <1>8, <1>9, <2>2
  <2>3. CASE q = id /\ p # id
    BY <1>8, <1>9, <2>3
  <2>4. CASE p # id /\ q # id
    BY <1>8, <1>10, <2>4
  <2>5. QED
    BY <2>2, <2>3, <2>4
<1>12. RivalsAreCovered'
  BY <1>5, <1>11, RivalsKept DEF IInv
<1>13. QED
  BY <1>7, <1>12 DEF IInv

\* Those the call covered are no defaults any more.
LEMMA KeepClearOthers ==
  ASSUME IInv, NEW c \in Slots, ClearOthers(c)
  PROVE  IInv'
<1> DEFINE others == calls[c].others
<1>1. /\ calls' \in [Slots -> Call] /\ calls'[c].step = "idle"
      /\ \A d \in Slots : d # c => calls'[d] = calls[d]
  BY EndType DEF ClearOthers, IInv
<1>2. rows' = [id \in Ids |-> IF id \in others THEN [rows[id] EXCEPT !.default = FALSE]
                              ELSE rows[id]]
  BY DEF ClearOthers
<1>3. \A row \in Row : /\ [row EXCEPT !.default = FALSE] \in Row
                       /\ ~[row EXCEPT !.default = FALSE].default
  BY DEF Row
<1> HIDE DEF Row
<1>4. \A id \in Ids : rows[id] \in Row
  BY DEF IInv, TypeOK
<1>5. Ids' = Ids /\ \A id \in Ids : rows'[id] \in Row
  BY <1>2, <1>3, <1>4 DEF Ids
<1>6. TypeOK' /\ CallsFit'
  BY <1>1, <1>5, FitsKept DEF IInv, TypeOK, ClearOthers, Fits
<1>7. \A id \in Defaults' : id \in Defaults /\ id \notin others
  <2>1. TAKE id \in Defaults'
  <2>2. id \in Ids /\ rows'[id].default
    BY <1>5 DEF Defaults
  <2>3. id \notin others
    BY <1>2, <1>3, <1>4, <2>2
  <2>4. rows[id].default
    BY <1>2, <2>2, <2>3
  <2>5. QED
    BY <2>2, <2>3, <2>4 DEF Defaults
<1>8. \A p, q \in Settled' : p \in Settled /\ q \in Settled
  BY <1>7 DEF Settled, ClearOthers
<1>9. \A p, q : Covers(c, p, q) => q \in others
  BY DEF Covers, ClearOthers, At
<1>10. \A p \in Settled' : p \notin others
  BY <1>7 DEF Settled
<1>11. RivalsAreCovered'
  BY <1>1, <1>8, <1>9, <1>10, RivalsKept DEF IInv
<1>12. QED
  BY <1>6, <1>11 DEF IInv

\* The call's own pipeline is not settled: its call was cut short.
LEMMA KeepClearRaises ==
  ASSUME IInv, NEW c \in Slots, ClearRaises(c)
  PROVE  IInv'
<1>1. /\ calls' \in [Slots -> Call] /\ calls'[c].step = "idle"
      /\ \A d \in Slots : d # c => calls'[d] = calls[d]
  BY EndType DEF ClearRaises, IInv
<1>2. calls[c].id \in Nat
  BY DEF IInv, TypeOK, Call
<1>3. TypeOK' /\ CallsFit'
  BY <1>1, <1>2, FitsKept DEF IInv, TypeOK, ClearRaises, Ids, Fits
<1>4. Settled' = Settled \ {calls[c].id}
  BY DEF Settled, Defaults, Ids, ClearRaises
<1>5. \A p, q \in Settled' : ~Covers(c, p, q)
  BY <1>4 DEF Covers
<1>6. RivalsAreCovered'
  BY <1>1, <1>4, <1>5, RivalsKept DEF IInv
<1>7. QED
  BY <1>3, <1>6 DEF IInv

LEMMA KeepDeletePipeline ==
  ASSUME IInv, NEW c \in Slots, NEW id \in Ids, DeletePipeline(c, id)
  PROVE  IInv'
<1>1. rows' = [d \in Ids \ {id} |-> rows[d]]
  BY DEF DeletePipeline
<1>2. Ids' = Ids \ {id} /\ \A d \in Ids' : rows'[d] = rows[d]
  BY <1>1 DEF Ids
<1>3. TypeOK' /\ CallsFit'
  <2> HIDE DEF Row
  <2>1. /\ Ids' \subseteq 1..MaxId /\ \A d \in Ids' : rows'[d] \in Row
        /\ lastId' \in Nat /\ unsettled' \subseteq Nat /\ runs' \subseteq Snapshot
        /\ calls' = calls /\ calls \in [Slots -> Call]
    BY <1>2 DEF IInv, TypeOK, DeletePipeline
  <2>2. QED
    BY <2>1, FitsKept DEF IInv, CallsFit
<1>4. Settled' \subseteq Settled
  BY <1>2 DEF Settled, Defaults, DeletePipeline
<1>5. calls[c].step = "idle" /\ calls' = calls
  BY DEF DeletePipeline, At
<1>6. \A p, q : ~Covers(c, p, q)
  BY <1>5 DEF Covers, At
<1>7. RivalsAreCovered'
  BY <1>4, <1>5, <1>6, RivalsKept DEF IInv
<1>8. QED
  BY <1>3, <1>7 DEF IInv

LEMMA KeepStartRun == IInv /\ StartRun => IInv'
<1> SUFFICES ASSUME IInv, StartRun
             PROVE  IInv'
  OBVIOUS
<1>1. PICK id \in Ids :
        runs' = runs \cup {[id |-> id, version |-> rows[id].version, text |-> rows[id].text]}
  BY DEF StartRun
<1>2. id \in Nat /\ rows[id].version \in Nat /\ rows[id].text \in Texts
  <2>1. id \in Nat /\ rows[id] \in Row
    BY CatalogAssumption DEF IInv, TypeOK
  <2>2. QED
    BY <2>1 DEF Row
<1>3. runs' \subseteq Snapshot
  BY <1>1, <1>2 DEF IInv, TypeOK, Snapshot
<1>4. UNCHANGED <<rows, lastId, calls, unsettled>>
  BY DEF StartRun
<1> HIDE DEF Row, Call, Snapshot
<1>5. TypeOK'
  BY <1>3, <1>4 DEF IInv, TypeOK, Ids
<1>6. CallsFit' /\ RivalsAreCovered'
  BY <1>4 DEF IInv, CallsFit, RivalsAreCovered, Settled, Defaults, Ids, Covers, At
<1>7. QED
  BY <1>5, <1>6 DEF IInv

\* A stop leaves unsettled what every call in progress had marked.
LEMMA KeepCrash == IInv /\ Crash => IInv'
<1> SUFFICES ASSUME IInv, Crash
             PROVE  IInv'
  OBVIOUS
<1> DEFINE cut == {calls[c].id : c \in {d \in Slots : At(d, "list") \/ At(d, "clear")}}
<1>1. /\ calls' = [c \in Slots |-> Idle] /\ unsettled' = unsettled \cup cut
      /\ UNCHANGED <<rows, lastId, runs>>
  BY DEF Crash
<1>2. cut \subseteq Nat
  BY DEF IInv, TypeOK, Call
<1> HIDE DEF Idle, Row, Call, Snapshot
<1>3. /\ calls' \in [Slots -> Call]
      /\ \A c \in Slots : calls'[c].step = "idle"
  BY <1>1, IdleType
<1>4. TypeOK' /\ CallsFit'
  <2> HIDE DEF cut
  <2>1. QED
    BY <1>1, <1>2, <1>3 DEF IInv, TypeOK, CallsFit, Fits, Ids
<1>5. \A p, q \in Settled' : p = q
  <2>1. SUFFICES ASSUME NEW p \in Settled', NEW q \in Settled', p # q
                 PROVE  FALSE
    OBVIOUS
  <2>2. p \in Settled /\ q \in Settled /\ p \notin cut /\ q \notin cut
    BY <1>1 DEF Settled, Defaults, Ids
  <2>3. PICK c \in Slots : Covers(c, p, q) \/ Covers(c, q, p)
    BY <2>1, <2>2 DEF IInv, RivalsAreCovered
  <2>4. calls[c].id \in cut
    BY <2>3 DEF Covers
  <2>5. QED
    BY <2>2, <2>3, <2>4 DEF Covers
<1>6. RivalsAreCovered'
  BY <1>5 DEF RivalsAreCovered
<1>7. QED
  BY <1>4, <1>6 DEF IInv

-----------------------------------------------------------------------------
(* The theorems. *)

LEMMA InitInvariant == Init => IInv
<1> SUFFICES ASSUME Init
             PROVE  IInv
  OBVIOUS
<1>1. /\ Ids = {} /\ lastId = 0 /\ unsettled = {} /\ runs = {}
      /\ calls = [c \in Slots |-> Idle]
  BY DEF Init, Ids
<1> HIDE DEF Idle, Row, Call, Snapshot
<1>2. TypeOK /\ CallsFit
  BY <1>1, IdleType DEF TypeOK, CallsFit, Fits
<1>3. RivalsAreCovered
  BY <1>1 DEF RivalsAreCovered, Settled, Defaults
<1>4. QED
  BY <1>2, <1>3 DEF IInv

LEMMA StepInvariant == IInv /\ [Next]_vars => IInv'
<1> SUFFICES ASSUME IInv, [Next]_vars
             PROVE  IInv'
  OBVIOUS
<1>1. ASSUME NEW c \in Slots, Handle(c)
      PROVE  IInv'
  BY <1>1, KeepCreatePipeline, KeepDeletePipeline, KeepStartUpdate, KeepStartSetDefault,
     KeepStartSeed, KeepInsertSeed, KeepCommitUpdate, KeepRowIsGone, KeepMarkDefault,
     KeepListOthers, KeepClearOthers, KeepClearRaises
     DEF Handle
<1>2. CASE StartRun
  BY <1>2, KeepStartRun
<1>3. CASE Crash
  BY <1>3, KeepCrash
<1>4. CASE UNCHANGED vars
  <2> HIDE DEF Row, Call, Snapshot
  <2>1. TypeOK' /\ CallsFit'
    BY <1>4 DEF vars, IInv, TypeOK, CallsFit, Ids
  <2>2. RivalsAreCovered'
    BY <1>4 DEF vars, IInv, RivalsAreCovered, Settled, Defaults, Ids, Covers, At
  <2>3. QED
    BY <2>1, <2>2 DEF IInv
<1>5. QED
  BY <1>1, <1>2, <1>3, <1>4 DEF Next

\* At rest no call covers anything, so two settled defaults are one.
LEMMA InvariantMeansOneDefault == IInv => AtMostOneDefault
<1> SUFFICES ASSUME IInv, Quiet, NEW d \in Settled, NEW e \in Settled, d # e
             PROVE  FALSE
  BY DEF AtMostOneDefault, Settled
<1>1. PICK c \in Slots : Covers(c, d, e) \/ Covers(c, e, d)
  BY DEF IInv, RivalsAreCovered
<1>2. QED
  BY <1>1 DEF Quiet, Covers, At

\* The catalogue keeps its types (services/validation_pipeline_service.py), and a
\* call that clears the other defaults has made its own pipeline one.
THEOREM CatalogueTypeCorrect == Spec => []TypeOK
<1>1. IInv => TypeOK
  BY DEF IInv
<1>2. QED
  BY <1>1, InitInvariant, StepInvariant, PTL DEF Spec

\* However calls overlap, crash or meet deleted rows, at rest at most one
\* settled pipeline is the default (set_default, clear_other_defaults).
THEOREM CatalogueAtMostOneDefault == Spec => []AtMostOneDefault
<1>1. QED
  BY InitInvariant, StepInvariant, InvariantMeansOneDefault, PTL DEF Spec
-----------------------------------------------------------------------------
(* Versions.  Where one update waits for another, the version that an      *)
(* update is to write is still ahead of its row's when it commits; and     *)
(* where an id is not used again, the row is the one that was read.        *)

Same(a, b) == a.version = b.version /\ a.text = b.text

\* A mark changes neither version nor text, an update both or neither.
EditFits(call) ==
  /\ call.step = "mark" => Same(call.want, call.read)
  /\ call.step = "update" =>
       /\ call.read.version >= 1
       /\ Same(call.want, call.read) \/ call.want.version = call.read.version + 1
  /\ call.step = "seed" => call.want.version = 1

OneAtEdit == \A c, d \in Slots : Editing(c) /\ Editing(d) => c = d

NotBehind ==
  \A c \in Slots : Editing(c) /\ calls[c].id \in Ids => calls[c].want.version >= rows[calls[c].id].version

EditInv ==
  /\ IInv /\ OneAtEdit /\ NotBehind /\ \A c \in Slots : EditFits(calls[c])
  /\ \A id \in Ids : id <= lastId /\ rows[id].version >= 1

\* An update has its row in hand as it is.
InHand ==
  \A c \in Slots : Editing(c) =>
    calls[c].id <= lastId /\ (calls[c].id \in Ids => Same(rows[calls[c].id], calls[c].read))

\* A snapshot is of the row's version and text, or of an earlier version.
SnapshotsFit ==
  \A r \in runs :
    /\ r.id <= lastId
    /\ r.id \in Ids => \/ r.version < rows[r.id].version
                       \/ r.version = rows[r.id].version /\ r.text = rows[r.id].text

LEMMA RowFacts ==
  ASSUME TypeOK
  PROVE  /\ lastId \in Nat
         /\ \A id \in Ids : /\ id \in Nat /\ rows[id] \in Row
                            /\ rows[id].version \in Nat /\ rows[id].text \in Texts
         /\ \A c \in Slots : /\ calls[c] \in Call /\ calls[c].id \in Nat
                             /\ calls[c].read \in Row /\ calls[c].want \in Row
                             /\ calls[c].read.version \in Nat /\ calls[c].want.version \in Nat
         /\ \A r \in runs : r.id \in Nat /\ r.version \in Nat
<1>1. \A row \in Row : row.version \in Nat /\ row.text \in Texts
  BY DEF Row
<1>2. \A call \in Call : call.id \in Nat /\ call.read \in Row /\ call.want \in Row
  <2> HIDE DEF Row
  <2> QED BY DEF Call
<1>3. \A r \in Snapshot : r.id \in Nat /\ r.version \in Nat
  BY DEF Snapshot
<1>4. /\ lastId \in Nat /\ runs \subseteq Snapshot /\ \A id \in Ids : id \in Nat /\ rows[id] \in Row
      /\ \A c \in Slots : calls[c] \in Call
  BY CatalogAssumption DEF TypeOK
<1> HIDE DEF Row, Call, Snapshot
<1> QED BY <1>1, <1>2, <1>3, <1>4

\* The same of any rows that have their types.
LEMMA TypedVersions ==
  \A table : \A S \in SUBSET (1..MaxId) :
    (\A id \in S : table[id] \in Row) => \A id \in S : id \in Nat /\ table[id].version \in Nat
<1>1. \A row \in Row : row.version \in Nat
  BY DEF Row
<1>2. 1..MaxId \subseteq Nat
  BY CatalogAssumption DEF CatalogAssumption
<1> HIDE DEF Row
<1> QED BY <1>1, <1>2

\* The id of a new row is no row's; where ids are not used again, no row's ever.
LEMMA NextIdIsNew ==
  ASSUME EditInv, NextId \in Nat
  PROVE  NextId \notin Ids /\ (~Sqlite => NextId = lastId + 1)
<1>1. TypeOK /\ lastId \in Nat /\ Ids \subseteq 1..MaxId /\ MaxId \in Nat
  BY CatalogAssumption DEF EditInv, IInv, TypeOK, CatalogAssumption
<1>2. CASE Sqlite
  <2>1. MaxId + 1 \in 1..(MaxId + 1) /\ MaxId + 1 \notin Ids /\ \A d \in Ids : d < MaxId + 1
    BY <1>1
  <2>2. NextId = CHOOSE id \in 1..(MaxId + 1) : id \notin Ids /\ \A d \in Ids : d < id
    BY <1>2 DEF NextId
  <2> QED BY <1>2, <2>1, <2>2
<1>3. CASE ~Sqlite
  BY <1>1, <1>3 DEF NextId, EditInv
<1> QED BY <1>2, <1>3

\* What an UPDATE leaves of a row's version and text.
LEMMA WrittenVersion ==
  ASSUME NEW row \in Row, NEW read \in Row, NEW want \in Row
  PROVE  /\ Same(want, read) => Same(Written(row, read, want), row)
         /\ want.version # read.version => Written(row, read, want).version = want.version
         /\ want.version # read.version /\ Same(row, read) => Same(Written(row, read, want), want)
<1>1. DOMAIN row = {"enabled", "default", "version", "text"}
  BY DEF Row
<1>2. Written(row, read, want) =
        [column \in {"enabled", "default", "version", "text"} |->
           IF want[column] = read[column] THEN row[column] ELSE want[column]]
  BY <1>1 DEF Written
<1> QED BY <1>2 DEF Same

\* A step leaves the version and text of a row, unless it commits an update of
\* it; a row that is new has version 1.
LEMMA RowSteps ==
  ASSUME EditInv, [Next]_vars
  PROVE  /\ lastId' \in Nat /\ lastId' >= lastId
         /\ \A id \in Ids' :
              \/ id \in Ids /\ Same(rows'[id], rows[id])
              \/ id \in Ids /\ \E c \in Slots : CommitUpdate(c) /\ calls[c].id = id
              \/ /\ id \notin Ids /\ id <= lastId' /\ rows'[id].version = 1
                 /\ ~Sqlite => id > lastId
<1>0. TypeOK /\ lastId \in Nat /\ \A c \in Slots : EditFits(calls[c])
  BY RowFacts DEF EditInv, IInv
<1> DEFINE Effect ==
      /\ lastId' \in Nat /\ lastId' >= lastId
      /\ \A id \in Ids' :
           \/ id \in Ids /\ Same(rows'[id], rows[id])
           \/ id \in Ids /\ \E c \in Slots : CommitUpdate(c) /\ calls[c].id = id
           \/ /\ id \notin Ids /\ id <= lastId' /\ rows'[id].version = 1
              /\ ~Sqlite => id > lastId
<1>1. ASSUME NEW row \in Row, row.version = 1, Insert(row) PROVE Effect
  <2>1. /\ NextId \in Nat /\ Ids' = Ids \cup {NextId} /\ rows'[NextId] = row /\ lastId' \in Nat
        /\ \A id \in Ids : id # NextId => rows'[id] = rows[id]
    <3> HIDE DEF Row
    <3> QED BY <1>0, <1>1, InsertType DEF Ids
  <2>2. NextId \notin Ids /\ (~Sqlite => NextId = lastId + 1)
    BY <2>1, NextIdIsNew
  <2>3. lastId' >= lastId /\ NextId <= lastId'
    <3>1. lastId' = IF NextId > lastId THEN NextId ELSE lastId
      BY <1>1 DEF Insert
    <3> QED BY <1>0, <2>1, <3>1
  <2>4. ~Sqlite => NextId > lastId
    BY <1>0, <2>2
  <2> HIDE DEF NextId
  <2> QED BY <1>1, <2>1, <2>2, <2>3, <2>4 DEF Same
<1>2. ASSUME UNCHANGED <<rows, lastId>> PROVE Effect
  BY <1>0, <1>2 DEF Ids, Same
<1>3. ASSUME NEW c \in Slots, CreatePipeline(c) PROVE Effect
  <2>1. PICK text \in Texts, enabled \in BOOLEAN, default \in BOOLEAN :
          Insert(NewRow(text, enabled, default))
    BY <1>3 DEF CreatePipeline
  <2>2. NewRow(text, enabled, default).version = 1
    BY DEF NewRow
  <2> QED BY <1>1, <2>1, <2>2, NewRowType
<1>4. ASSUME NEW c \in Slots, InsertSeed(c) PROVE Effect
  BY <1>0, <1>1, <1>4, RowFacts DEF InsertSeed, At, EditFits
<1>5. ASSUME NEW c \in Slots, NEW gone \in Ids, DeletePipeline(c, gone) PROVE Effect
  <2>1. rows' = [d \in Ids \ {gone} |-> rows[d]] /\ lastId' = lastId
    BY <1>5 DEF DeletePipeline
  <2> QED BY <1>0, <2>1 DEF Ids, Same
<1>6. ASSUME NEW c \in Slots, CommitUpdate(c) \/ MarkDefault(c) PROVE Effect
  <2>1. calls[c].id \in Ids /\ WriteRow(c) /\ lastId' = lastId
    BY <1>6 DEF CommitUpdate, MarkDefault
  <2>2. /\ Ids' = Ids /\ \A id \in Ids : id # calls[c].id => rows'[id] = rows[id]
    BY <1>0, <2>1, WriteRowType DEF Ids
  <2>3. CASE CommitUpdate(c)
    BY <1>0, <2>1, <2>2, <2>3 DEF Same
  <2>4. CASE MarkDefault(c)
    <3>1. Same(calls[c].want, calls[c].read)
      BY <1>0, <2>4 DEF MarkDefault, At, EditFits
    <3>2. rows'[calls[c].id] = Written(rows[calls[c].id], calls[c].read, calls[c].want)
      BY <2>1 DEF WriteRow, Ids
    <3>3. Same(rows'[calls[c].id], rows[calls[c].id])
      BY <1>0, <2>1, <3>1, <3>2, RowFacts, WrittenVersion
    <3> QED BY <1>0, <2>1, <2>2, <3>3 DEF Same
  <2> QED BY <1>6, <2>3, <2>4
<1>7. ASSUME NEW c \in Slots, ClearOthers(c) PROVE Effect
  <2>1. /\ lastId' = lastId
        /\ rows' = [id \in Ids |-> IF id \in calls[c].others
                                   THEN [rows[id] EXCEPT !.default = FALSE] ELSE rows[id]]
    BY <1>7 DEF ClearOthers
  <2>2. \A row \in Row : Same([row EXCEPT !.default = FALSE], row)
    BY DEF Row, Same
  <2>3. \A id \in Ids : rows[id] \in Row
    BY <1>0, RowFacts
  <2> HIDE DEF Row
  <2>4. Ids' = Ids /\ \A id \in Ids : Same(rows'[id], rows[id])
    BY <2>1, <2>2, <2>3 DEF Ids, Same
  <2> QED BY <1>0, <2>1, <2>4
<1>8. \/ UNCHANGED <<rows, lastId>>
      \/ \E c \in Slots : \/ CreatePipeline(c) \/ InsertSeed(c) \/ CommitUpdate(c) \/ MarkDefault(c)
                          \/ ClearOthers(c) \/ \E gone \in Ids : DeletePipeline(c, gone)
  BY DEF Next, Handle, StartUpdate, StartSetDefault, StartSeed, RowIsGone, ListOthers, ClearRaises,
     StartRun, Crash, vars
<1> HIDE DEF Effect
<1>9. Effect
  BY <1>2, <1>3, <1>4, <1>5, <1>6, <1>7, <1>8
<1> QED BY <1>9 DEF Effect

\* A call stays what it is, ends or goes past its first commit, or begins.
LEMMA CallSteps ==
  ASSUME EditInv, [Next]_vars, NEW c \in Slots
  PROVE  \/ calls'[c] = calls[c]
         \/ calls'[c].step \notin {"update", "mark", "seed"}
         \/ /\ calls'[c].step = "update" /\ UNCHANGED <<rows, lastId>>
            /\ \E id \in Ids : StartUpdate(c, id)
            /\ calls'[c].id \in Ids /\ calls'[c].read = rows[calls'[c].id]
            /\ EditFits(calls'[c])
            /\ \A d \in Slots : d # c => calls'[d] = calls[d]
         \/ calls'[c].step \in {"mark", "seed"} /\ EditFits(calls'[c])
<1>0. TypeOK /\ calls \in [Slots -> Call]
  BY DEF EditInv, IInv, TypeOK
<1> DEFINE Effect ==
      \/ calls'[c] = calls[c]
      \/ calls'[c].step \notin {"update", "mark", "seed"}
      \/ /\ calls'[c].step = "update" /\ UNCHANGED <<rows, lastId>>
         /\ \E id \in Ids : StartUpdate(c, id)
         /\ calls'[c].id \in Ids /\ calls'[c].read = rows[calls'[c].id]
         /\ EditFits(calls'[c])
         /\ \A d \in Slots : d # c => calls'[d] = calls[d]
      \/ calls'[c].step \in {"mark", "seed"} /\ EditFits(calls'[c])
<1>1. ASSUME NEW d \in Slots, d # c, Handle(d) PROVE Effect
  <2> HIDE DEF Call, Row, Idle
  <2>1. \E call : calls' = [calls EXCEPT ![d] = call]
    BY <1>0, <1>1 DEF Handle, CreatePipeline, DeletePipeline, StartUpdate, StartSetDefault, StartSeed,
       InsertSeed, CommitUpdate, RowIsGone, MarkDefault, ListOthers, ClearOthers, ClearRaises,
       Begin, End, Goto
  <2> QED BY <1>0, <1>1, <2>1
<1>2. ASSUME NEW id \in Ids, StartUpdate(c, id) PROVE Effect
  <2>1. PICK text \in Texts, enabled \in BOOLEAN :
          \/ Begin(c, "update", id, rows[id], AfterEdit(rows[id], text, enabled))
          \/ Begin(c, "update", id, rows[id], [rows[id] EXCEPT !.enabled = enabled])
    BY <1>2 DEF StartUpdate
  <2>2. rows[id] \in Row /\ id \in Nat /\ rows[id].version >= 1
    BY <1>0, RowFacts DEF EditInv
  <2>3. /\ AfterEdit(rows[id], text, enabled).version = rows[id].version + 1
        /\ Same([rows[id] EXCEPT !.enabled = enabled], rows[id])
    BY <2>2 DEF AfterEdit, Row, Same
  <2>4. PICK want \in Row :
          /\ Same(want, rows[id]) \/ want.version = rows[id].version + 1
          /\ Begin(c, "update", id, rows[id], want)
    <3> HIDE DEF Row
    <3> QED BY <2>1, <2>2, <2>3, AssignType
  <2>5. UNCHANGED <<rows, lastId>>
    BY <1>2 DEF StartUpdate
  <2> HIDE DEF Row
  <2> QED BY <1>0, <1>2, <2>2, <2>4, <2>5, BeginType DEF EditFits
<1>3. ASSUME NEW id \in Ids, StartSetDefault(c, id) PROVE Effect
  <2>1. rows[id] \in Row /\ id \in Nat
    BY <1>0, RowFacts
  <2>2. Same([rows[id] EXCEPT !.default = TRUE], rows[id]) /\ [rows[id] EXCEPT !.default = TRUE] \in Row
    BY <2>1 DEF Row, Same
  <2>3. PICK want \in Row : Same(want, rows[id]) /\ Begin(c, "mark", id, rows[id], want)
    BY <1>3, <2>2 DEF StartSetDefault
  <2> HIDE DEF Row
  <2> QED BY <1>0, <2>1, <2>3, BeginType DEF EditFits
<1>4. ASSUME StartSeed(c) PROVE Effect
  <2>1. PICK want : want = NewRow(SeedText, TRUE, Defaults = {})
    OBVIOUS
  <2>2. want \in Row /\ want.version = 1
    <3>1. want \in Row
      BY <2>1, CatalogAssumption, NewRowType
    <3> QED BY <2>1, <3>1 DEF NewRow
  <2>3. Begin(c, "seed", 0, want, want)
    BY <1>4, <2>1 DEF StartSeed
  <2> HIDE DEF Row
  <2> QED BY <1>0, <2>2, <2>3, BeginType DEF EditFits
<1>5. ASSUME CreatePipeline(c) PROVE Effect
  <2>1. calls' = calls \/ \E row, id : Begin(c, "list", id, row, row)
    BY <1>5 DEF CreatePipeline
  <2> QED BY <1>0, <2>1 DEF Begin
<1>6. ASSUME \/ InsertSeed(c) \/ CommitUpdate(c) \/ RowIsGone(c) \/ ClearOthers(c) \/ ClearRaises(c)
      PROVE  Effect
  <2>1. End(c)
    BY <1>6 DEF InsertSeed, CommitUpdate, RowIsGone, ClearOthers, ClearRaises
  <2> QED BY <1>0, <2>1, EndType
<1>7. ASSUME MarkDefault(c) \/ ListOthers(c) PROVE Effect
  <2>1. calls'[c].step \in {"list", "clear"}
    BY <1>0, <1>7 DEF MarkDefault, ListOthers, Goto, Call
  <2> QED BY <2>1
<1>8. ASSUME Crash PROVE Effect
  <2> HIDE DEF Idle
  <2> QED BY <1>8, IdleType DEF Crash
<1>9. ASSUME calls' = calls PROVE Effect
  BY <1>9
<1>10. \/ Handle(c) \/ \E d \in Slots : d # c /\ Handle(d)
       \/ calls' = calls \/ Crash
  BY DEF Next, StartRun, vars
<1> HIDE DEF Effect
<1>11. ASSUME Handle(c) PROVE Effect
  BY <1>2, <1>3, <1>4, <1>5, <1>6, <1>7, <1>9, <1>11 DEF Handle, DeletePipeline
<1>12. Effect
  BY <1>1, <1>8, <1>9, <1>10, <1>11
<1> QED BY <1>12 DEF Effect

\* A committed update leaves a version that is not behind; where the row was
\* in hand as it is, the version that was read or the next, with its text.
LEMMA CommitVersion ==
  ASSUME EditInv, NEW c \in Slots, CommitUpdate(c)
  PROVE  LET id == calls[c].id IN
         /\ id \in Ids
         /\ Same(rows'[id], rows[id]) \/ rows'[id].version = calls[c].want.version
         /\ rows'[id].version >= rows[id].version
         /\ InHand => Same(rows'[id], rows[id]) \/ rows'[id].version > rows[id].version
<1>1. PICK id : id = calls[c].id
  OBVIOUS
<1>2. TypeOK /\ id \in Ids /\ Editing(c) /\ WriteRow(c)
  BY <1>1 DEF EditInv, IInv, CommitUpdate
<1>3. PICK row, read, want : row = rows[id] /\ read = calls[c].read /\ want = calls[c].want
  OBVIOUS
<1>4. /\ row \in Row /\ read \in Row /\ want \in Row
      /\ row.version \in Nat /\ read.version \in Nat /\ want.version \in Nat
  BY <1>2, <1>3, RowFacts
<1>5. rows'[id] = Written(row, read, want)
  BY <1>1, <1>2, <1>3 DEF WriteRow, Ids
<1>6. want.version >= row.version /\ (Same(want, read) \/ want.version = read.version + 1)
  BY <1>1, <1>2, <1>3 DEF EditInv, NotBehind, EditFits, Editing, At
<1>7. InHand => Same(row, read)
  BY <1>1, <1>2, <1>3 DEF InHand
<1>8. CASE Same(want, read)
  <2>1. Same(rows'[id], row)
    BY <1>4, <1>5, <1>8, WrittenVersion
  <2> QED BY <1>1, <1>2, <1>3, <1>4, <2>1 DEF Same
<1>9. CASE want.version = read.version + 1
  <2>1. rows'[id].version = want.version
    BY <1>4, <1>5, <1>9, WrittenVersion
  <2>2. InHand => want.version > row.version
    BY <1>4, <1>7, <1>9 DEF Same
  <2> QED BY <1>1, <1>2, <1>3, <1>4, <1>6, <2>1, <2>2
<1> QED BY <1>6, <1>8, <1>9

LEMMA EditStep == OneEditor /\ EditInv /\ [Next]_vars => EditInv'
<1> SUFFICES ASSUME OneEditor, EditInv, [Next]_vars PROVE EditInv'
  OBVIOUS
<1>0. /\ IInv' /\ TypeOK /\ TypeOK' /\ lastId \in Nat
      /\ \A id \in Ids : rows[id].version \in Nat /\ id \in Nat
      /\ \A c \in Slots : calls[c].want.version \in Nat
  BY StepInvariant, RowFacts DEF EditInv, IInv
<1>a. /\ lastId' \in Nat /\ lastId' >= lastId
      /\ \A id \in Ids' :
           \/ id \in Ids /\ Same(rows'[id], rows[id])
           \/ id \in Ids /\ \E c \in Slots : CommitUpdate(c) /\ calls[c].id = id
           \/ id \notin Ids /\ id <= lastId' /\ rows'[id].version = 1
  BY RowSteps
<1>b. \A id \in Ids' : rows'[id].version \in Nat /\ id \in Nat
  BY <1>0, TypedVersions DEF TypeOK
<1>1. \A c \in Slots : EditFits(calls'[c])
  <2> SUFFICES ASSUME NEW c \in Slots PROVE EditFits(calls'[c])
    OBVIOUS
  <2>1. CASE calls'[c].step \notin {"update", "mark", "seed"}
    BY <2>1 DEF EditFits
  <2> QED BY <2>1, CallSteps DEF EditInv
<1>2. OneAtEdit'
  <2> SUFFICES ASSUME NEW c \in Slots, NEW d \in Slots, c # d,
                      calls'[c].step = "update", calls'[d].step = "update"
               PROVE  FALSE
    BY DEF OneAtEdit, Editing, At
  <2>1. \A e \in Slots : calls'[e].step = "update" =>
          \/ calls'[e] = calls[e]
          \/ /\ \E id \in Ids : StartUpdate(e, id)
             /\ \A f \in Slots : f # e => calls'[f] = calls[f]
    BY CallSteps
  <2>2. \A e \in Slots : (\E id \in Ids : StartUpdate(e, id)) => \A f \in Slots : calls[f].step # "update"
    BY DEF StartUpdate, Editing, At
  <2>3. CASE calls'[c] = calls[c] /\ calls'[d] = calls[d]
    BY <2>3 DEF EditInv, OneAtEdit, Editing, At
  <2> QED BY <2>1, <2>2, <2>3
<1>3. \A id \in Ids' : id <= lastId' /\ rows'[id].version >= 1
  <2> SUFFICES ASSUME NEW id \in Ids' PROVE id <= lastId' /\ rows'[id].version >= 1
    OBVIOUS
  <2>1. id \in Ids => id <= lastId' /\ rows[id].version >= 1
    BY <1>0, <1>a DEF EditInv
  <2>2. ASSUME NEW c \in Slots, CommitUpdate(c), calls[c].id = id
        PROVE  rows'[id].version >= rows[id].version
    BY <2>2, CommitVersion
  <2> QED BY <1>0, <1>a, <1>b, <2>1, <2>2 DEF Same
<1>4. NotBehind'
  <2> SUFFICES ASSUME NEW c \in Slots, calls'[c].step = "update", calls'[c].id \in Ids'
               PROVE  calls'[c].want.version >= rows'[calls'[c].id].version
    BY DEF NotBehind, Editing, At
  <2>1. CASE calls'[c] = calls[c]
    <3>1. PICK id : id = calls[c].id
      OBVIOUS
    <3>2. id \in Ids' /\ calls[c].step = "update"
      BY <2>1, <3>1
    <3>3. CASE id \in Ids /\ Same(rows'[id], rows[id])
      BY <2>1, <3>1, <3>2, <3>3 DEF EditInv, NotBehind, Editing, At, Same
    <3>4. ASSUME NEW d \in Slots, CommitUpdate(d) PROVE FALSE
      <4>1. d = c
        BY <3>2, <3>4 DEF CommitUpdate, EditInv, OneAtEdit, Editing, At
      <4>2. calls'[d].step = "idle"
        BY <1>0, <3>4, EndType DEF CommitUpdate
      <4> QED BY <4>1, <4>2
    <3>5. CASE rows'[id].version = 1
      <4>1. calls[c].want.version >= 1
        <5>1. calls[c].read.version \in Nat /\ calls[c].read.version >= 1
              /\ (Same(calls[c].want, calls[c].read) \/ calls[c].want.version = calls[c].read.version + 1)
          BY <1>0, <3>2, RowFacts DEF EditInv, EditFits
        <5> QED BY <5>1 DEF Same
      <4> QED BY <2>1, <3>1, <3>5, <4>1
    <3> QED BY <1>a, <3>2, <3>3, <3>4, <3>5
  <2>2. CASE calls'[c] # calls[c]
    <3>1. /\ UNCHANGED rows /\ calls'[c].id \in Ids /\ calls'[c].read = rows[calls'[c].id]
          /\ EditFits(calls'[c])
      BY <2>2, CallSteps
    <3> QED BY <1>0, <3>1 DEF EditFits, Same
  <2> QED BY <2>1, <2>2
<1> QED BY <1>0, <1>1, <1>2, <1>3, <1>4 DEF EditInv

LEMMA EditInvHolds == OneEditor => (Spec => []EditInv)
<1> SUFFICES ASSUME OneEditor PROVE Spec => []EditInv
  OBVIOUS
<1>1. Init => EditInv
  <2> SUFFICES ASSUME Init PROVE EditInv
    OBVIOUS
  <2>1. Ids = {} /\ calls = [c \in Slots |-> Idle]
    BY DEF Init, Ids
  <2> HIDE DEF Idle
  <2>2. \A c \in Slots : calls[c].step = "idle"
    BY <2>1, IdleType
  <2>3. \A c \in Slots : EditFits(calls[c]) /\ ~Editing(c)
    BY <2>2 DEF EditFits, Editing, At
  <2>4. \A id \in Ids : id <= lastId /\ rows[id].version >= 1
    BY <2>1
  <2> QED BY <2>3, <2>4, InitInvariant DEF EditInv, OneAtEdit, NotBehind
<1>2. EditInv /\ [Next]_vars => EditInv'
  BY EditStep
<1> QED BY <1>1, <1>2, PTL DEF Spec

\* Where one update waits for the one before it, no step takes a pipeline's
\* version back: not a call that changes the default, nor one that only sets
\* the flag, on either database and with a process that may stop.
THEOREM VersionsOnlyGrow == OneEditor => (Spec => EditsAreNotUndone)
<1> SUFFICES ASSUME OneEditor PROVE Spec => EditsAreNotUndone
  OBVIOUS
<1>1. EditInv /\ [Next]_vars =>
        [\A id \in Ids \cap DOMAIN rows' : rows'[id].version >= rows[id].version]_rows
  <2> SUFFICES ASSUME EditInv, [Next]_vars, NEW id \in Ids, id \in Ids'
               PROVE  rows'[id].version >= rows[id].version
    BY DEF Ids
  <2>1. \/ Same(rows'[id], rows[id])
        \/ \E c \in Slots : CommitUpdate(c) /\ calls[c].id = id
    BY RowSteps
  <2>2. rows[id].version \in Nat
    BY RowFacts DEF EditInv, IInv
  <2> QED BY <2>1, <2>2, CommitVersion DEF Same
<1> QED BY <1>1, EditInvHolds, PTL DEF Spec, EditsAreNotUndone

VersionInv == EditInv /\ InHand /\ SnapshotsFit

LEMMA VersionStep == OneEditor /\ ~Sqlite /\ VersionInv /\ [Next]_vars => VersionInv'
<1> SUFFICES ASSUME OneEditor, ~Sqlite, VersionInv, [Next]_vars PROVE InHand' /\ SnapshotsFit'
  BY EditStep DEF VersionInv
<1>0. /\ EditInv /\ InHand /\ SnapshotsFit /\ TypeOK /\ TypeOK' /\ lastId \in Nat
      /\ \A id \in Ids : rows[id].version \in Nat
      /\ \A c \in Slots : calls[c].id \in Nat
      /\ \A r \in runs : r.id \in Nat /\ r.version \in Nat
  BY StepInvariant, RowFacts DEF VersionInv, EditInv, IInv
<1>a. /\ lastId' \in Nat /\ lastId' >= lastId
      /\ \A id \in Ids' :
           \/ id \in Ids /\ Same(rows'[id], rows[id])
           \/ id \in Ids /\ \E c \in Slots : CommitUpdate(c) /\ calls[c].id = id
           \/ id \notin Ids /\ id > lastId
  BY <1>0, RowSteps
<1>b. \A id \in Ids' : rows'[id].version \in Nat /\ id \in Nat
  BY <1>0, TypedVersions DEF TypeOK
<1>1. InHand'
  <2> SUFFICES ASSUME NEW c \in Slots, calls'[c].step = "update"
               PROVE  /\ calls'[c].id <= lastId'
                      /\ calls'[c].id \in Ids' => Same(rows'[calls'[c].id], calls'[c].read)
    BY DEF InHand, Editing, At
  <2>1. CASE calls'[c] = calls[c]
    <3>1. PICK id : id = calls[c].id
      OBVIOUS
    <3>2. id <= lastId /\ id \in Nat /\ (id \in Ids => Same(rows[id], calls[c].read))
      BY <1>0, <2>1, <3>1 DEF InHand, Editing, At
    <3>3. ASSUME NEW d \in Slots, CommitUpdate(d) PROVE FALSE
      <4>1. d = c
        BY <1>0, <2>1, <3>3 DEF CommitUpdate, EditInv, OneAtEdit, Editing, At
      <4>2. calls'[d].step = "idle"
        BY <1>0, <3>3, EndType DEF CommitUpdate
      <4> QED BY <4>1, <4>2
    <3>4. id <= lastId' /\ ~(id > lastId)
      BY <1>0, <1>a, <3>2
    <3>5. id \in Ids' => Same(rows'[id], calls[c].read)
      BY <1>a, <3>2, <3>3, <3>4 DEF Same
    <3> QED BY <2>1, <3>1, <3>4, <3>5
  <2>2. CASE calls'[c] # calls[c]
    <3>1. /\ UNCHANGED <<rows, lastId>> /\ calls'[c].id \in Ids
          /\ calls'[c].read = rows[calls'[c].id]
      BY <1>0, <2>2, CallSteps
    <3> QED BY <1>0, <3>1 DEF EditInv, Same
  <2> QED BY <2>1, <2>2
<1>2. ASSUME NEW r \in runs
      PROVE  /\ r.id <= lastId'
             /\ r.id \in Ids' => \/ r.version < rows'[r.id].version
                                 \/ r.version = rows'[r.id].version /\ r.text = rows'[r.id].text
  <2>1. /\ r.id <= lastId /\ r.id \in Nat /\ r.version \in Nat
        /\ r.id \in Ids => \/ r.version < rows[r.id].version
                           \/ r.version = rows[r.id].version /\ r.text = rows[r.id].text
    BY <1>0 DEF SnapshotsFit
  <2>2. r.id <= lastId' /\ ~(r.id > lastId)
    BY <1>0, <1>a, <2>1
  <2>3. ASSUME r.id \in Ids'
        PROVE  \/ r.version < rows'[r.id].version
               \/ r.version = rows'[r.id].version /\ r.text = rows'[r.id].text
    <3>1. r.id \in Ids /\ rows[r.id].version \in Nat /\ rows'[r.id].version \in Nat
      BY <1>0, <1>a, <1>b, <2>2, <2>3
    <3>2. Same(rows'[r.id], rows[r.id]) \/ rows'[r.id].version > rows[r.id].version
      BY <1>0, <1>a, <2>2, <2>3, CommitVersion
    <3> QED BY <2>1, <3>1, <3>2 DEF Same
  <2> QED BY <2>2, <2>3
<1>3. ASSUME NEW r \in runs', r \notin runs
      PROVE  /\ r.id <= lastId'
             /\ r.id \in Ids' => \/ r.version < rows'[r.id].version
                                 \/ r.version = rows'[r.id].version /\ r.text = rows'[r.id].text
  <2>1. StartRun
    BY <1>3 DEF Next, Handle, CreatePipeline, DeletePipeline, StartUpdate, StartSetDefault, StartSeed,
       InsertSeed, CommitUpdate, RowIsGone, MarkDefault, ListOthers, ClearOthers, ClearRaises,
       Crash, vars
  <2>2. PICK id \in Ids :
          runs' = runs \cup {[id |-> id, version |-> rows[id].version, text |-> rows[id].text]}
    BY <2>1 DEF StartRun
  <2>3. r.id = id /\ r.version = rows[id].version /\ r.text = rows[id].text
    BY <1>3, <2>2
  <2>4. UNCHANGED <<rows, lastId>>
    BY <2>1 DEF StartRun
  <2> QED BY <1>0, <2>2, <2>3, <2>4 DEF EditInv
<1>4. SnapshotsFit'
  BY <1>2, <1>3 DEF SnapshotsFit
<1> QED BY <1>1, <1>4

\* Where one update waits for the one before it and ids are not used again, a
\* run's recorded version says which definition it ran, whatever else happens.
THEOREM VersionsTellDefinitions == OneEditor /\ ~Sqlite => (Spec => []VersionIdentifiesDefinition)
<1> SUFFICES ASSUME OneEditor, ~Sqlite PROVE Spec => []VersionIdentifiesDefinition
  OBVIOUS
<1>1. Init => InHand /\ SnapshotsFit
  <2> SUFFICES ASSUME Init PROVE InHand /\ SnapshotsFit
    OBVIOUS
  <2>1. runs = {} /\ calls = [c \in Slots |-> Idle]
    BY DEF Init
  <2> HIDE DEF Idle
  <2>2. \A c \in Slots : calls[c].step = "idle"
    BY <2>1, IdleType
  <2> QED BY <2>1, <2>2 DEF InHand, SnapshotsFit, Editing, At
<1>2. EditInv /\ InHand /\ SnapshotsFit <=> VersionInv
  BY DEF VersionInv
<1>3. VersionInv /\ [Next]_vars => VersionInv'
  BY VersionStep
<1>4. Spec => []EditInv
  BY EditInvHolds
<1>5. VersionInv => VersionIdentifiesDefinition
  <2> SUFFICES ASSUME VersionInv, NEW r \in runs, r.id \in Ids, rows[r.id].version = r.version
               PROVE  rows[r.id].text = r.text
    BY DEF VersionIdentifiesDefinition
  <2>1. rows[r.id].version \in Nat
    BY RowFacts DEF VersionInv, EditInv, IInv
  <2> QED BY <2>1 DEF VersionInv, SnapshotsFit
<1> QED BY <1>1, <1>2, <1>3, <1>4, <1>5, PTL DEF Spec
=================================================================================
