------------------------------- MODULE Uploads -------------------------------
(***************************************************************************)
(* The evidence that the uploaders of one run post                         *)
(* (services/validation_ingest_service.py), with the limits per run and    *)
(* the executors that store evidence of their own beside it.               *)
(***************************************************************************)
EXTENDS Naturals, Sequences, FiniteSets

CONSTANTS
  Posts,         \* what each uploader posts: a sequence of files
  MaxFileBytes, MaxRunBytes, MaxRunFiles

ASSUME UploadsAssumption ==
  /\ Posts \in Seq(Seq(Nat))
  /\ MaxFileBytes \in Nat /\ MaxRunBytes \in Nat /\ MaxRunFiles \in Nat

NoContent == 0   \* a file that is empty or no base64

\* The bytes of some files.
Sum(sizes) ==
  LET upTo[i \in 0..Len(sizes)] == IF i = 0 THEN 0 ELSE upTo[i - 1] + sizes[i]
  IN upTo[Len(sizes)]

VARIABLES
  stored,     \* the sizes of the run's artifacts, oldest first
  accepting,  \* is the run queued or running?
  totals      \* what each handler has found stored

uploadVars == <<stored, accepting, totals>>

Unread == [files |-> 0, bytes |-> 0, read |-> FALSE]

UploadsInit ==
  /\ stored = <<>> /\ accepting = TRUE
  /\ totals = [u \in DOMAIN Posts |-> Unread]

\* The run still accepts, and its artifacts are counted.
ReadTotals(u) ==
  /\ accepting /\ ~totals[u].read
  /\ totals' = [totals EXCEPT ![u] = [files |-> Len(stored), bytes |-> Sum(stored),
                                      read |-> TRUE]]
  /\ UNCHANGED <<stored, accepting>>

\* Mistaken: the file that reaches a limit is stored as well.
FitsOneMore(t, size) ==
  size \in 1..MaxFileBytes /\ t.files <= MaxRunFiles /\ t.bytes + size <= MaxRunBytes

Fits(t, size) ==
  size \in 1..MaxFileBytes /\ t.files + 1 <= MaxRunFiles /\ t.bytes + size <= MaxRunBytes

\* The files of a post that the handler keeps, given the totals it has read.
Kept(t, post) ==
  LET upTo[i \in 0..Len(post)] ==
        IF i = 0 THEN <<>>
        ELSE LET kept == upTo[i - 1]
                 now == [files |-> t.files + Len(kept), bytes |-> t.bytes + Sum(kept)]
             IN IF post[i] # NoContent /\ Fits(now, post[i])
                THEN Append(kept, post[i]) ELSE kept
  IN upTo[Len(post)]

\* The commit: all that was kept and the record of the post.
CommitPost(u) ==
  /\ totals[u].read
  /\ stored' = stored \o Kept(totals[u], Posts[u])
  /\ totals' = [totals EXCEPT ![u] = Unread]
  /\ UNCHANGED accepting

\* _persist_step and _finalize_step store what an executor returns, uncounted;
\* here only while the run has room for a file, to bound the store.
StoreExecutorsFile(size) ==
  /\ accepting /\ Len(stored) < MaxRunFiles
  /\ stored' = Append(stored, size)
  /\ UNCHANGED <<accepting, totals>>

FinishRun ==
  /\ accepting' = FALSE
  /\ UNCHANGED <<stored, totals>>

UploadsNext ==
  \/ \E u \in DOMAIN Posts : ReadTotals(u) \/ CommitPost(u)
  \/ StoreExecutorsFile(MaxFileBytes)
  \/ FinishRun

UploadsSpec == UploadsInit /\ [][UploadsNext]_uploadVars

Within(sizes) == Len(sizes) <= MaxRunFiles /\ Sum(sizes) <= MaxRunBytes

\* A post takes its run past the limits only if something was stored after its
\* handler counted, by another post or by an executor (ingest's totals are
\* read once, before the files are looked at).
LimitsUnlessOverlapped ==
  [][\A u \in DOMAIN Posts :
       (totals[u].read /\ ~totals'[u].read /\ stored' # stored
          /\ totals[u].files = Len(stored) /\ totals[u].bytes = Sum(stored))
       => Within(stored')]_uploadVars
=============================================================================
