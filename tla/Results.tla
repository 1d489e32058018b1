------------------------------ MODULE Results ------------------------------
(***************************************************************************)
(* How the raw signals of a finished container step become the status of   *)
(* the step (backend/app/validation/results.py): a JSON object on its      *)
(* output wins, then comes the exit code.                                  *)
(***************************************************************************)
EXTENDS Aggregation, Integers, FiniteSets

NoCode == -1           \* the exit code could not be read
NoReason == "unread"   \* nor the reason
NoResult == "silent"   \* the output holds no JSON object

JobStates == {"succeeded", "failed", "timeout"}

InfraFailureReasons == {"OOMKilled", "DeadlineExceeded", "Error"}
InfraFailureExitCodes == {137}

\* The status a result object claims; a word that is no status is an error.
NormalizeStatus(word) == IF word \in StepStatus THEN word ELSE "error"

\* resolve_outcome; `result` is the status word of the object on stdout.
ResolveOutcome(state, code, reason, result) ==
  IF result # NoResult THEN NormalizeStatus(result)
  ELSE IF \/ state = "timeout"
          \/ reason \in InfraFailureReasons
          \/ code \in InfraFailureExitCodes THEN "error"
  ELSE IF code = NoCode THEN (IF state = "succeeded" THEN "passed" ELSE "failed")
  ELSE IF code = 0 THEN "passed"
  ELSE IF code = 2 THEN "warning" ELSE "failed"

-----------------------------------------------------------------------------
(* extract_json_object.  A text is a sequence of braces, of content that   *)
(* is JSON inside braces ("k"), of a JSON string that holds a closing      *)
(* brace ("s") and of other words ("w").                                   *)

Tokens == {"open", "close", "k", "s", "w"}

Count(text, from, to, tokens) == Cardinality({i \in from..to : text[i] \in tokens})

\* The characters that the scan takes for a closing brace, and those that are one.
Apparent == {"close", "s"}
Closing == {"close"}

\* Where the brace that closes at `end` was opened; 0 if it was not.
OpenOf(text, end, closing) ==
  LET open == {i \in 1..end : Count(text, i, end, {"open"}) = Count(text, i, end, closing)}
  IN IF open = {} THEN 0 ELSE CHOOSE i \in open : \A j \in open : j <= i

\* Does json.loads make an object of text[from..to]?
IsObject(text, from, to) ==
  /\ from \in 1..to /\ text[to] = "close"
  /\ OpenOf(text, to, Closing) = from
  /\ Count(text, from, to, {"w"}) = 0

\* The last closing brace before position i, 0 if there is none.
LastClose(text, i) ==
  LET closing == {j \in 1..(i - 1) : text[j] \in Apparent}
  IN IF closing = {} THEN 0 ELSE CHOOSE j \in closing : \A k \in closing : k <= j

NothingFound == <<0, 0>>

\* Mistaken: the scan goes on inside the block that was no object.
NextEndInside(text, start, end) == LastClose(text, end)

NextEnd(text, start, end) == LastClose(text, start)

\* The object's first and last position: all of the text, or the scan goes
\* backward from one closing brace to the one before its block, and gives up at
\* a brace that nothing opened.
ExtractJsonObject(text) ==
  LET scan[end \in 0..Len(text)] ==
        LET start == OpenOf(text, end, Apparent) IN
        IF end = 0 \/ start = 0 THEN NothingFound
        ELSE IF IsObject(text, start, end) THEN <<start, end>>
        ELSE scan[NextEnd(text, start, end)]
  IN IF IsObject(text, 1, Len(text)) THEN <<1, Len(text)>>
     ELSE scan[LastClose(text, Len(text) + 1)]

-----------------------------------------------------------------------------
\* The blocks of a text that are in no other block, and are objects.
TopLevelObjects(text) ==
  {b \in (1..Len(text)) \X (1..Len(text)) :
     /\ Count(text, 1, b[1] - 1, {"open"}) = Count(text, 1, b[1] - 1, Closing)
     /\ IsObject(text, b[1], b[2])}

Balanced(text) ==
  /\ \A i \in DOMAIN text : Count(text, 1, i, Closing) <= Count(text, 1, i, {"open"})
  /\ Count(text, 1, Len(text), Closing) = Count(text, 1, Len(text), {"open"})

\* extract_json_object's "last well-formed top-level JSON object": it is found
\* if it is all of the text, and among other words and other blocks as long as
\* every brace of the text has its partner and none is part of a string.
FindsLastObject(text) ==
  LET found == ExtractJsonObject(text)
      objects == TopLevelObjects(text)
  IN /\ <<1, Len(text)>> \in objects => found = <<1, Len(text)>>
     /\ Balanced(text) /\ Count(text, 1, Len(text), {"s"}) = 0 =>
          IF objects = {} THEN found = NothingFound
          ELSE found \in objects /\ \A b \in objects : b[2] <= found[2]
=============================================================================
