-------------------------- MODULE MCKubernetesJob --------------------------
(***************************************************************************)
(* Two runs of one pipeline at once.  The first has a script step and a    *)
(* container step after it, the second a container step of the first one's *)
(* name.                                                                   *)
(***************************************************************************)
EXTENDS KubernetesJob

Script(name) == [name |-> name, script |-> TRUE]
Image(name) == [name |-> name, script |-> FALSE]

TwoRuns == [r \in {"1", "2"} |->
  IF r = "1" THEN <<Script(<<"a">>), Image(<<"b">>)>> ELSE <<Image(<<"a">>)>>]

\* Silent ends, and a claim that the exit code does not show.
SomeEnds == {[code |-> 0, word |-> NoResult], [code |-> 0, word |-> "failed"]}
Silent == [code : {0, 1, 2}, word : {NoResult}]

OneStep == [r \in {"1"} |-> <<Image(<<"a">>)>>]

\* The premise of the theorems of KubernetesJob_proofs.
ASSUME NamesAssumption == NamesApart
=============================================================================
