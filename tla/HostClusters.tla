----------------------------- MODULE HostClusters -----------------------------
(***************************************************************************)
(* The host clusters an admin configures (api/host_clusters.py): a row     *)
(* with a kubeconfig and a context, and what the last connection test      *)
(* found.  A test goes over the network while other calls commit.          *)
(***************************************************************************)
EXTENDS Naturals, FiniteSets

CONSTANTS
  Ids,          \* the rows' ids
  Kubeconfigs,  \* what may be pasted
  Contexts,     \* the contexts a kubeconfig has
  Works,        \* the pairs <<kubeconfig, context>> that can be reached
  MaxHostCalls  \* calls that may be under way at once

NoContext == "none"   \* the kubeconfig's current context
Omitted == "omitted"  \* a field that the body leaves out
Blank == "blank"      \* a field that the body sets to nothing

VARIABLES
  hosts,        \* the rows by id; `test` is what the last test found
  hostCalls,    \* the calls under way
  crossedRows   \* rows written while another call had them in hand, or whose
                \* call could not clear the other defaults

hostVars == <<hosts, hostCalls, crossedRows>>

HostsInit == hosts = [i \in {} |-> {}] /\ hostCalls = {} /\ crossedRows = {}

\* kube_test and _apply_test_result.
TestOf(k, c) ==
  [status |-> IF <<k, c>> \in Works THEN "connected" ELSE "failed", kubeconfig |-> k]

Put(id, row) == [i \in DOMAIN hosts \cup {id} |-> IF i = id THEN row ELSE hosts[i]]

InHand(id, call) == \E x \in hostCalls \ {call} : x.id = id /\ x.op \notin {"clear", "clearing"}

\* A call has committed.  A default row is followed by clear_other_defaults, in
\* a commit of its own.
Commit(call, id, row) ==
  /\ hosts' = Put(id, row)
  /\ hostCalls' = (hostCalls \ {call}) \cup
       (IF row.default /\ call.op # "test" THEN {[op |-> "clear", id |-> id]} ELSE {})
  /\ crossedRows' = crossedRows \cup (IF InHand(id, call) THEN {id} ELSE {})

MayBegin == Cardinality(hostCalls) < MaxHostCalls

NewCall(id) == [op |-> "create", id |-> id]

\* The name is not taken; the new row is tested before it is saved.
CreateHost(id, k, c, default) ==
  /\ MayBegin /\ id \notin DOMAIN hosts
  /\ Commit(NewCall(id), id,
            [kubeconfig |-> k, context |-> c, default |-> default, test |-> TestOf(k, c)])

Begin(call) ==
  /\ MayBegin /\ call \notin hostCalls
  /\ hostCalls' = hostCalls \cup {call}
  /\ UNCHANGED <<hosts, crossedRows>>

\* The context of a row that had the one given, after an update.
AfterUpdate(c, old) == IF c = Omitted THEN old ELSE IF c = Blank THEN NoContext ELSE c

\* A new kubeconfig is tested, with the row's old context if the body has none.
\* A column that is set to what it was is not written.
BeginUpdate(id, k, c, default) ==
  /\ id \in DOMAIN hosts
  /\ Begin([op |-> "update", id |-> id, kubeconfig |-> k,
            context |-> IF AfterUpdate(c, hosts[id].context) = hosts[id].context THEN Omitted ELSE c,
            default |-> IF (default = "yes") = hosts[id].default THEN Omitted ELSE default,
            test |-> TestOf(k, IF c \in Contexts THEN c ELSE hosts[id].context)])

\* Mistaken: the test's result is left to the next test.
TestAfterUpdateStale(row, call) == row.test

TestAfterUpdate(row, call) == IF call.kubeconfig = Omitted THEN row.test ELSE call.test

EndUpdate(call) ==
  /\ call \in hostCalls /\ call.op = "update" /\ call.id \in DOMAIN hosts
  /\ LET row == hosts[call.id] IN
     Commit(call, call.id,
       [kubeconfig |-> IF call.kubeconfig = Omitted THEN row.kubeconfig ELSE call.kubeconfig,
        context |-> AfterUpdate(call.context, row.context),
        default |-> IF call.default = Omitted THEN row.default ELSE call.default = "yes",
        test |-> TestAfterUpdate(row, call)])

\* test_saved_connection decrypts and tests what it has read.
BeginTest(id) ==
  /\ id \in DOMAIN hosts
  /\ Begin([op |-> "test", id |-> id, test |-> TestOf(hosts[id].kubeconfig, hosts[id].context)])

EndTest(call) ==
  /\ call \in hostCalls /\ call.op = "test" /\ call.id \in DOMAIN hosts
  /\ Commit(call, call.id, [hosts[call.id] EXCEPT !.test = call.test])

\* A call whose row is gone fails.
RowGone(call) ==
  /\ call \in hostCalls /\ call.op \in {"update", "test"} /\ call.id \notin DOMAIN hosts
  /\ hostCalls' = hostCalls \ {call}
  /\ UNCHANGED <<hosts, crossedRows>>

\* clear_other_defaults lists the other defaults, and writes them in one commit.
ListOtherDefaults(call) ==
  /\ call \in hostCalls /\ call.op = "clear"
  /\ hostCalls' = (hostCalls \ {call}) \cup
       {[op |-> "clearing", id |-> call.id,
         others |-> {i \in DOMAIN hosts \ {call.id} : hosts[i].default}]}
  /\ UNCHANGED <<hosts, crossedRows>>

\* The commit raises if one of them has been deleted since.
ClearOtherDefaults(call) ==
  /\ call \in hostCalls /\ call.op = "clearing"
  /\ hostCalls' = hostCalls \ {call}
  /\ IF call.others \subseteq DOMAIN hosts
     THEN /\ hosts' = [i \in DOMAIN hosts |->
               IF i \in call.others THEN [hosts[i] EXCEPT !.default = FALSE] ELSE hosts[i]]
          /\ UNCHANGED crossedRows
     ELSE crossedRows' = crossedRows \cup {call.id} /\ UNCHANGED hosts

DeleteHost(id) ==
  /\ hosts' = [i \in DOMAIN hosts \ {id} |-> hosts[i]]
  /\ UNCHANGED <<hostCalls, crossedRows>>

HostsNext ==
  \/ \E id \in Ids, k \in Kubeconfigs, c \in Contexts \cup {NoContext}, d \in BOOLEAN :
       CreateHost(id, k, c, d)
  \/ \E id \in Ids, k \in Kubeconfigs \cup {Omitted}, c \in Contexts \cup {Omitted, Blank},
        d \in {"yes", "no", Omitted} : BeginUpdate(id, k, c, d)
  \/ \E id \in Ids : BeginTest(id)
  \/ \E call \in hostCalls : EndUpdate(call) \/ EndTest(call) \/ RowGone(call)
                             \/ ListOtherDefaults(call) \/ ClearOtherDefaults(call)
  \/ \E id \in DOMAIN hosts : DeleteHost(id)

HostsSpec == HostsInit /\ [][HostsNext]_hostVars

\* What a row says of its last test was found with the kubeconfig it holds,
\* unless another call wrote the row during the test; and when every call has
\* ended at most one row is the default, but for those whose call failed on the
\* way (clear_other_defaults's "Only one host cluster may be marked default at
\* a time.").
HostsSettle ==
  /\ \A i \in DOMAIN hosts \ crossedRows : hosts[i].test.kubeconfig = hosts[i].kubeconfig
  /\ hostCalls = {} =>
       \A i, j \in DOMAIN hosts \ crossedRows : hosts[i].default /\ hosts[j].default => i = j
=============================================================================
