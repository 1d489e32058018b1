-------------------------- MODULE MCAdministration --------------------------
(***************************************************************************)
(* What admins administer: accounts, settings that are kept in one row,    *)
(* and host clusters.  The three share no state, so a behaviour of this    *)
(* run is about one of them.                                               *)
(***************************************************************************)
EXTENDS Users, Settings, HostClusters

VARIABLE topic

vars == <<topic, userVars, settingsVars, hostVars>>

Init ==
  /\ topic \in {"users", "settings", "hosts"}
  /\ UsersInit /\ SettingsInit /\ HostsInit

Next ==
  /\ UNCHANGED topic
  /\ \/ topic = "users" /\ UsersNext /\ UNCHANGED <<settingsVars, hostVars>>
     \/ topic = "settings" /\ SettingsNext /\ UNCHANGED <<userVars, hostVars>>
     \/ topic = "hosts" /\ HostsNext /\ UNCHANGED <<userVars, settingsVars>>

Spec == Init /\ [][Next]_vars

\* Only the first kubeconfig works, with its current context or the one named.
SomeWork == {<<"old", NoContext>>, <<"old", "ctx">>}
=============================================================================
