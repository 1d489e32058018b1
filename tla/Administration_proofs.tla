------------------------- MODULE Administration_proofs -------------------------
(***************************************************************************)
(* What holds of the accounts, of the settings in one row and of the host  *)
(* clusters for every number of them and of calls under way.  The three    *)
(* share no state; each has its inductive invariant.                       *)
(***************************************************************************)
EXTENDS Users, Settings, HostClusters, WellFoundedInduction, TLAPS

-----------------------------------------------------------------------------
(* The accounts.  As long as no update was committed while another was     *)
(* under way, there is an admin.  The caller of an update is the witness:  *)
(* it was an admin when the update was checked, and nobody else's update   *)
(* came in between.                                                        *)

Accounts ==
  /\ users = [n \in DOMAIN users |-> users[n]]
  /\ \A n \in DOMAIN users : users[n].active \in BOOLEAN
  /\ \A u \in updates :
       u.target \in DOMAIN users /\ u.body.active \in {"yes", "no", Unchanged}

\* The update, if it is its caller's own, takes nothing from it.
Harmless(u) ==
  u.target = u.actor => u.body.role \in {"admin", Unchanged} /\ u.body.active # "no"

\* The callers of what is under way are the admins they were.
CallersAreAdmins == ~crossed => \A u \in updates : MayAdminister(u.actor) /\ Harmless(u)

UsersIInv == Accounts /\ CallersAreAdmins /\ AnAdminRemains

LEMMA UsersInitIInv == UsersInit => UsersIInv
<1> SUFFICES ASSUME UsersInit PROVE UsersIInv OBVIOUS
<1>1. /\ users = [n \in {FirstAdmin} |-> [role |-> "admin", active |-> TRUE]]
      /\ updates = {} /\ DOMAIN users = {FirstAdmin}
  BY DEF UsersInit, Account
<1>2. MayAdminister(FirstAdmin)
  BY <1>1 DEF MayAdminister, Exists
<1> QED BY <1>1, <1>2 DEF UsersIInv, Accounts, CallersAreAdmins, AnAdminRemains

LEMMA CreateUserIInv ==
  ASSUME UsersIInv, NEW a \in Names, NEW n \in Names, NEW r \in GivenRoles, CreateUser(a, n, r)
  PROVE  UsersIInv'
<1>1. /\ n \notin DOMAIN users /\ UNCHANGED <<updates, crossed>>
      /\ users' = [m \in DOMAIN users \cup {n} |-> IF m = n THEN Account(r) ELSE users[m]]
  BY DEF CreateUser, Exists
<1>2. DOMAIN users' = DOMAIN users \cup {n} /\ \A m \in DOMAIN users : users'[m] = users[m]
  BY <1>1
<1>3. Accounts'
  BY <1>1, <1>2 DEF UsersIInv, Accounts, Account
<1>4. \A m : MayAdminister(m) => MayAdminister(m)'
  BY <1>2 DEF MayAdminister, Exists
<1>5. CallersAreAdmins' /\ AnAdminRemains'
  BY <1>1, <1>2, <1>4 DEF UsersIInv, CallersAreAdmins, Harmless, AnAdminRemains
<1> QED BY <1>3, <1>5 DEF UsersIInv

LEMMA CheckUpdateIInv ==
  ASSUME UsersIInv, NEW a \in Names, NEW n \in Names, NEW b \in Body, CheckUpdate(a, n, b)
  PROVE  UsersIInv'
<1> DEFINE u == [actor |-> a, target |-> n, body |-> NetBody(users[n], b)]
<1>1. /\ MayAdminister(a) /\ n \in DOMAIN users /\ ChecksPass(a, n, b)
      /\ updates' = updates \cup {u} /\ UNCHANGED <<users, crossed>>
  BY DEF CheckUpdate, Exists
<1>2. Accounts'
  <2>1. u.body.active \in {"yes", "no", Unchanged}
    BY DEF NetBody, Body
  <2> QED BY <1>1, <2>1 DEF UsersIInv, Accounts
<1>3. \A m : MayAdminister(m)' <=> MayAdminister(m)
  BY <1>1 DEF MayAdminister, Exists
<1>4. Harmless(u)
  BY <1>1 DEF Harmless, ChecksPass, NetBody, Unchanged
<1>5. MayAdminister(u.actor)
  BY <1>1
<1> HIDE DEF u
<1>6. CallersAreAdmins'
  <2> SUFFICES ASSUME ~crossed, NEW v \in updates' PROVE MayAdminister(v.actor) /\ Harmless(v)
    BY <1>1, <1>3 DEF CallersAreAdmins
  <2> QED BY <1>1, <1>4, <1>5 DEF UsersIInv, CallersAreAdmins
<1>7. AnAdminRemains'
  BY <1>1, <1>3 DEF UsersIInv, AnAdminRemains
<1> QED BY <1>2, <1>6, <1>7 DEF UsersIInv

LEMMA CommitUpdateIInv == ASSUME UsersIInv, NEW u \in updates, CommitUpdate(u) PROVE UsersIInv'
<1> DEFINE new == [role |-> IF u.body.role = Unchanged THEN users[u.target].role ELSE u.body.role,
                   active |-> IF u.body.active = Unchanged THEN users[u.target].active
                              ELSE u.body.active = "yes"]
<1>1. /\ users' = [users EXCEPT ![u.target] = new] /\ updates' = updates \ {u}
      /\ crossed' = (crossed \/ updates # {u})
  BY DEF CommitUpdate
<1>2. u.target \in DOMAIN users
  BY DEF UsersIInv, Accounts
<1>3. /\ DOMAIN users' = DOMAIN users /\ users'[u.target] = new
      /\ \A m \in DOMAIN users \ {u.target} : users'[m] = users[m]
  BY <1>1, <1>2
<1>4. new.active \in BOOLEAN
  BY <1>2 DEF UsersIInv, Accounts
<1>5. Accounts'
  <2>1. users' = [m \in DOMAIN users' |-> users'[m]]
    BY <1>1
  <2>2. \A m \in DOMAIN users' : users'[m].active \in BOOLEAN
    BY <1>3, <1>4 DEF UsersIInv, Accounts
  <2> QED BY <1>1, <1>3, <2>1, <2>2 DEF UsersIInv, Accounts
<1>6. CASE crossed'
  BY <1>5, <1>6 DEF UsersIInv, CallersAreAdmins, AnAdminRemains
<1>7. CASE ~crossed'
  <2>1. ~crossed /\ updates' = {}
    BY <1>1, <1>7
  <2>2. CallersAreAdmins'
    BY <2>1 DEF CallersAreAdmins
  <2>3. /\ u.actor \in DOMAIN users /\ users[u.actor].active /\ users[u.actor].role = "admin"
        /\ Harmless(u)
    BY <2>1 DEF UsersIInv, CallersAreAdmins, MayAdminister, Exists
  <2>4. CASE u.target = u.actor
    <3>1. new.role = "admin"
      BY <2>3, <2>4 DEF Harmless
    <3>2. new.active = TRUE
      BY <1>2, <2>3, <2>4 DEF Harmless, UsersIInv, Accounts
    <3>3. MayAdminister(u.actor)'
      BY <1>3, <2>3, <2>4, <3>1, <3>2 DEF MayAdminister, Exists
    <3>4. AnAdminRemains'
      BY <1>3, <2>3, <3>3 DEF AnAdminRemains
    <3> QED BY <1>5, <2>2, <3>4 DEF UsersIInv
  <2>5. CASE u.target # u.actor
    <3>1. MayAdminister(u.actor)'
      BY <1>3, <2>3, <2>5 DEF MayAdminister, Exists
    <3>2. AnAdminRemains'
      BY <1>3, <2>3, <3>1 DEF AnAdminRemains
    <3> QED BY <1>5, <2>2, <3>2 DEF UsersIInv
  <2> QED BY <2>4, <2>5
<1> QED BY <1>6, <1>7

LEMMA UsersStutterIInv == ASSUME UsersIInv, UNCHANGED userVars PROVE UsersIInv'
<1>1. UNCHANGED <<users, updates, crossed>>
  BY DEF userVars
<1>2. \A m : MayAdminister(m)' <=> MayAdminister(m)
  BY <1>1 DEF MayAdminister, Exists
<1> QED BY <1>1, <1>2 DEF UsersIInv, Accounts, CallersAreAdmins, Harmless, AnAdminRemains

\* For every set of accounts: updates that do not overlap, however many and by
\* whom ever, leave an active admin (api/admin_users.py's two self-checks).
THEOREM AdminsLast == UsersSpec => []AnAdminRemains
<1>1. UsersIInv /\ [UsersNext]_userVars => UsersIInv'
  <2> SUFFICES ASSUME UsersIInv, [UsersNext]_userVars PROVE UsersIInv'
    OBVIOUS
  <2> QED BY CreateUserIInv, CheckUpdateIInv, CommitUpdateIInv, UsersStutterIInv DEF UsersNext
<1>2. UsersIInv => AnAdminRemains
  BY DEF UsersIInv
<1> QED BY UsersInitIInv, <1>1, <1>2, PTL DEF UsersSpec

-----------------------------------------------------------------------------
(* The settings.  While no call has committed with another under way,      *)
(* every call's reading is current: it holds the id of the one row, or     *)
(* there is none, and the columns it will write are the ones that its body *)
(* changes.  So a commit finds what it read.                               *)

\* A set of numbers has a least one.
LEMMA LeastNumber ==
  ASSUME NEW S \in SUBSET Nat, S # {}
  PROVE  \E m \in S : \A k \in S : m <= k
<1> DEFINE R == {p \in Nat \X Nat : p[1] < p[2]}
<1>1. IsWellFoundedOn(R, Nat)
  <2>1. OpToRel(<, Nat) = R
    BY Zenon DEF OpToRel
  <2> QED BY <2>1, NatLessThanWellFounded
<1>2. PICK m \in S : \A k \in S : <<k, m>> \notin R
  <2> HIDE DEF R
  <2> QED BY <1>1, WFMin
<1>3. ASSUME NEW k \in S PROVE m <= k
  <2>1. m \in Nat /\ k \in Nat /\ ~(k < m)
    BY <1>2
  <2> QED BY <2>1
<1> QED BY <1>3

Row == [Columns -> Values]

Writable(writes) == DOMAIN writes \subseteq Columns /\ \A c \in DOMAIN writes : writes[c] \in Values

SettingsTypes ==
  /\ settings = [id \in DOMAIN settings |-> settings[id]]
  /\ \A id \in DOMAIN settings : id \in Nat /\ 1 <= id /\ settings[id] \in Row
  /\ nextRow \in Nat /\ nextRow >= 1
  /\ saving = [s \in Savers |-> saving[s]]
  /\ \A s \in Savers :
       saving[s].op = "save" => saving[s].body \in Bodies /\ Writable(saving[s].writes)
  /\ asked \in Row /\ raced \in BOOLEAN

ReadingIsCurrent(s) ==
  saving[s].op # "idle" =>
    /\ saving[s].row = FirstRow
    /\ saving[s].op = "save" => saving[s].writes = NetChange(Effective, saving[s].body)

SettingsIInv ==
  /\ SettingsTypes
  /\ ~raced => \A s \in Savers : ReadingIsCurrent(s)
  /\ EffectiveAsSaved

LEMMA DefaultsAreARow == Defaults \in Row
BY SettingsAssumption DEF Defaults, Row

\* The first row is the only one.
LEMMA OnlyRow ==
  ASSUME SettingsTypes, \A id, other \in DOMAIN settings : id = other
  PROVE  \/ DOMAIN settings = {} /\ FirstRow = NoRow /\ Effective = Defaults
         \/ /\ DOMAIN settings = {FirstRow} /\ FirstRow \in Nat /\ FirstRow # NoRow
            /\ Effective = settings[FirstRow] /\ settings[FirstRow] \in Row
<1>1. CASE DOMAIN settings = {}
  BY <1>1 DEF FirstRow, Effective
<1>2. CASE DOMAIN settings # {}
  <2>1. PICK id \in DOMAIN settings : TRUE
    BY <1>2
  <2>2. DOMAIN settings = {id} /\ id \in Nat /\ 1 <= id /\ settings[id] \in Row
    BY <2>1 DEF SettingsTypes
  <2>3. FirstRow = id
    BY <2>2 DEF FirstRow
  <2> QED BY <2>2, <2>3 DEF Effective, NoRow
<1> QED BY <1>1, <1>2

\* So is the row of a table that holds one.
LEMMA OnlyRowNext ==
  ASSUME NEW id, DOMAIN settings' = {id}, settings'[id] = asked', SettingsTypes'
  PROVE  EffectiveAsSaved'
<1>1. id \in Nat /\ 1 <= id
  BY DEF SettingsTypes
<1>2. FirstRow' = id
  BY <1>1 DEF FirstRow
<1>3. Effective' = asked'
  BY <1>1, <1>2 DEF Effective, NoRow
<1> QED BY <1>3 DEF EffectiveAsSaved

\* Among rows with natural ids there is a first one.
LEMMA EffectiveIsARow == ASSUME SettingsTypes PROVE Effective \in Row
<1>1. CASE DOMAIN settings = {}
  BY <1>1, DefaultsAreARow DEF Effective, FirstRow
<1>2. CASE DOMAIN settings # {}
  <2>1. DOMAIN settings \subseteq Nat
    BY DEF SettingsTypes
  <2>2. PICK first \in DOMAIN settings : \A other \in DOMAIN settings : first <= other
    BY <1>2, <2>1, LeastNumber
  <2>3. FirstRow \in DOMAIN settings
    BY <1>2, <2>2 DEF FirstRow
  <2> QED BY <2>3 DEF Effective, SettingsTypes, NoRow
<1> QED BY <1>1, <1>2

LEMMA BodyFacts ==
  ASSUME NEW body \in Bodies
  PROVE  DOMAIN body \subseteq Columns /\ \A c \in DOMAIN body : body[c] \in Values
BY DEF Bodies

LEMMA WritesAreWritable ==
  ASSUME NEW row \in Row, NEW body \in Bodies
  PROVE  Writable(NetChange(row, body))
BY BodyFacts DEF Writable, NetChange

LEMMA WrittenIsARow ==
  ASSUME NEW row \in Row, NEW writes, Writable(writes)
  PROVE  AfterSave(row, writes) \in Row
BY DEF Writable, AfterSave, Overlay, Row

\* To write what a body changes is to write the body.
LEMMA SavedIsOverlaid ==
  ASSUME NEW row \in Row, NEW body \in Bodies
  PROVE  AfterSave(row, NetChange(row, body)) = Overlay(row, body) /\ Overlay(row, body) \in Row
<1>1. DOMAIN body \subseteq Columns /\ \A c \in DOMAIN body : body[c] \in Values
  BY BodyFacts
<1> DEFINE changed == {c \in DOMAIN body : body[c] # row[c]}
           net == [c \in changed |-> body[c]]
<1>2. NetChange(row, body) = net
  BY DEF NetChange
<1>3. \A c \in Columns : (IF c \in DOMAIN net THEN net[c] ELSE row[c])
                          = (IF c \in DOMAIN body THEN body[c] ELSE row[c])
  BY <1>1
<1>4. Overlay(row, net) = Overlay(row, body)
  BY <1>3 DEF Overlay
<1>5. Overlay(row, body) \in Row
  BY <1>1 DEF Overlay, Row
<1> QED BY <1>2, <1>4, <1>5 DEF AfterSave

LEMMA InitSettingsIInv == SettingsInit => SettingsIInv
<1> SUFFICES ASSUME SettingsInit PROVE SettingsIInv
  OBVIOUS
<1>1. /\ DOMAIN settings = {} /\ settings = [id \in DOMAIN settings |-> settings[id]]
      /\ nextRow = 1 /\ asked = Defaults /\ raced = FALSE
      /\ saving = [s \in Savers |-> Idle]
  BY DEF SettingsInit
<1>2. \A s \in Savers : saving[s].op = "idle"
  BY <1>1 DEF Idle
<1>3. SettingsTypes
  <2>1. saving = [s \in Savers |-> saving[s]]
    BY <1>1
  <2>2. \A s \in Savers : saving[s].op # "save"
    BY <1>2
  <2>3. asked \in Row
    BY <1>1, DefaultsAreARow
  <2>4. \A id \in DOMAIN settings : FALSE
    BY <1>1
  <2>5. nextRow \in Nat /\ nextRow >= 1
    BY <1>1
  <2> QED BY <1>1, <2>1, <2>2, <2>3, <2>4, <2>5, Zenon DEF SettingsTypes
<1>4. Effective = Defaults
  BY <1>1 DEF Effective, FirstRow
<1> QED BY <1>1, <1>2, <1>3, <1>4 DEF SettingsIInv, ReadingIsCurrent, EffectiveAsSaved

\* A call that begins reads what is there and changes nothing.
LEMMA BeginSettingsIInv ==
  ASSUME SettingsIInv, NEW s \in Savers, NEW call,
         saving' = [saving EXCEPT ![s] = call],
         call.op = "save" => /\ call.body \in Bodies /\ Writable(call.writes)
                             /\ call.writes = NetChange(Effective, call.body),
         call.row = FirstRow, UNCHANGED <<settings, nextRow, asked, raced>>
  PROVE  SettingsIInv'
<1>1. \A t \in Savers : saving'[t] = IF t = s THEN call ELSE saving[t]
  BY DEF SettingsIInv, SettingsTypes
<1>2. FirstRow' = FirstRow /\ Effective' = Effective
  BY DEF FirstRow, Effective
<1>3. SettingsTypes'
  BY <1>1 DEF SettingsIInv, SettingsTypes
<1>4. ASSUME ~raced', NEW t \in Savers PROVE ReadingIsCurrent(t)'
  BY <1>1, <1>2, <1>4 DEF SettingsIInv, ReadingIsCurrent
<1>5. EffectiveAsSaved'
  BY <1>2 DEF SettingsIInv, EffectiveAsSaved
<1> QED BY <1>3, <1>4, <1>5 DEF SettingsIInv

\* A call that ends alone leaves no reading behind.
LEMMA FinishedAlone ==
  ASSUME SettingsIInv, NEW s \in Savers, Finish(s), ~raced'
  PROVE  /\ ~raced /\ ReadingIsCurrent(s) /\ EffectiveAsSaved
         /\ \A t \in Savers : saving'[t].op = "idle"
<1>1. ~raced /\ ~Others(s)
  BY DEF Finish, SettingsIInv, SettingsTypes
<1>2. \A t \in Savers : saving'[t] = IF t = s THEN Idle ELSE saving[t]
  BY DEF Finish, SettingsIInv, SettingsTypes
<1>3. \A t \in Savers : saving'[t].op = "idle"
  BY <1>1, <1>2 DEF Others, Idle
<1> QED BY <1>1, <1>3 DEF SettingsIInv

LEMMA FinishTypes ==
  ASSUME SettingsIInv, NEW s \in Savers, Finish(s)
  PROVE  /\ saving' = [t \in Savers |-> saving'[t]] /\ raced' \in BOOLEAN
         /\ \A t \in Savers :
              saving'[t].op = "save" => saving'[t].body \in Bodies /\ Writable(saving'[t].writes)
BY DEF Finish, SettingsIInv, SettingsTypes, Idle

LEMMA InsertRowIInv == ASSUME SettingsIInv, NEW s \in Savers, InsertRow(s) PROVE SettingsIInv'
<1> DEFINE call == saving[s]
           row == AfterSave(Defaults, call.writes)
<1>1. /\ call.op = "save" /\ call.row = NoRow /\ call.body \in Bodies /\ Finish(s)
      /\ settings' = [id \in DOMAIN settings \cup {nextRow} |->
                        IF id = nextRow THEN row ELSE settings[id]]
      /\ nextRow' = nextRow + 1 /\ asked' = Overlay(asked, call.body)
  BY DEF InsertRow, SettingsIInv, SettingsTypes
<1>2. DOMAIN settings' = DOMAIN settings \cup {nextRow} /\ settings'[nextRow] = row
      /\ \A id \in DOMAIN settings \ {nextRow} : settings'[id] = settings[id]
  BY <1>1
<1>3. asked' \in Row
  BY <1>1, SavedIsOverlaid DEF SettingsIInv, SettingsTypes
<1>4. row \in Row
  <2>1. Writable(call.writes)
    BY <1>1 DEF SettingsIInv, SettingsTypes
  <2> QED BY <2>1, WrittenIsARow, DefaultsAreARow
<1>5. SettingsTypes'
  <2>1. nextRow \in Nat /\ nextRow >= 1
        /\ \A id \in DOMAIN settings : id \in Nat /\ 1 <= id /\ settings[id] \in Row
    BY DEF SettingsIInv, SettingsTypes
  <2> HIDE DEF row, call
  <2>2. settings' = [id \in DOMAIN settings' |-> settings'[id]]
    BY <1>1
  <2>3. \A id \in DOMAIN settings' : id \in Nat /\ 1 <= id /\ settings'[id] \in Row
    BY <1>2, <1>4, <2>1
  <2>4. nextRow' \in Nat /\ nextRow' >= 1
    BY <1>1, <2>1
  <2>5. /\ saving' = [t \in Savers |-> saving'[t]] /\ raced' \in BOOLEAN
        /\ \A t \in Savers :
             saving'[t].op = "save" => saving'[t].body \in Bodies /\ Writable(saving'[t].writes)
    BY <1>1, FinishTypes
  <2>6. \A t \in Savers :
          (saving[t].op = "save" => saving[t].body \in Bodies /\ Writable(saving[t].writes))'
    BY <2>5 DEF Writable
  <2> QED BY <1>3, <2>2, <2>3, <2>4, <2>5, <2>6, Zenon DEF SettingsTypes
<1>6. ASSUME ~raced' PROVE EffectiveAsSaved' /\ \A t \in Savers : ReadingIsCurrent(t)'
  <2>1. /\ ~raced /\ ReadingIsCurrent(s) /\ EffectiveAsSaved
        /\ \A t \in Savers : saving'[t].op = "idle"
    BY <1>1, <1>6, FinishedAlone
  <2>2. FirstRow = NoRow /\ call.writes = NetChange(Effective, call.body)
    BY <1>1, <2>1 DEF ReadingIsCurrent
  <2>3. DOMAIN settings = {} /\ Effective = Defaults /\ asked = Defaults
    BY <2>1, <2>2, OnlyRow DEF EffectiveAsSaved, SettingsIInv
  <2>4. row = asked'
    BY <1>1, <2>2, <2>3, SavedIsOverlaid, DefaultsAreARow
  <2>5. DOMAIN settings' = {nextRow} /\ settings'[nextRow] = asked'
    BY <1>2, <2>3, <2>4
  <2>6. EffectiveAsSaved'
    BY <1>5, <2>5, OnlyRowNext
  <2> QED BY <2>1, <2>6 DEF ReadingIsCurrent
<1> QED BY <1>5, <1>6 DEF SettingsIInv, EffectiveAsSaved

LEMMA UpdateRowIInv == ASSUME SettingsIInv, NEW s \in Savers, UpdateRow(s) PROVE SettingsIInv'
<1> DEFINE call == saving[s]
           row == AfterSave(settings[call.row], call.writes)
<1>1. /\ call.op = "save" /\ call.row # NoRow /\ call.body \in Bodies /\ Finish(s)
      /\ UNCHANGED nextRow
  BY DEF UpdateRow, SettingsIInv, SettingsTypes
<1>2. CASE call.row \in DOMAIN settings
  <2>1. settings' = [settings EXCEPT ![call.row] = row] /\ asked' = Overlay(asked, call.body)
    BY <1>2 DEF UpdateRow
  <2>2. /\ DOMAIN settings' = DOMAIN settings /\ settings'[call.row] = row
        /\ \A id \in DOMAIN settings \ {call.row} : settings'[id] = settings[id]
    BY <1>2, <2>1
  <2>3. asked' \in Row
    BY <1>1, <2>1, SavedIsOverlaid DEF SettingsIInv, SettingsTypes
  <2>4. row \in Row
    <3>1. Writable(call.writes) /\ settings[call.row] \in Row
      BY <1>1, <1>2 DEF SettingsIInv, SettingsTypes
    <3> QED BY <3>1, WrittenIsARow
  <2>5. SettingsTypes'
    <3>1. nextRow \in Nat /\ nextRow >= 1
          /\ \A id \in DOMAIN settings : id \in Nat /\ 1 <= id /\ settings[id] \in Row
      BY DEF SettingsIInv, SettingsTypes
    <3> HIDE DEF row, call
    <3>2. settings' = [id \in DOMAIN settings' |-> settings'[id]]
      BY <2>1
    <3>3. \A id \in DOMAIN settings' : id \in Nat /\ 1 <= id /\ settings'[id] \in Row
      BY <2>2, <2>4, <3>1
    <3> QED BY <1>1, <2>3, <3>1, <3>2, <3>3, FinishTypes DEF SettingsTypes
  <2>6. ASSUME ~raced' PROVE EffectiveAsSaved' /\ \A t \in Savers : ReadingIsCurrent(t)'
    <3>1. /\ ~raced /\ ReadingIsCurrent(s) /\ EffectiveAsSaved
          /\ \A t \in Savers : saving'[t].op = "idle"
      BY <1>1, <2>6, FinishedAlone
    <3>2. call.row = FirstRow /\ call.writes = NetChange(Effective, call.body)
      BY <1>1, <3>1 DEF ReadingIsCurrent
    <3>3. DOMAIN settings = {call.row} /\ Effective = settings[call.row] /\ asked = Effective
          /\ settings[call.row] \in Row
      BY <1>2, <3>1, <3>2, OnlyRow DEF EffectiveAsSaved, SettingsIInv
    <3>4. row = asked'
      BY <1>1, <2>1, <3>2, <3>3, SavedIsOverlaid
    <3>5. DOMAIN settings' = {call.row} /\ settings'[call.row] = asked'
      BY <2>2, <3>3, <3>4
    <3>6. EffectiveAsSaved'
      BY <2>5, <3>5, OnlyRowNext
    <3> QED BY <3>1, <3>6 DEF ReadingIsCurrent
  <2> QED BY <2>5, <2>6 DEF SettingsIInv, EffectiveAsSaved
<1>3. CASE call.row \notin DOMAIN settings
  <2>1. UNCHANGED <<settings, asked>>
    BY <1>3 DEF UpdateRow
  <2>2. SettingsTypes'
    BY <1>1, <2>1, FinishTypes DEF SettingsIInv, SettingsTypes
  <2>3. raced'
    <3> SUFFICES ASSUME ~raced' PROVE FALSE
      OBVIOUS
    <3>1. ReadingIsCurrent(s) /\ EffectiveAsSaved /\ ~raced
      BY <1>1, FinishedAlone
    <3>2. call.row = FirstRow
      BY <1>1, <3>1 DEF ReadingIsCurrent
    <3> QED BY <1>1, <1>3, <3>1, <3>2, OnlyRow DEF EffectiveAsSaved, SettingsIInv
  <2> QED BY <2>2, <2>3 DEF SettingsIInv, EffectiveAsSaved
<1> QED BY <1>2, <1>3

LEMMA DeleteRowIInv == ASSUME SettingsIInv, NEW s \in Savers, DeleteRow(s) PROVE SettingsIInv'
<1> DEFINE call == saving[s]
<1>1. /\ call.op = "reset" /\ Finish(s) /\ UNCHANGED nextRow /\ asked' = Defaults
      /\ settings' = [id \in DOMAIN settings \ {call.row} |-> settings[id]]
  BY DEF DeleteRow
<1>2. /\ DOMAIN settings' = DOMAIN settings \ {call.row}
      /\ \A id \in DOMAIN settings' : settings'[id] = settings[id]
  BY <1>1
<1>3. SettingsTypes'
  BY <1>1, <1>2, FinishTypes, DefaultsAreARow DEF SettingsIInv, SettingsTypes
<1>4. ASSUME ~raced' PROVE EffectiveAsSaved' /\ \A t \in Savers : ReadingIsCurrent(t)'
  <2>1. /\ ~raced /\ ReadingIsCurrent(s) /\ EffectiveAsSaved
        /\ \A t \in Savers : saving'[t].op = "idle"
    BY <1>1, <1>4, FinishedAlone
  <2>2. call.row = FirstRow
    BY <1>1, <2>1 DEF ReadingIsCurrent
  <2>3. DOMAIN settings' = {}
    BY <1>2, <2>1, <2>2, OnlyRow DEF EffectiveAsSaved, SettingsIInv
  <2>4. Effective' = Defaults
    BY <2>3 DEF Effective, FirstRow
  <2> QED BY <1>1, <2>1, <2>3, <2>4 DEF ReadingIsCurrent, EffectiveAsSaved
<1> QED BY <1>3, <1>4 DEF SettingsIInv, EffectiveAsSaved

LEMMA SettingsStutterIInv == ASSUME SettingsIInv, UNCHANGED settingsVars PROVE SettingsIInv'
<1>1. UNCHANGED <<settings, nextRow, saving, asked, raced>>
  BY DEF settingsVars
<1>2. FirstRow' = FirstRow /\ Effective' = Effective
  BY <1>1 DEF FirstRow, Effective
<1> QED BY <1>1, <1>2 DEF SettingsIInv, SettingsTypes, ReadingIsCurrent, EffectiveAsSaved

\* Unless two calls overlapped, the table holds one row at most and what is read
\* is what was saved (the "single-row upsert" of validation_policy_service.py).
THEOREM OneRowAsSaved == SettingsSpec => []EffectiveAsSaved
<1>1. SettingsIInv /\ [SettingsNext]_settingsVars => SettingsIInv'
  <2> SUFFICES ASSUME SettingsIInv, [SettingsNext]_settingsVars PROVE SettingsIInv'
    OBVIOUS
  <2>1. ASSUME NEW s \in Savers, NEW body \in Bodies, BeginSave(s, body) PROVE SettingsIInv'
    <3> DEFINE call == [op |-> "save", row |-> FirstRow, body |-> body,
                        writes |-> NetChange(Effective, body)]
    <3>1. saving' = [saving EXCEPT ![s] = call] /\ UNCHANGED <<settings, nextRow, asked, raced>>
      BY <2>1 DEF BeginSave
    <3>2. Effective \in Row
      BY EffectiveIsARow DEF SettingsIInv
    <3>3. Writable(NetChange(Effective, body))
      BY <3>2, WritesAreWritable
    <3>4. /\ call.op = "save" => /\ call.body \in Bodies /\ Writable(call.writes)
                                  /\ call.writes = NetChange(Effective, call.body)
          /\ call.row = FirstRow
      BY <3>3
    <3> HIDE DEF call
    <3> QED BY <3>1, <3>4, BeginSettingsIInv
  <2>2. ASSUME NEW s \in Savers, BeginReset(s) PROVE SettingsIInv'
    <3> DEFINE call == [op |-> "reset", row |-> FirstRow, body |-> Nothing, writes |-> Nothing]
    <3>1. saving' = [saving EXCEPT ![s] = call] /\ UNCHANGED <<settings, nextRow, asked, raced>>
      BY <2>2 DEF BeginReset
    <3>2. call.op # "save" /\ call.row = FirstRow
      OBVIOUS
    <3> HIDE DEF call
    <3> QED BY <3>1, <3>2, BeginSettingsIInv
  <2>3. CASE UNCHANGED settingsVars
    BY <2>3, SettingsStutterIInv
  <2> QED BY <2>1, <2>2, <2>3, InsertRowIInv, UpdateRowIInv, DeleteRowIInv DEF SettingsNext
<1>2. SettingsIInv => EffectiveAsSaved
  BY DEF SettingsIInv
<1> QED BY <1>1, <1>2, InitSettingsIInv, PTL DEF SettingsSpec

-----------------------------------------------------------------------------
(* The host clusters.  Two defaults do stand between a commit and the      *)
(* clearing that follows it, so the invariant says more of them: one of    *)
(* any two has a call that will clear the other.                           *)
(* Nothing bounds the calls: MaxHostCalls is not used.                     *)

\* A row and the tests under way of it speak of one kubeconfig.
TestsAgree ==
  \A i \in DOMAIN hosts \ crossedRows :
    /\ hosts[i].test.kubeconfig = hosts[i].kubeconfig
    /\ \A x \in hostCalls : x.op = "test" /\ x.id = i => x.test.kubeconfig = hosts[i].kubeconfig

\* An update has tested the kubeconfig that it brings.
UpdatesAreTested ==
  \A x \in hostCalls :
    x.op = "update" => x.kubeconfig = Omitted \/ x.test.kubeconfig = x.kubeconfig

\* A call for row i has yet to list the defaults, or has listed j.
WillClear(i, j) ==
  \E x \in hostCalls : x.id = i /\ (x.op = "clear" \/ (x.op = "clearing" /\ j \in x.others))

Rivals(i, j) == i # j /\ hosts[i].default /\ hosts[j].default

OneWillClear ==
  \A i, j \in DOMAIN hosts \ crossedRows : Rivals(i, j) => WillClear(i, j) \/ WillClear(j, i)

HostsIInv == TestsAgree /\ UpdatesAreTested /\ OneWillClear

LEMMA HostsInitIInv == HostsInit => HostsIInv
<1> SUFFICES ASSUME HostsInit PROVE HostsIInv
  OBVIOUS
<1>1. DOMAIN hosts = {} /\ hostCalls = {}
  BY DEF HostsInit
<1> QED BY <1>1 DEF HostsIInv, TestsAgree, UpdatesAreTested, OneWillClear

\* What a commit needs to know of the row that it writes.
LEMMA CommitIInv ==
  ASSUME HostsIInv, NEW call, NEW id, NEW row, Commit(call, id, row),
         call.op \in {"create", "update", "test"},
         id \notin crossedRows => row.test.kubeconfig = row.kubeconfig,
         call.op = "test" => id \in DOMAIN hosts /\ row.default = hosts[id].default
  PROVE  HostsIInv'
<1> DEFINE clear == [op |-> "clear", id |-> id]
<1>1. /\ DOMAIN hosts' = DOMAIN hosts \cup {id} /\ hosts'[id] = row
      /\ \A i \in DOMAIN hosts \ {id} : hosts'[i] = hosts[i]
  BY DEF Commit, Put
<1>2. /\ hostCalls' \subseteq (hostCalls \ {call}) \cup {clear}
      /\ hostCalls \ {call} \subseteq hostCalls'
      /\ row.default /\ call.op # "test" => clear \in hostCalls'
  BY DEF Commit
<1>3. clear.op = "clear" /\ clear.id = id
  OBVIOUS
<1>4. /\ crossedRows \subseteq crossedRows'
      /\ id \notin crossedRows' => \A x \in hostCalls \ {call} : x.id = id => x.op # "test"
  BY DEF Commit, InHand
<1> HIDE DEF clear
<1>5. TestsAgree'
  <2> SUFFICES ASSUME NEW i \in DOMAIN hosts' \ crossedRows'
               PROVE  /\ hosts'[i].test.kubeconfig = hosts'[i].kubeconfig
                      /\ \A x \in hostCalls' : x.op = "test" /\ x.id = i =>
                           x.test.kubeconfig = hosts'[i].kubeconfig
    BY DEF TestsAgree
  <2>1. CASE i = id
    BY <1>1, <1>2, <1>3, <1>4, <2>1
  <2>2. CASE i # id
    BY <1>1, <1>2, <1>3, <1>4, <2>2 DEF HostsIInv, TestsAgree
  <2> QED BY <2>1, <2>2
<1>6. UpdatesAreTested'
  BY <1>2, <1>3 DEF HostsIInv, UpdatesAreTested
<1>7. ASSUME NEW i, NEW j, WillClear(i, j) PROVE WillClear(i, j)'
  BY <1>2, <1>7 DEF WillClear
<1>8. call.op # "test" /\ row.default => \A j : WillClear(id, j)'
  BY <1>2, <1>3 DEF WillClear
<1>9. OneWillClear'
  <2> SUFFICES ASSUME NEW i \in DOMAIN hosts' \ crossedRows', NEW j \in DOMAIN hosts' \ crossedRows',
                      Rivals(i, j)'
               PROVE  WillClear(i, j)' \/ WillClear(j, i)'
    BY DEF OneWillClear
  <2>1. CASE call.op # "test" /\ id \in {i, j}
    BY <1>1, <1>8, <2>1 DEF Rivals
  <2>2. CASE call.op = "test" \/ id \notin {i, j}
    <3>1. i \in DOMAIN hosts \ crossedRows /\ j \in DOMAIN hosts \ crossedRows /\ Rivals(i, j)
      BY <1>1, <1>4, <2>2 DEF Rivals
    <3> QED BY <1>7, <3>1 DEF HostsIInv, OneWillClear
  <2> QED BY <2>1, <2>2
<1> QED BY <1>5, <1>6, <1>9 DEF HostsIInv

LEMMA CreateHostIInv ==
  ASSUME HostsIInv, NEW id, NEW k, NEW c, NEW d, CreateHost(id, k, c, d) PROVE HostsIInv'
<1> DEFINE row == [kubeconfig |-> k, context |-> c, default |-> d, test |-> TestOf(k, c)]
<1>1. Commit(NewCall(id), id, row) /\ NewCall(id).op = "create"
  BY DEF CreateHost, NewCall
<1>2. row.test.kubeconfig = row.kubeconfig
  BY DEF TestOf
<1> HIDE DEF row
<1> QED BY <1>1, <1>2, CommitIInv

\* A call that begins changes no row.
LEMMA HostsBeginIInv ==
  ASSUME HostsIInv, NEW call, Begin(call),
         \/ call.op = "update" /\ (call.kubeconfig = Omitted \/ call.test.kubeconfig = call.kubeconfig)
         \/ call.op = "test" /\ call.test.kubeconfig = hosts[call.id].kubeconfig
  PROVE  HostsIInv'
<1>1. UNCHANGED <<hosts, crossedRows>> /\ hostCalls' = hostCalls \cup {call}
  BY DEF Begin
<1>2. TestsAgree' /\ UpdatesAreTested'
  BY <1>1 DEF HostsIInv, TestsAgree, UpdatesAreTested
<1>3. OneWillClear'
  BY <1>1 DEF HostsIInv, OneWillClear, WillClear, Rivals
<1> QED BY <1>2, <1>3 DEF HostsIInv

LEMMA BeginUpdateIInv ==
  ASSUME HostsIInv, NEW id, NEW k, NEW c, NEW d, BeginUpdate(id, k, c, d) PROVE HostsIInv'
<1> DEFINE tested == TestOf(k, IF c \in Contexts THEN c ELSE hosts[id].context)
           call == [op |-> "update", id |-> id, kubeconfig |-> k,
                    context |-> IF AfterUpdate(c, hosts[id].context) = hosts[id].context THEN Omitted ELSE c,
                    default |-> IF (d = "yes") = hosts[id].default THEN Omitted ELSE d,
                    test |-> tested]
<1>1. Begin(call)
  BY DEF BeginUpdate
<1>2. tested.kubeconfig = k
  BY DEF TestOf
<1>3. call.op = "update" /\ call.test.kubeconfig = call.kubeconfig
  BY <1>2
<1> HIDE DEF call
<1> QED BY <1>1, <1>3, HostsBeginIInv

LEMMA BeginTestIInv == ASSUME HostsIInv, NEW id, BeginTest(id) PROVE HostsIInv'
<1> DEFINE tested == TestOf(hosts[id].kubeconfig, hosts[id].context)
           call == [op |-> "test", id |-> id, test |-> tested]
<1>1. Begin(call)
  BY DEF BeginTest
<1>2. tested.kubeconfig = hosts[id].kubeconfig
  BY DEF TestOf
<1>3. call.op = "test" /\ call.id = id /\ call.test.kubeconfig = hosts[id].kubeconfig
  BY <1>2
<1> HIDE DEF call
<1> QED BY <1>1, <1>3, HostsBeginIInv

LEMMA EndUpdateIInv == ASSUME HostsIInv, NEW call \in hostCalls, EndUpdate(call) PROVE HostsIInv'
<1> DEFINE old == hosts[call.id]
           row == [kubeconfig |-> IF call.kubeconfig = Omitted THEN old.kubeconfig ELSE call.kubeconfig,
                   context |-> AfterUpdate(call.context, old.context),
                   default |-> IF call.default = Omitted THEN old.default ELSE call.default = "yes",
                   test |-> TestAfterUpdate(old, call)]
<1>1. Commit(call, call.id, row) /\ call.op = "update" /\ call.id \in DOMAIN hosts
  BY DEF EndUpdate
<1>2. row.test.kubeconfig = IF call.kubeconfig = Omitted THEN old.test.kubeconfig ELSE call.test.kubeconfig
  BY DEF TestAfterUpdate
<1>3. row.kubeconfig = IF call.kubeconfig = Omitted THEN old.kubeconfig ELSE call.kubeconfig
  OBVIOUS
<1>4. call.id \notin crossedRows => old.test.kubeconfig = old.kubeconfig
  BY <1>1 DEF HostsIInv, TestsAgree
<1>5. call.kubeconfig = Omitted \/ call.test.kubeconfig = call.kubeconfig
  BY <1>1 DEF HostsIInv, UpdatesAreTested
<1> HIDE DEF row, old
<1> QED BY <1>1, <1>2, <1>3, <1>4, <1>5, CommitIInv

LEMMA EndTestIInv == ASSUME HostsIInv, NEW call \in hostCalls, EndTest(call) PROVE HostsIInv'
<1> DEFINE old == hosts[call.id]
           row == [old EXCEPT !.test = call.test]
<1>1. Commit(call, call.id, row) /\ call.op = "test" /\ call.id \in DOMAIN hosts
  BY DEF EndTest
<1>2. row.kubeconfig = old.kubeconfig /\ row.default = old.default
  OBVIOUS
<1>3. call.id \notin crossedRows => row.test.kubeconfig = row.kubeconfig
  BY <1>1 DEF HostsIInv, TestsAgree
<1> HIDE DEF row
<1> QED BY <1>1, <1>2, <1>3, CommitIInv

LEMMA RowGoneIInv == ASSUME HostsIInv, NEW call \in hostCalls, RowGone(call) PROVE HostsIInv'
<1>1. /\ UNCHANGED <<hosts, crossedRows>> /\ hostCalls' = hostCalls \ {call}
      /\ call.op \notin {"clear", "clearing"}
  BY DEF RowGone
<1>2. TestsAgree' /\ UpdatesAreTested'
  BY <1>1 DEF HostsIInv, TestsAgree, UpdatesAreTested
<1>3. OneWillClear'
  BY <1>1 DEF HostsIInv, OneWillClear, WillClear, Rivals
<1> QED BY <1>2, <1>3 DEF HostsIInv

LEMMA ListOtherDefaultsIInv == ASSUME HostsIInv, NEW call \in hostCalls, ListOtherDefaults(call) PROVE HostsIInv'
<1> DEFINE listed == [op |-> "clearing", id |-> call.id,
                      others |-> {i \in DOMAIN hosts \ {call.id} : hosts[i].default}]
<1>1. /\ UNCHANGED <<hosts, crossedRows>> /\ hostCalls' = (hostCalls \ {call}) \cup {listed}
      /\ call.op = "clear"
  BY DEF ListOtherDefaults
<1>2. /\ listed.op = "clearing" /\ listed.id = call.id
      /\ \A i \in DOMAIN hosts \ {call.id} : hosts[i].default => i \in listed.others
  OBVIOUS
<1> HIDE DEF listed
<1>3. TestsAgree' /\ UpdatesAreTested'
  BY <1>1, <1>2 DEF HostsIInv, TestsAgree, UpdatesAreTested
<1>4. ASSUME NEW i \in DOMAIN hosts, NEW j \in DOMAIN hosts, Rivals(i, j), WillClear(i, j)
      PROVE  WillClear(i, j)'
  BY <1>1, <1>2, <1>4 DEF WillClear, Rivals
<1>5. \A i, j : Rivals(i, j)' => Rivals(i, j) /\ Rivals(j, i)
  BY <1>1 DEF Rivals
<1>6. OneWillClear'
  BY <1>1, <1>4, <1>5 DEF HostsIInv, OneWillClear
<1> QED BY <1>3, <1>6 DEF HostsIInv

LEMMA ClearOtherDefaultsIInv == ASSUME HostsIInv, NEW call \in hostCalls, ClearOtherDefaults(call) PROVE HostsIInv'
<1>1. hostCalls' = hostCalls \ {call} /\ call.op = "clearing"
  BY DEF ClearOtherDefaults
<1>2. CASE ~(call.others \subseteq DOMAIN hosts)
  <2>1. hosts' = hosts /\ crossedRows' = crossedRows \cup {call.id}
    BY <1>2 DEF ClearOtherDefaults
  <2>2. TestsAgree' /\ UpdatesAreTested'
    BY <1>1, <2>1 DEF HostsIInv, TestsAgree, UpdatesAreTested
  <2>3. OneWillClear'
    BY <1>1, <2>1 DEF HostsIInv, OneWillClear, WillClear, Rivals
  <2> QED BY <2>2, <2>3 DEF HostsIInv
<1>3. CASE call.others \subseteq DOMAIN hosts
  <2>1. /\ crossedRows' = crossedRows
        /\ hosts' = [i \in DOMAIN hosts |->
                       IF i \in call.others THEN [hosts[i] EXCEPT !.default = FALSE] ELSE hosts[i]]
    BY <1>3 DEF ClearOtherDefaults
  <2>2. /\ DOMAIN hosts' = DOMAIN hosts
        /\ \A i \in DOMAIN hosts :
             /\ hosts'[i].kubeconfig = hosts[i].kubeconfig /\ hosts'[i].test = hosts[i].test
             /\ i \notin call.others => hosts'[i] = hosts[i]
    BY <2>1
  <2>3. TestsAgree' /\ UpdatesAreTested'
    BY <1>1, <2>1, <2>2 DEF HostsIInv, TestsAgree, UpdatesAreTested
  <2>4. ASSUME NEW i \in DOMAIN hosts, i \in call.others PROVE ~hosts'[i].default
    <3>1. hosts'[i] = [hosts[i] EXCEPT !.default = FALSE]
      BY <2>1, <2>4
    <3> QED BY <3>1
  <2>5. OneWillClear'
    <3> SUFFICES ASSUME NEW i \in DOMAIN hosts \ crossedRows, NEW j \in DOMAIN hosts \ crossedRows,
                        Rivals(i, j)'
                 PROVE  WillClear(i, j)' \/ WillClear(j, i)'
      BY <2>1, <2>2 DEF OneWillClear
    <3>1. i \notin call.others /\ j \notin call.others
      BY <2>4 DEF Rivals
    <3>2. Rivals(i, j)
      BY <2>2, <3>1 DEF Rivals
    <3> QED BY <1>1, <3>1, <3>2 DEF HostsIInv, OneWillClear, WillClear
  <2> QED BY <2>3, <2>5 DEF HostsIInv
<1> QED BY <1>2, <1>3

LEMMA DeleteHostIInv == ASSUME HostsIInv, NEW id \in DOMAIN hosts, DeleteHost(id) PROVE HostsIInv'
<1>1. /\ UNCHANGED <<hostCalls, crossedRows>> /\ DOMAIN hosts' = DOMAIN hosts \ {id}
      /\ \A i \in DOMAIN hosts' : hosts'[i] = hosts[i]
  BY DEF DeleteHost
<1>2. TestsAgree' /\ UpdatesAreTested'
  BY <1>1 DEF HostsIInv, TestsAgree, UpdatesAreTested
<1>3. OneWillClear'
  BY <1>1 DEF HostsIInv, OneWillClear, WillClear, Rivals
<1> QED BY <1>2, <1>3 DEF HostsIInv

LEMMA HostsStutterIInv == ASSUME HostsIInv, UNCHANGED hostVars PROVE HostsIInv'
  BY DEF hostVars, HostsIInv, TestsAgree, UpdatesAreTested, OneWillClear, WillClear, Rivals

\* For every number of rows and overlapping calls: a row's last test was of the
\* kubeconfig it holds, unless another call wrote the row meanwhile, and at rest
\* one row at most is the default, but for calls that failed on the way
\* (repositories/host_clusters.py clear_other_defaults).
THEOREM HostsSettled == HostsSpec => []HostsSettle
<1>1. HostsIInv /\ [HostsNext]_hostVars => HostsIInv'
  <2> SUFFICES ASSUME HostsIInv, [HostsNext]_hostVars PROVE HostsIInv'
    OBVIOUS
  <2>1. CASE HostsNext
    BY <2>1, CreateHostIInv, BeginUpdateIInv, BeginTestIInv, EndUpdateIInv, EndTestIInv, RowGoneIInv,
       ListOtherDefaultsIInv, ClearOtherDefaultsIInv, DeleteHostIInv DEF HostsNext
  <2> QED BY <2>1, HostsStutterIInv
<1>2. HostsIInv => HostsSettle
  <2> SUFFICES ASSUME HostsIInv PROVE HostsSettle
    OBVIOUS
  <2>1. \A i \in DOMAIN hosts \ crossedRows : hosts[i].test.kubeconfig = hosts[i].kubeconfig
    BY DEF HostsIInv, TestsAgree
  <2>2. hostCalls = {} =>
          \A i, j \in DOMAIN hosts \ crossedRows : hosts[i].default /\ hosts[j].default => i = j
    BY DEF HostsIInv, OneWillClear, WillClear, Rivals
  <2> QED BY <2>1, <2>2 DEF HostsSettle
<1> QED BY HostsInitIInv, <1>1, <1>2, PTL DEF HostsSpec
=============================================================================
