--------------------------- MODULE AccountsProofs ---------------------------
(***************************************************************************)
(* Proofs about Accounts for every set of sessions, names and roles.       *)
(*                                                                         *)
(* AccountSurvives is inductive as it stands.  RolesAreAsGiven is not: a   *)
(* role comes into the table from a copy, and a copy from the table of an  *)
(* earlier moment, so the copies are part of the invariant.                *)
(***************************************************************************)
EXTENDS Accounts, TLAPS

\* A copy that is not stale has the role that was last given, unless that is undone in
\* the table too; what is about to be inserted is that copy or a new account.
CopyIsAsGiven(s) ==
    /\ job[s] \in {"in"} \cup Writing /\ s \notin stale
           => given[CopyOf(s).name] \in {CopyOf(s).role, Undone}
    /\ handler[s] = "passwd" => writing[s].name = me[s].name /\ writing[s].role = me[s].role
    /\ handler[s] = "add" => writing[s].role = "Visitor"

Inv == RolesAreAsGiven /\ \A s \in Session : CopyIsAsGiven(s)

-----------------------------------------------------------------------------

\* A User with another password is a User (UserBoard.cpp:260-261).
LEMMA PasswdKeepsType ==
    \A u \in User, default \in BOOLEAN : [u EXCEPT !.isDefault = default] \in User
BY DEF User

\* Every variable keeps its type, and a session has a handler exactly while it writes.
THEOREM TypeCorrect == Spec => []TypeOK
<1> USE NameAssumption, RoleAssumption DEF AllNames, User, Nobody, Unread, Writing, table, history
<1>1. Init => TypeOK
  BY DEF Init, TypeOK
<1>2. ASSUME TypeOK, [Next]_vars PROVE TypeOK'
  <2> USE <1>2 DEF TypeOK
  <2>1. ASSUME NEW s \in Session, OpenDialog(s) PROVE TypeOK'
    BY <2>1 DEF OpenDialog
  <2>2. ASSUME NEW s \in Session, NEW u \in User, Login(s, u) PROVE TypeOK'
    BY <2>2 DEF Login, Copy
  <2>3. ASSUME NEW s \in Session, ShowUserBoard(s) PROVE TypeOK'
    BY <2>3 DEF ShowUserBoard
  <2>4. ASSUME NEW s \in Session, Leave(s) PROVE TypeOK'
    BY <2>4 DEF Leave
  <2>5. ASSUME NEW s \in Session, NEW u \in User, NEW caller \in {"first", "passwd", "add"},
               NEW first \in Writing, Write(s, u, caller, first),
               given' = given, stale' \in SUBSET Session
        PROVE  TypeOK'
    <3>1. writing' \in [Session -> User]
      BY <2>5 DEF Write
    <3>2. handler' \in [Session -> {"none", "first", "passwd", "add"}]
      BY <2>5 DEF Write
    <3>3. job' \in [Session -> {"start", "login", "first", "in"} \cup Writing]
      BY <2>5 DEF Write
    <3>4. ASSUME NEW t \in Session PROVE handler'[t] = "none" <=> job'[t] \notin Writing
      <4>1. CASE t = s
        BY <2>5, <4>1 DEF Write
      <4>2. CASE t # s
        BY <2>5, <4>2 DEF Write
      <4> QED
        BY <4>1, <4>2
    <3>5. UNCHANGED <<table, me, listed, given>> /\ stale' \in SUBSET Session
      BY <2>5 DEF Write
    <3> QED
      BY <3>1, <3>2, <3>3, <3>4, <3>5
  <2>6. ASSUME NEW s \in Session, NEW default \in BOOLEAN, ChangeDefaultPasswd(s, default)
        PROVE  TypeOK'
    <3>1. ASSUME NEW u \in CopyOfAdmin(default) PROVE u \in User
      <4>1. CASE Exists(AdminName)
        <5>1. rows[AdminName] \in Role
          BY <4>1 DEF Exists
        <5>2. u = [name |-> AdminName, role |-> rows[AdminName], isDefault |-> default]
          BY <3>1, <4>1 DEF CopyOfAdmin
        <5> QED
          BY <5>1, <5>2, Zenon
      <4>2. CASE ~Exists(AdminName)
        BY <3>1, <4>2 DEF CopyOfAdmin
      <4> QED
        BY <4>1, <4>2
    <3> QED
      BY <2>5, <2>6, <3>1 DEF ChangeDefaultPasswd, Copy
  <2>7. ASSUME NEW s \in Session, NEW default \in BOOLEAN, CommitModifyPasswd(s, default)
        PROVE  TypeOK'
    <3>1. [me[s] EXCEPT !.isDefault = default] \in User
      BY PasswdKeepsType, me[s] \in User, Zenon
    <3> QED
      BY <2>5, <2>7, <3>1 DEF CommitModifyPasswd
  <2>8. ASSUME NEW s \in Session, NEW n \in AllNames, AddUser(s, n) PROVE TypeOK'
    <3>1. [name |-> n, role |-> "Visitor", isDefault |-> FALSE] \in User
      OBVIOUS
    <3> QED
      BY <2>5, <2>8, <3>1 DEF AddUser
  <2>9. ASSUME NEW s \in Session, NEW n \in AllNames, DelUser(s, n) PROVE TypeOK'
    BY <2>9 DEF DelUser, Give
  <2>10. ASSUME NEW s \in Session, NEW n \in AllNames, NEW r \in Role, SetRole(s, n, r)
         PROVE  TypeOK'
    <3>1. rows' \in [AllNames -> Role \cup {NoRow}]
      BY <2>10 DEF SetRole
    <3>2. given' \in [AllNames -> Role \cup {NoRow, Undone}] /\ stale' \in SUBSET Session
      BY <2>10 DEF SetRole, Give
    <3> QED
      BY <2>10, <3>1, <3>2 DEF SetRole
  <2>11. ASSUME NEW s \in Session, Delete(s) PROVE TypeOK'
    BY <2>11 DEF Delete
  <2>12. ASSUME NEW s \in Session, Insert(s) PROVE TypeOK'
    <3>1. handler' \in [Session -> {"none", "first", "passwd", "add"}] /\ writing' \in [Session -> User]
          /\ job' \in [Session -> {"start", "login", "first", "in"} \cup Writing]
          /\ \A t \in Session : handler'[t] = "none" <=> job'[t] \notin Writing
      BY <2>12 DEF Insert, Return
    <3>2. me' = me
      BY <2>12 DEF Insert, Return
    <3>3. CASE Exists(writing[s].name)
      <4>1. UNCHANGED <<table, listed, given>> /\ stale' \in SUBSET Session
        BY <2>12, <3>3 DEF Insert, Drop
      <4> QED
        BY <3>1, <3>2, <4>1
    <3>4. CASE ~Exists(writing[s].name)
      <4>1. InsertSucceeds(s)
        BY <2>12, <3>4 DEF Insert
      <4>2. rows' \in [AllNames -> Role \cup {NoRow}]
        BY <4>1 DEF InsertSucceeds
      <4>3. isDefault' \in BOOLEAN
        BY <4>1, Zenon DEF InsertSucceeds
      <4>4. listed' \in [Session -> SUBSET AllNames]
        BY <4>1 DEF InsertSucceeds
      <4>5. given' \in [AllNames -> Role \cup {NoRow, Undone}]
        BY <4>1 DEF InsertSucceeds, Give, WriteBack
      <4>6. stale' \in SUBSET Session
        BY <4>1 DEF InsertSucceeds, Give, WriteBack, Drop
      <4> QED
        BY <3>1, <3>2, <4>2, <4>3, <4>4, <4>5, <4>6
    <3> QED
      BY <3>3, <3>4
  <2>13. CASE Crash
    BY <2>13 DEF Crash
  <2>14. CASE UNCHANGED vars
    BY <2>14 DEF vars
  <2> HIDE DEF TypeOK
  <2> QED
    BY <2>1, <2>2, <2>3, <2>4, <2>6, <2>7, <2>8, <2>9, <2>10, <2>11, <2>12, <2>13, <2>14
       DEF Next, View, Edit
<1> QED
  BY <1>1, <1>2, PTL DEF Spec

-----------------------------------------------------------------------------

\* No order of the statements of several sessions loses an account: it is in the
\* table, or a session will insert it, or finds at its insert that another has.
THEOREM AccountsSurvive == Spec => []AccountSurvives
<1> DEFINE Kept(s, n) == job[s] \in {"addUser", "insert"} /\ writing[s].name = n
<1>1. Init => AccountSurvives
  BY NameAssumption, RoleAssumption DEF Init, AccountSurvives, Exists, AllNames
<1>2. ASSUME TypeOK, AccountSurvives, [Next]_vars PROVE AccountSurvives'
  <2>2. SUFFICES ASSUME NEW n \in AllNames, given'[n] # NoRow
                 PROVE  rows'[n] # NoRow \/ \E s \in Session : Kept(s, n)'
    BY DEF AccountSurvives, Exists
  <2>3. ASSUME given[n] # NoRow, rows'[n] = rows[n] \/ rows'[n] # NoRow,
               \A s \in Session : Kept(s, n) => Kept(s, n)'
        PROVE  rows'[n] # NoRow \/ \E s \in Session : Kept(s, n)'
    BY <1>2, <2>3 DEF AccountSurvives, Exists
  <2>4. ASSUME NEW s \in Session, job[s] \in {"start", "login", "first", "in"},
               job' = [job EXCEPT ![s] = job'[s]], writing' = [writing EXCEPT ![s] = writing'[s]]
        PROVE  \A t \in Session : Kept(t, n) => Kept(t, n)'
    BY <1>2, <2>4 DEF TypeOK
  <2>5. ASSUME NEW s \in Session, View(s) PROVE \E t \in Session : Kept(t, n)' \/ rows'[n] # NoRow
    <3>1. /\ job[s] \in {"start", "login", "first", "in"} /\ rows' = rows /\ given' = given
          /\ job' = [job EXCEPT ![s] = job'[s]] /\ writing' = [writing EXCEPT ![s] = writing'[s]]
      BY <1>2, <2>5 DEF View, OpenDialog, Login, Copy, ShowUserBoard, Leave, TypeOK, table, history
    <3> QED
      BY <2>2, <2>3, <2>4, <3>1
  <2>6. ASSUME NEW s \in Session, NEW u, NEW caller, NEW first, Write(s, u, caller, first),
               job[s] \in {"first", "in"}, given' = given
        PROVE  \E t \in Session : Kept(t, n)' \/ rows'[n] # NoRow
    <3>1. /\ rows' = rows /\ given' = given
          /\ job' = [job EXCEPT ![s] = job'[s]] /\ writing' = [writing EXCEPT ![s] = writing'[s]]
      BY <1>2, <2>6 DEF Write, TypeOK, table
    <3> QED
      BY <2>2, <2>3, <2>4, <2>6, <3>1
  <2>7. ASSUME NEW s \in Session, Edit(s)
        PROVE  \E t \in Session : Kept(t, n)' \/ rows'[n] # NoRow
    <3>1. ASSUME NEW default \in BOOLEAN, ChangeDefaultPasswd(s, default)
          PROVE  \E t \in Session : Kept(t, n)' \/ rows'[n] # NoRow
      BY <2>6, <3>1 DEF ChangeDefaultPasswd, Copy
    <3>2. ASSUME NEW default \in BOOLEAN, CommitModifyPasswd(s, default)
          PROVE  \E t \in Session : Kept(t, n)' \/ rows'[n] # NoRow
      BY <2>6, <3>2 DEF CommitModifyPasswd, history
    <3>3. ASSUME NEW m \in AllNames, AddUser(s, m)
          PROVE  \E t \in Session : Kept(t, n)' \/ rows'[n] # NoRow
      BY <2>6, <3>3 DEF AddUser, Managing, history
    <3>4. ASSUME NEW m \in AllNames, DelUser(s, m)
          PROVE  \E t \in Session : Kept(t, n)' \/ rows'[n] # NoRow
      <4>1. given[n] # NoRow /\ n # m /\ UNCHANGED <<job, writing>>
        BY <1>2, <2>2, <3>4 DEF DelUser, Give, TypeOK
      <4>2. rows'[n] = rows[n]
        BY <1>2, <3>4, <4>1 DEF DelUser, TypeOK
      <4> QED
        BY <2>3, <4>1, <4>2
    <3>5. ASSUME NEW m \in AllNames, NEW r \in Role, SetRole(s, m, r)
          PROVE  \E t \in Session : Kept(t, n)' \/ rows'[n] # NoRow
      <4>1. UNCHANGED <<job, writing>>
        BY <3>5 DEF SetRole
      <4>2. rows'[n] = rows[n] \/ rows'[n] # NoRow
        BY <1>2, <3>5, RoleAssumption DEF SetRole, TypeOK
      <4>3. given[n] # NoRow \/ rows'[n] # NoRow
        <5>1. CASE n = m
          BY <1>2, <2>2, <3>5, <5>1, RoleAssumption DEF SetRole, Exists, TypeOK, history
        <5>2. CASE n # m
          BY <1>2, <2>2, <3>5, <5>2 DEF SetRole, Give, TypeOK, history
        <5> QED
          BY <5>1, <5>2
      <4> QED
        BY <2>3, <4>1, <4>2, <4>3
    <3> QED
      BY <2>7, <3>1, <3>2, <3>3, <3>4, <3>5 DEF Edit
  <2>8. ASSUME NEW s \in Session, Delete(s)
        PROVE  \E t \in Session : Kept(t, n)' \/ rows'[n] # NoRow
    <3>1. given[n] # NoRow /\ writing' = writing
      BY <2>2, <2>8 DEF Delete, history
    <3>2. \A t \in Session : Kept(t, n) => Kept(t, n)'
      BY <1>2, <2>8 DEF Delete, TypeOK
    <3>3. CASE writing[s].name = n
      <4>1. Kept(s, n)'
        BY <1>2, <2>8, <3>1, <3>3 DEF Delete, TypeOK
      <4> QED
        BY <4>1
    <3>4. CASE writing[s].name # n
      <4>1. rows'[n] = rows[n]
        BY <1>2, <2>8, <3>1, <3>4 DEF Delete, TypeOK
      <4> QED
        BY <2>3, <3>1, <3>2, <4>1
    <3> QED
      BY <3>3, <3>4
  <2>9. ASSUME NEW s \in Session, Insert(s)
        PROVE  \E t \in Session : Kept(t, n)' \/ rows'[n] # NoRow
    <3>1. /\ writing[s].name \in AllNames /\ writing[s].role \in Role
          /\ rows \in [AllNames -> Role \cup {NoRow}]
      BY <1>2 DEF TypeOK, User
    <3>2. rows'[writing[s].name] # NoRow
      BY <2>9, <3>1, RoleAssumption DEF Insert, InsertSucceeds, Exists, table
    <3>3. CASE writing[s].name # n
      <4>1. given[n] # NoRow
        BY <1>2, <2>2, <2>9, <3>3 DEF Insert, InsertSucceeds, Give, WriteBack, TypeOK
      <4>3. rows'[n] = rows[n]
        BY <2>9, <3>1, <3>3 DEF Insert, InsertSucceeds, table
      <4>2. \A t \in Session : Kept(t, n) => Kept(t, n)'
        BY <1>2, <2>9, <3>3 DEF Insert, Return, TypeOK
      <4> QED
        BY <2>3, <4>1, <4>2, <4>3
    <3> QED
      BY <3>2, <3>3
  <2>10. CASE Crash
    BY <1>2, <2>2, <2>10 DEF Crash, Exists, table, TypeOK
  <2>11. CASE UNCHANGED vars
    BY <2>2, <2>3, <2>11 DEF vars, table, history
  <2> QED
    BY <1>2, <2>5, <2>7, <2>8, <2>9, <2>10, <2>11 DEF Next
<1> QED
  BY <1>1, <1>2, TypeCorrect, PTL DEF Spec

-----------------------------------------------------------------------------

\* The role in a row is the one last given, or a session has since written back a copy
\* that is older than that or that was never read from a row.
THEOREM RolesAreAlwaysAsGiven == Spec => []RolesAreAsGiven
<1> USE NameAssumption, RoleAssumption
<1>1. Init => Inv
  BY DEF Init, Inv, RolesAreAsGiven, CopyIsAsGiven, Exists, Writing, AllNames
<1>2. ASSUME TypeOK, Inv, [Next]_vars PROVE Inv'
  <2>1. /\ RolesAreAsGiven
        /\ \A s \in Session : CopyIsAsGiven(s)
    BY <1>2 DEF Inv
  <2>2. ASSUME NEW s \in Session, rows' = rows, given' = given, CopyIsAsGiven(s)',
               \A t \in Session \ {s} :
                   /\ job'[t] = job[t] /\ me'[t] = me[t]
                   /\ writing'[t] = writing[t] /\ handler'[t] = handler[t]
                   /\ t \in stale => t \in stale'
        PROVE  Inv'
    <3>1. RolesAreAsGiven'
      BY <2>1, <2>2 DEF RolesAreAsGiven, Exists
    <3>2. ASSUME NEW t \in Session \ {s} PROVE CopyIsAsGiven(t)'
      BY <2>1, <2>2 DEF CopyIsAsGiven, CopyOf
    <3> QED
      BY <2>2, <3>1, <3>2 DEF Inv
  \* What a page gives, it gives against older copies.
  <2>3. ASSUME NEW n \in AllNames, NEW r \in Role \cup {NoRow}, Give(n, r),
               UNCHANGED <<job, me, writing, handler>>
        PROVE  \A t \in Session : CopyIsAsGiven(t)'
    <3>1. SUFFICES ASSUME NEW t \in Session PROVE CopyIsAsGiven(t)'
      OBVIOUS
    <3>2. ASSUME job[t] \in {"in"} \cup Writing, t \notin stale'
          PROVE  given'[CopyOf(t).name] \in {CopyOf(t).role, Undone}
      <4>1. t \notin stale /\ CopyOf(t).name # n
        BY <2>3, <3>2 DEF Give, Holds
      <4>2. CopyOf(t).name \in AllNames
        BY <1>2 DEF CopyOf, TypeOK, User
      <4>3. given'[CopyOf(t).name] = given[CopyOf(t).name]
        BY <1>2, <2>3, <4>1, <4>2 DEF Give, TypeOK
      <4> QED
        BY <2>1, <3>2, <4>1, <4>3 DEF CopyIsAsGiven
    <3> QED
      BY <2>1, <2>3, <3>2 DEF CopyIsAsGiven, CopyOf
  <2>4. ASSUME NEW s \in Session, OpenDialog(s) PROVE Inv'
    <3>1. CopyIsAsGiven(s)'
      BY <1>2, <2>1, <2>4 DEF OpenDialog, CopyIsAsGiven, TypeOK, Writing
    <3> QED
      BY <1>2, <2>2, <2>4, <3>1 DEF OpenDialog, TypeOK, table, history
  <2>5. ASSUME NEW s \in Session, NEW u \in User, Login(s, u) PROVE Inv'
    <3>1. /\ handler'[s] = "none" /\ me'[s] = u
          /\ given' = given /\ (u.name \notin Name => s \in stale')
      BY <1>2, <2>5 DEF Login, Copy, TypeOK, Writing
    <3>2. u.name \in Name => given[u.name] \in {u.role, Undone}
      BY <2>1, <2>5 DEF Login, RolesAreAsGiven, AllNames
    <3>3. CopyIsAsGiven(s)'
      BY <3>1, <3>2 DEF CopyIsAsGiven, CopyOf
    <3> QED
      BY <1>2, <2>2, <2>5, <3>1, <3>3 DEF Login, Copy, TypeOK, table
  <2>6. ASSUME NEW s \in Session, ShowUserBoard(s) PROVE Inv'
    <3>1. CopyIsAsGiven(s)'
      BY <2>1, <2>6 DEF ShowUserBoard, CopyIsAsGiven, CopyOf, history
    <3> QED
      BY <2>2, <2>6, <3>1 DEF ShowUserBoard, table, history
  <2>7. ASSUME NEW s \in Session, Leave(s) PROVE Inv'
    <3>1. CopyIsAsGiven(s)'
      BY <1>2, <2>1, <2>7 DEF Leave, CopyIsAsGiven, TypeOK, Writing
    <3> QED
      BY <1>2, <2>2, <2>7, <3>1 DEF Leave, TypeOK, table
  <2>8. ASSUME NEW s \in Session, NEW default, ChangeDefaultPasswd(s, default) PROVE Inv'
    <3>1. PICK u \in CopyOfAdmin(default) : Write(s, u, "first", "modifyUser")
      BY <2>8 DEF ChangeDefaultPasswd
    <3>2. Exists(AdminName) => given[u.name] \in {u.role, Undone}
      <4>1. SUFFICES ASSUME Exists(AdminName) PROVE given[u.name] \in {u.role, Undone}
        OBVIOUS
      <4>2. u.name = AdminName /\ u.role = rows[AdminName]
        BY <4>1 DEF CopyOfAdmin
      <4> QED
        BY <2>1, <4>1, <4>2 DEF RolesAreAsGiven, AllNames
    <3>3. /\ handler'[s] = "first" /\ writing'[s] = u
          /\ given' = given /\ (~Exists(AdminName) => s \in stale')
      BY <1>2, <2>8, <3>1 DEF Write, ChangeDefaultPasswd, Copy, TypeOK
    <3>4. CopyIsAsGiven(s)'
      BY <3>2, <3>3 DEF CopyIsAsGiven, CopyOf
    <3> QED
      BY <1>2, <2>2, <2>8, <3>1, <3>4 DEF Write, ChangeDefaultPasswd, Copy, TypeOK, table
  <2>9. ASSUME NEW s \in Session, NEW default, CommitModifyPasswd(s, default) PROVE Inv'
    <3> DEFINE u == [me[s] EXCEPT !.isDefault = default]
    <3>1. Write(s, u, "passwd", "modifyUser") /\ job[s] = "in" /\ UNCHANGED history
      BY <2>9 DEF CommitModifyPasswd
    <3>2. u.name = me[s].name /\ u.role = me[s].role
      BY <1>2 DEF TypeOK, User
    <3> HIDE DEF u
    <3>3. /\ s \notin stale => given[me[s].name] \in {me[s].role, Undone}
          /\ handler'[s] = "passwd" /\ writing'[s] = u /\ me' = me /\ UNCHANGED <<given, stale>>
      BY <1>2, <2>1, <3>1 DEF CopyIsAsGiven, CopyOf, TypeOK, Writing, Write, history
    <3>4. CopyIsAsGiven(s)'
      BY <3>2, <3>3 DEF CopyIsAsGiven, CopyOf
    <3> QED
      BY <1>2, <2>2, <3>1, <3>4 DEF Write, TypeOK, table, history
  <2>10. ASSUME NEW s \in Session, NEW n \in AllNames, AddUser(s, n) PROVE Inv'
    <3> DEFINE u == [name |-> n, role |-> "Visitor", isDefault |-> FALSE]
    <3>1. Write(s, u, "add", "addUser") /\ job[s] = "in" /\ UNCHANGED history
      BY <2>10 DEF AddUser, Managing
    <3>2. u.role = "Visitor"
      OBVIOUS
    <3> HIDE DEF u
    <3>3. /\ s \notin stale => given[me[s].name] \in {me[s].role, Undone}
          /\ handler'[s] = "add" /\ writing'[s] = u /\ me' = me /\ UNCHANGED <<given, stale>>
      BY <1>2, <2>1, <3>1 DEF CopyIsAsGiven, CopyOf, TypeOK, Writing, Write, history
    <3>4. CopyIsAsGiven(s)'
      BY <3>2, <3>3 DEF CopyIsAsGiven, CopyOf
    <3> QED
      BY <1>2, <2>2, <3>1, <3>4 DEF Write, TypeOK, table, history
  <2>11. ASSUME NEW s \in Session, NEW n \in AllNames, DelUser(s, n) PROVE Inv'
    <3>1. Give(n, NoRow) /\ UNCHANGED <<job, me, writing, handler>>
      BY <2>11 DEF DelUser
    <3>2. RolesAreAsGiven'
      BY <1>2, <2>1, <2>11, <3>1 DEF DelUser, Give, RolesAreAsGiven, Exists, TypeOK
    <3> QED
      BY <2>3, <3>1, <3>2 DEF Inv
  <2>12. ASSUME NEW s \in Session, NEW n \in AllNames, NEW r \in Role, SetRole(s, n, r)
         PROVE  Inv'
    <3>1. CASE Exists(n) \/ given[n] # NoRow
      <4>1. Give(n, r) /\ UNCHANGED <<job, me, writing, handler>>
        BY <2>12, <3>1 DEF SetRole
      <4>2. RolesAreAsGiven'
        BY <1>2, <2>1, <2>12, <4>1 DEF SetRole, Give, RolesAreAsGiven, Exists, TypeOK
      <4> QED
        BY <2>3, <4>1, <4>2 DEF Inv
    <3>2. CASE ~(Exists(n) \/ given[n] # NoRow)
      <4>1. UNCHANGED <<rows, job, me, writing, handler, history>>
        BY <2>12, <3>2 DEF SetRole
      <4> QED
        BY <2>1, <4>1 DEF Inv, RolesAreAsGiven, CopyIsAsGiven, CopyOf, Exists, history
    <3> QED
      BY <3>1, <3>2
  <2>13. ASSUME NEW s \in Session, Delete(s) PROVE Inv'
    <3>1. ASSUME NEW n \in AllNames, Exists(n)' PROVE given'[n] \in {rows'[n], Undone}
      <4>1. rows'[n] = rows[n] /\ given' = given
        BY <1>2, <2>13, <3>1 DEF Delete, Exists, TypeOK, history
      <4> QED
        BY <2>1, <3>1, <4>1 DEF RolesAreAsGiven, Exists
    <3>2. \A t \in Session : CopyIsAsGiven(t)'
      BY <1>2, <2>1, <2>13 DEF Delete, CopyIsAsGiven, CopyOf, TypeOK, Writing, history
    <3> QED
      BY <3>1, <3>2 DEF Inv, RolesAreAsGiven
  <2>14. ASSUME NEW s \in Session, Insert(s) PROVE Inv'
    <3> DEFINE u == writing[s]
    <3>1. /\ job[s] = "insert" /\ handler[s] # "none" /\ handler'[s] = "none" /\ me' = me
          /\ job'[s] = (IF handler[s] = "first" THEN "start" ELSE "in")
          /\ \A t \in Session \ {s} :
                 job'[t] = job[t] /\ writing'[t] = writing[t] /\ handler'[t] = handler[t]
      BY <1>2, <2>14 DEF Insert, Return, TypeOK, Writing
    <3>2. u.name \in AllNames /\ u.role \in Role
      BY <1>2 DEF TypeOK, User
    \* What s has afterwards: its copy in me, or none.
    <3>3. ASSUME handler[s] # "first", s \notin stale, given'[me[s].name] = given[me[s].name]
          PROVE  given'[me[s].name] \in {me[s].role, Undone}
      BY <2>1, <3>1, <3>3 DEF CopyIsAsGiven, CopyOf, Writing
    <3>4. CASE Exists(u.name)
      <4>1. UNCHANGED <<rows, me, given>> /\ Drop(s)
        BY <2>14, <3>1, <3>4 DEF Insert, table
      <4>2. CopyIsAsGiven(s)'
        BY <3>1, <3>3, <4>1 DEF CopyIsAsGiven, CopyOf, Drop, Writing
      <4> QED
        BY <2>2, <3>1, <4>1, <4>2 DEF Drop
    <3>5. CASE ~Exists(u.name)
      <4>1. InsertSucceeds(s)
        BY <2>14, <3>5 DEF Insert
      <4>2. rows' = [rows EXCEPT ![u.name] = u.role]
        BY <4>1 DEF InsertSucceeds
      <4>3. CASE handler[s] = "add"
        <5>1. Give(u.name, "Visitor") /\ u.role = "Visitor"
          BY <2>1, <4>1, <4>3 DEF InsertSucceeds, CopyIsAsGiven
        <5>2. RolesAreAsGiven'
          BY <1>2, <2>1, <4>2, <5>1 DEF Give, RolesAreAsGiven, Exists, TypeOK
        <5>3. ASSUME NEW t \in Session, t \notin stale', job[t] \in {"in"} \cup Writing
              PROVE  given'[CopyOf(t).name] \in {CopyOf(t).role, Undone}
          <6>1. t \notin stale /\ CopyOf(t).name # u.name
            BY <5>1, <5>3 DEF Give, Holds
          <6>2. CopyOf(t).name \in AllNames
            BY <1>2 DEF CopyOf, TypeOK, User
          <6>3. given'[CopyOf(t).name] = given[CopyOf(t).name]
            BY <1>2, <5>1, <6>1, <6>2 DEF Give, TypeOK
          <6> QED
            BY <2>1, <5>3, <6>1, <6>3 DEF CopyIsAsGiven
        <5>4. ASSUME NEW t \in Session PROVE CopyIsAsGiven(t)'
          <6>1. CASE t = s
            BY <3>1, <4>3, <5>3, <6>1 DEF CopyIsAsGiven, CopyOf, Writing
          <6>2. CASE t # s
            BY <2>1, <3>1, <5>3, <6>2 DEF CopyIsAsGiven, CopyOf
          <6> QED
            BY <6>1, <6>2
        <5> QED
          BY <5>2, <5>4 DEF Inv
      <4>4. CASE handler[s] # "add"
        <5>1. /\ given' = IF s \in stale THEN [given EXCEPT ![u.name] = Undone] ELSE given
              /\ Drop(s)
          BY <4>1, <4>4 DEF InsertSucceeds, WriteBack
        <5>2. /\ \A n \in AllNames : given'[n] \in {given[n], Undone}
              /\ s \in stale => given'[u.name] = Undone
          BY <1>2, <3>2, <5>1 DEF TypeOK
        <5>3. given'[u.name] \in {u.role, Undone}
          <6>1. CASE s \in stale
            BY <5>2, <6>1
          <6>2. CASE s \notin stale
            <7>1. handler[s] \in {"first", "passwd"}
              BY <1>2, <3>1, <4>4 DEF TypeOK
            <7>2. u.name = CopyOf(s).name /\ u.role = CopyOf(s).role
              BY <2>1, <7>1 DEF CopyIsAsGiven, CopyOf
            <7> QED
              BY <2>1, <3>1, <3>2, <5>2, <6>2, <7>2 DEF CopyIsAsGiven, Writing
          <6> QED
            BY <6>1, <6>2
        <5>4. ASSUME NEW n \in AllNames, Exists(n)' PROVE given'[n] \in {rows'[n], Undone}
          <6>1. CASE n = u.name
            BY <1>2, <4>2, <5>3, <6>1 DEF TypeOK
          <6>2. CASE n # u.name
            <7>1. rows'[n] = rows[n]
              BY <1>2, <4>2, <6>2 DEF TypeOK
            <7> QED
              BY <2>1, <5>2, <5>4, <7>1 DEF RolesAreAsGiven, Exists
          <6> QED
            BY <6>1, <6>2
        <5>5. ASSUME NEW t \in Session, job[t] \in {"in"} \cup Writing, t \notin stale
              PROVE  given'[CopyOf(t).name] \in {CopyOf(t).role, Undone}
          <6>1. CopyOf(t).name \in AllNames
            BY <1>2 DEF CopyOf, TypeOK, User
          <6> QED
            BY <2>1, <5>2, <5>5, <6>1 DEF CopyIsAsGiven
        <5>6. ASSUME NEW t \in Session PROVE CopyIsAsGiven(t)'
          <6>1. CASE t = s
            BY <3>1, <5>1, <5>5, <6>1 DEF CopyIsAsGiven, CopyOf, Drop, Writing
          <6>2. CASE t # s
            BY <2>1, <3>1, <5>1, <5>5, <6>2 DEF CopyIsAsGiven, CopyOf, Drop
          <6> QED
            BY <6>1, <6>2
        <5> QED
          BY <5>4, <5>6 DEF Inv, RolesAreAsGiven
      <4> QED
        BY <4>3, <4>4
    <3> QED
      BY <3>4, <3>5
  <2>15. CASE Crash
    BY <1>2, <2>1, <2>15
       DEF Crash, Inv, RolesAreAsGiven, CopyIsAsGiven, Exists, table, TypeOK, Writing
  <2>16. CASE UNCHANGED vars
    BY <2>1, <2>16 DEF vars, Inv, RolesAreAsGiven, CopyIsAsGiven, CopyOf, Exists, table, history
  <2> QED
    BY <1>2, <2>4, <2>5, <2>6, <2>7, <2>8, <2>9, <2>10, <2>11, <2>12, <2>13, <2>14, <2>15, <2>16
       DEF Next, View, Edit
<1>3. Inv => RolesAreAsGiven
  BY DEF Inv
<1> QED
  BY <1>1, <1>2, <1>3, TypeCorrect, PTL DEF Spec
=============================================================================
