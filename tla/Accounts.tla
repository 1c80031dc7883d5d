------------------------------ MODULE Accounts ------------------------------
(***************************************************************************)
(* The accounts of the management station: the table Users of              *)
(* src/webgui/model/DbProxy.cpp and the sessions that use it, from         *)
(* LoginView.cpp to UserBoard.cpp.                                         *)
(*                                                                         *)
(* A session works on the copy of its user that it read at login.  An      *)
(* account is written by deleting its row and inserting another, each a    *)
(* statement of its own, outside the mutex that runSQL takes: statements   *)
(* of several sessions come in any order, and the process may die between  *)
(* two of them.                                                            *)
(*                                                                         *)
(* Of a password only this is told apart, whether it is the default one of *)
(* the administrator: whoever logs in or changes a password types the old  *)
(* one right.  The zones of an account are left out, nothing here depends  *)
(* on them.                                                                *)
(***************************************************************************)
CONSTANTS
    Session,    \* browser sessions
    Name,       \* names of accounts
    AdminName,  \* "admin"
    NoName,     \* "", the name of a default-constructed User
    Role,       \* User::ROLE; here all but SuperAdmin are alike
    NoRow,      \* no row
    Undone      \* history: what a page told its user does not hold any more

ASSUME NameAssumption == AdminName \in Name /\ NoName \notin Name
ASSUME RoleAssumption == {"SuperAdmin", "Visitor"} \subseteq Role /\ {NoRow, Undone} \cap Role = {}
                         /\ NoRow # Undone

VARIABLES
    rows,       \* Users: the role of each name that has a row
    isDefault,  \* is the password in the administrator's row the default one?
    job,        \* where each session is
    me,         \* _user of each session
    writing,    \* the User that a session's addUser or modifyUser is given
    handler,    \* the handler that called it
    listed,     \* the names that a session's UserBoard lists
    given,      \* history: what a page last told its user of each name: its role, or
                \* that it is deleted; or Undone
    stale       \* history: the sessions whose copy of a user is older than that

table == <<rows, isDefault>>
history == <<given, stale>>
vars == <<table, job, me, writing, handler, listed, history>>

AllNames == Name \cup {NoName}
User == [name : AllNames, role : Role, isDefault : BOOLEAN]
Nobody == [name |-> NoName, role |-> "Visitor", isDefault |-> FALSE]

\* modifyUser's delUser, addUser's delUser, and addUser's insert.
Writing == {"modifyUser", "addUser", "insert"}

TypeOK ==
    /\ rows \in [AllNames -> Role \cup {NoRow}]
    /\ isDefault \in BOOLEAN
    /\ job \in [Session -> {"start", "login", "first", "in"} \cup Writing]
    /\ me \in [Session -> User]
    /\ writing \in [Session -> User]
    /\ handler \in [Session -> {"none", "first", "passwd", "add"}]
    /\ \A s \in Session : handler[s] = "none" <=> job[s] \notin Writing
    /\ listed \in [Session -> SUBSET AllNames]
    /\ given \in [AllNames -> Role \cup {NoRow, Undone}]
    /\ stale \in SUBSET Session

Exists(n) == rows[n] # NoRow

\* getUser of an account that is not there: a User without a name or a password, whose
\* role nobody has set.
Unread == [name : {NoName}, role : Role, isDefault : {FALSE}]

-----------------------------------------------------------------------------
(* History *)

\* The user a session has a copy of, and may write back.
CopyOf(s) == IF handler[s] = "first" THEN writing[s] ELSE me[s]
Holds(s, n) == job[s] \in {"in"} \cup Writing /\ CopyOf(s).name = n

\* A page says that n has the role r, or no row; the copies of n are older.
Give(n, r) ==
    /\ given' = [given EXCEPT ![n] = r]
    /\ stale' = stale \cup {s \in Session : Holds(s, n)}

\* A session reads a copy, of an account that is there or not.
Copy(s, found) ==
    /\ stale' = IF found THEN stale \ {s} ELSE stale \cup {s}
    /\ UNCHANGED given

\* A session that has not logged in has no copy any more when it has inserted it.
Drop(s) == stale' = IF handler[s] = "first" THEN stale \ {s} ELSE stale

\* A session writes its copy back under the name n.
WriteBack(s, n) ==
    /\ given' = IF s \in stale THEN [given EXCEPT ![n] = Undone] ELSE given
    /\ Drop(s)

-----------------------------------------------------------------------------
(* LoginView *)

\* The constructor: while the administrator has the default password, the dialog is
\* the one that changes it.
OpenDialog(s) ==
    /\ job[s] = "start"
    /\ job' = [job EXCEPT ![s] =
                  IF Exists(AdminName) /\ isDefault THEN "first" ELSE "login"]
    /\ UNCHANGED <<table, me, writing, handler, listed, history>>

\* loginCheck.  The validators let an empty text pass, and the password is compared with
\* that of what getUser returns: a name without an account and no password log in as
\* the unread user.
Login(s, u) ==
    /\ job[s] = "login"
    /\ IF u.name \in Name THEN Exists(u.name) /\ u.role = rows[u.name] /\ ~u.isDefault
                           ELSE u \in Unread
    /\ job' = [job EXCEPT ![s] = "in"]
    /\ me' = [me EXCEPT ![s] = u]
    /\ Copy(s, u.name \in Name)
    /\ UNCHANGED <<table, writing, handler, listed>>

Write(s, user, caller, first) ==
    /\ writing' = [writing EXCEPT ![s] = user]
    /\ handler' = [handler EXCEPT ![s] = caller]
    /\ job' = [job EXCEPT ![s] = first]
    /\ UNCHANGED <<table, me, listed>>

CopyOfAdminUnread(default) == [name : {AdminName}, role : Role, isDefault : {default}]

\* getUser("admin").
CopyOfAdmin(default) ==
    IF Exists(AdminName)
    THEN {[name |-> AdminName, role |-> rows[AdminName], isDefault |-> default]}
    ELSE Unread

\* The account is read again, its password not looked at.
ChangeDefaultPasswd(s, default) ==
    /\ job[s] = "first"
    /\ \E u \in CopyOfAdmin(default) : Write(s, u, "first", "modifyUser")
    /\ Copy(s, Exists(AdminName))

-----------------------------------------------------------------------------
(* UserBoard *)

\* commitModifyPasswd: the old password is compared with the session's copy, and
\* the copy is written back with the new one.
CommitModifyPasswd(s, default) ==
    /\ job[s] = "in"
    /\ default => me[s].name = AdminName
    /\ Write(s, [me[s] EXCEPT !.isDefault = default], "passwd", "modifyUser")
    /\ UNCHANGED history

\* A new UserBoard each time it is shown; manageUsers reads the table.
ShowUserBoard(s) ==
    /\ job[s] = "in"
    /\ me[s].role = "SuperAdmin"
    /\ listed' = [listed EXCEPT ![s] = {n \in AllNames : Exists(n)}]
    /\ UNCHANGED <<table, job, me, writing, handler, history>>

Managing(s) == job[s] = "in" /\ me[s].role = "SuperAdmin"

\* The validators of the dialog are never asked: the name may be empty.
AddUser(s, n) ==
    /\ Managing(s)
    /\ Write(s, [name |-> n, role |-> "Visitor", isDefault |-> FALSE], "add", "addUser")
    /\ UNCHANGED history

\* delUser of the selected row.
DelUser(s, n) ==
    /\ Managing(s)
    /\ n \in listed[s]
    /\ rows' = [rows EXCEPT ![n] = NoRow]
    /\ listed' = [listed EXCEPT ![s] = @ \ {n}]
    /\ Give(n, NoRow)
    /\ UNCHANGED <<isDefault, job, me, writing, handler>>

\* handleClick, accepted with the role r; the UPDATE of a name without a row changes
\* nothing and succeeds.  The page says that r holds from the next login on.
SetRole(s, n, r) ==
    /\ Managing(s)
    /\ n \in listed[s]
    /\ rows' = IF Exists(n) THEN [rows EXCEPT ![n] = r] ELSE rows
    /\ IF Exists(n) \/ given[n] # NoRow THEN Give(n, r) ELSE UNCHANGED history
    /\ UNCHANGED <<isDefault, job, me, writing, handler, listed>>

-----------------------------------------------------------------------------
(* addUser and modifyUser of DbProxy *)

Delete(s) ==
    /\ job[s] \in {"modifyUser", "addUser"}
    /\ rows' = [rows EXCEPT ![writing[s].name] = NoRow]
    /\ job' = [job EXCEPT ![s] = IF @ = "modifyUser" THEN "addUser" ELSE "insert"]
    /\ UNCHANGED <<isDefault, me, writing, handler, listed, history>>

\* A new LoginView follows the change of the default password.
Return(s) ==
    /\ job[s] = "insert"
    /\ job' = [job EXCEPT ![s] = IF handler[s] = "first" THEN "start" ELSE "in"]
    /\ handler' = [handler EXCEPT ![s] = "none"]
    /\ writing' = [writing EXCEPT ![s] = Nobody]
    /\ UNCHANGED me     \* but for the password of _user

InsertSucceeds(s) ==
    LET u == writing[s] IN
    /\ rows' = [rows EXCEPT ![u.name] = u.role]
    /\ isDefault' = IF u.name = AdminName THEN u.isDefault ELSE isDefault
    /\ IF handler[s] = "add"
       THEN /\ listed' = [listed EXCEPT ![s] = @ \cup {u.name}]
            /\ Give(u.name, "Visitor")
       ELSE WriteBack(s, u.name) /\ UNCHANGED listed

InsertAndClear(s) ==
    /\ Return(s)
    /\ IF Exists(writing[s].name)
       THEN /\ rows' = [rows EXCEPT ![writing[s].name] = NoRow]
            /\ UNCHANGED <<isDefault, listed, history>>
       ELSE InsertSucceeds(s)

InsertKeepsJob(s) ==
    /\ job[s] = "insert"
    /\ handler' = [handler EXCEPT ![s] = "none"]
    /\ UNCHANGED <<job, me, writing>>
    /\ IF Exists(writing[s].name)
       THEN Drop(s) /\ UNCHANGED <<table, listed, given>>
       ELSE InsertSucceeds(s)

\* The insert fails when another session's has come before it: NAME is UNIQUE.
Insert(s) ==
    /\ Return(s)
    /\ IF Exists(writing[s].name)
       THEN Drop(s) /\ UNCHANGED <<table, listed, given>>
       ELSE InsertSucceeds(s)

-----------------------------------------------------------------------------

Init ==
    /\ rows = [n \in AllNames |-> IF n = AdminName THEN "SuperAdmin" ELSE NoRow]
    /\ isDefault = TRUE
    /\ job = [s \in Session |-> "start"]
    /\ me = [s \in Session |-> Nobody]
    /\ writing = [s \in Session |-> Nobody]
    /\ handler = [s \in Session |-> "none"]
    /\ listed = [s \in Session |-> {}]
    /\ given = rows
    /\ stale = {}

\* The user logs out or closes the browser; a handler that is running ends first.
Leave(s) ==
    /\ job[s] \in {"login", "first", "in"}
    /\ job' = [job EXCEPT ![s] = "start"]
    /\ me' = [me EXCEPT ![s] = Nobody]
    /\ listed' = [listed EXCEPT ![s] = {}]
    /\ stale' = stale \ {s}
    /\ UNCHANGED <<table, writing, handler, given>>

\* The process dies, between two statements of a handler as well.
Crash ==
    /\ job' = [s \in Session |-> "start"]
    /\ me' = [s \in Session |-> Nobody]
    /\ writing' = [s \in Session |-> Nobody]
    /\ handler' = [s \in Session |-> "none"]
    /\ listed' = [s \in Session |-> {}]
    /\ given' = [n \in AllNames |-> IF Exists(n) THEN given[n] ELSE NoRow]
    /\ stale' = {}
    /\ UNCHANGED table

View(s) == OpenDialog(s) \/ (\E u \in User : Login(s, u)) \/ ShowUserBoard(s) \/ Leave(s)

Edit(s) ==
    \/ \E default \in BOOLEAN : ChangeDefaultPasswd(s, default) \/ CommitModifyPasswd(s, default)
    \/ \E n \in AllNames : AddUser(s, n) \/ DelUser(s, n) \/ \E r \in Role : SetRole(s, n, r)

Next == (\E s \in Session : View(s) \/ Edit(s) \/ Delete(s) \/ Insert(s)) \/ Crash

Spec == Init /\ [][Next]_vars

-----------------------------------------------------------------------------
(* Properties *)

\* Whatever the order of the statements of several sessions, an account disappears
\* only while one of them rewrites it (DbProxy.cpp:249-277): the last insert either
\* brings it back or finds that another has.
AccountSurvives ==
    \A n \in AllNames : given[n] # NoRow =>
        Exists(n) \/ \E s \in Session : job[s] \in {"addUser", "insert"} /\ writing[s].name = n

\* The role in a row is the one that a page last told its user the name has, by the
\* dialog that sets it (UserBoard.cpp:221-232) or by the creation of the account
\* (UserBoard.cpp:118-129).  It is another only after a session has written back a copy
\* (UserBoard.cpp:260-262, LoginView.cpp:128-130) that is older than that, or that was
\* never read from a row: then the new row is Undone until the next page gives a role.
RolesAreAsGiven == \A n \in AllNames : Exists(n) => given[n] \in {rows[n], Undone}
=============================================================================
