------------------------------ MODULE OrgAdmin ------------------------------
(***************************************************************************)
(* OrgAdmin: the people of one organisation, their roles, managers and     *)
(* departments, and the requests of administrators that change them.       *)
(*                                                                         *)
(* Sources: backend/app/services/user_service.py, department_service.py,   *)
(* access_request_service.py and their routes.  A request looks at other   *)
(* rows (is the manager active, is there another administrator, has the    *)
(* department members), changes its own row and commits.  Neither users    *)
(* nor departments nor role links compare versions, and nothing is locked: *)
(* between a request's look and its commit others commit.  A request is    *)
(* therefore either one step, or it is the slow one: it opens, others      *)
(* commit, and it writes the columns it had decided to change.             *)
(***************************************************************************)
EXTENDS Naturals, FiniteSets

CONSTANTS
    Users,
    Nobody,         \* NULL in manager_user_id
    SuperAdmin,     \* the account of SUPER_ADMIN_EMAIL, the first administrator
    Departments,
    RoleSets,       \* the role lists that requests ask for
    MaxColumns,     \* bound: what one update changes of a row
    MaxChanges      \* bound: committed requests

ASSUME OrgAssumption ==
    /\ Nobody \notin Users
    /\ SuperAdmin \in Users
    /\ IsFiniteSet(Users)
    /\ Departments # {}
    /\ {} \notin RoleSets
    /\ MaxChanges \in Nat

VARIABLES
    user,           \* users and user_roles
    department,     \* departments: status
    slow,           \* the request that takes its time, with what it has seen
    overlaps,       \* history: what a slow request did while others did what
    changes         \* history: the number of committed requests

vars == <<user, department, slow, overlaps, changes>>

-----------------------------------------------------------------------------
Roles == {"administrator", "approver"} \cup UNION RoleSets

Status == {"absent", "active", "inactive"}

Row == [status : Status, roles : SUBSET Roles, manager : Users \cup {Nobody},
        department : Departments]

\* What a write does that a check of somebody else relied on.
Kinds == {"demote", "leave", "line", "move", "close"}

Idle == [kind |-> "idle"]

UserRequest == [kind : {"user"}, user : Users, seen : Row, to : Row, met : SUBSET Kinds]

CloseRequest == [kind : {"close"}, department : Departments, met : SUBSET Kinds]

Absent == [status |-> "absent", roles |-> {}, manager |-> Nobody,
           department |-> CHOOSE d \in Departments : TRUE]

Active(u) == user[u].status = "active"

-----------------------------------------------------------------------------
(***************************************************************************)
(* What requests check.                                                    *)
(***************************************************************************)

\* _active_administrator_count; also who may send these requests.
Administrators == { u \in Users : Active(u) /\ "administrator" \in user[u].roles }

\* The walk of _validate_manager: the manager, his manager, and so on.
Above(m) ==
    { v \in Users : \A S \in SUBSET Users :
        (m \in S /\ \A x \in S : user[x].manager \in S \cup {Nobody}) => v \in S }

\* Fault: the walk upwards is forgotten.
ManagerNotWalked(u, m) ==
    m # Nobody => /\ m # u
                  /\ Active(m)
                  /\ "approver" \in user[m].roles

\* _validate_manager; a walk that ends has met nobody twice.
ManagerAccepted(u, m) ==
    m # Nobody => /\ m # u
                  /\ Active(m)
                  /\ "approver" \in user[m].roles
                  /\ u \notin Above(m)
                  /\ \E v \in Above(m) : user[v].manager = Nobody

\* Fault: the administrators are not counted.
AnyRolesAccepted(u, roles) == roles \in RoleSets

\* _active_role_records, _assert_not_removing_last_administrator.
RolesAccepted(u, roles) ==
    /\ roles \in RoleSets
    /\ "administrator" \in user[u].roles \ roles => Cardinality(Administrators) > 1

\* require_assignable_department.
Assignable(d) == department[d] = "active"

CreateAllowed(u, to) ==
    /\ Administrators # {}
    /\ user[u].status = "absent"
    /\ to.status = "active"
    /\ to.roles \in RoleSets
    /\ Assignable(to.department)
    /\ ManagerAccepted(u, to.manager)

UpdateAllowed(u, to) ==
    /\ Administrators # {}
    /\ user[u].status # "absent"
    /\ to.status = user[u].status
    /\ to # user[u]
    /\ to.roles # user[u].roles => RolesAccepted(u, to.roles)
    /\ to.manager # user[u].manager => ManagerAccepted(u, to.manager)
    /\ to.department # user[u].department => Assignable(to.department)

\* Fault: the people who report to the user are not looked for.
DeactivateManagerAllowed(u, to) ==
    /\ Administrators \ {u} # {}
    /\ Active(u)
    /\ "administrator" \in user[u].roles => Cardinality(Administrators) > 1
    /\ to = [user[u] EXCEPT !.status = "inactive"]

DeactivateAllowed(u, to) ==
    /\ Administrators \ {u} # {}
    /\ Active(u)
    /\ "administrator" \in user[u].roles => Cardinality(Administrators) > 1
    /\ ~ \E v \in Users : Active(v) /\ user[v].manager = u
    /\ to = [user[u] EXCEPT !.status = "inactive"]

\* Fault: the members of the department are not looked for.
ClosableWithMembers(d) == Administrators # {} /\ department[d] = "active"

Closable(d) ==
    /\ Administrators # {}
    /\ department[d] = "active"
    /\ ~ \E u \in Users : Active(u) /\ user[u].department = d

-----------------------------------------------------------------------------
(***************************************************************************)
(* What requests write.                                                    *)
(***************************************************************************)

KindsOf(seen, to) ==
    { k \in Kinds :
        \/ k = "demote" /\ "administrator" \in seen.roles \ to.roles
        \/ k = "leave"  /\ seen.status = "active" /\ to.status = "inactive"
        \/ k = "line"   /\ to.manager \notin {seen.manager, Nobody}
        \/ k = "move"   /\ (seen.status = "absent" \/ to.department # seen.department) }

\* The others' commits are recorded with the slow request, if there is one.
Meet(kinds) ==
    slow' = IF slow = Idle THEN Idle ELSE [slow EXCEPT !.met = @ \cup kinds]

Counted ==
    /\ changes < MaxChanges
    /\ changes' = changes + 1

Write(u, to) ==
    /\ user' = [user EXCEPT ![u] = to]
    /\ Meet(KindsOf(user[u], to))
    /\ Counted
    /\ UNCHANGED <<department, overlaps>>

CreateUser(u, to) == CreateAllowed(u, to) /\ Write(u, to)

UpdateUser(u, to) == UpdateAllowed(u, to) /\ Write(u, to)

DeactivateUser(u, to) == DeactivateAllowed(u, to) /\ Write(u, to)

\* ensure_administrator_role, at every sign-in of the configured address.
SignInSuperAdmin(u, to) ==
    /\ u = SuperAdmin
    /\ Active(u)
    /\ "administrator" \notin user[u].roles
    /\ to = [user[u] EXCEPT !.roles = @ \cup {"administrator"}]
    /\ Write(u, to)

\* create_department, and update_department to active.
OpenDepartment(d) ==
    /\ Administrators # {}
    /\ department[d] # "active"
    /\ department' = [department EXCEPT ![d] = "active"]
    /\ Meet({})
    /\ Counted
    /\ UNCHANGED <<user, overlaps>>

CloseDepartment(d) ==
    /\ Closable(d)
    /\ department' = [department EXCEPT ![d] = "inactive"]
    /\ Meet({"close"})
    /\ Counted
    /\ UNCHANGED <<user, overlaps>>

-----------------------------------------------------------------------------
(***************************************************************************)
(* The slow request.                                                       *)
(***************************************************************************)
ReadUser(u, to) ==
    /\ slow = Idle
    /\ CreateAllowed(u, to) \/ UpdateAllowed(u, to) \/ DeactivateAllowed(u, to)
    /\ slow' = [kind |-> "user", user |-> u, seen |-> user[u], to |-> to, met |-> {}]
    /\ UNCHANGED <<user, department, overlaps, changes>>

ReadDepartment(d) ==
    /\ slow = Idle
    /\ Closable(d)
    /\ slow' = [kind |-> "close", department |-> d, met |-> {}]
    /\ UNCHANGED <<user, department, overlaps, changes>>

\* An UPDATE names the columns whose value is not the one that was loaded,
\* _replace_roles the links that are to change.
Merged(row, seen, to) ==
    [status     |-> IF to.status = seen.status THEN row.status ELSE to.status,
     roles      |-> (row.roles \ (seen.roles \ to.roles)) \cup (to.roles \ seen.roles),
     manager    |-> IF to.manager = seen.manager THEN row.manager ELSE to.manager,
     department |-> IF to.department = seen.department /\ seen.status # "absent"
                    THEN row.department ELSE to.department]

\* A second account for the same address is refused by the database.
CommitUser ==
    /\ slow.kind = "user"
    /\ slow.seen.status = "absent" => user[slow.user].status = "absent"
    /\ user' = [user EXCEPT ![slow.user] = Merged(@, slow.seen, slow.to)]
    /\ overlaps' = overlaps \cup (KindsOf(slow.seen, slow.to) \X slow.met)
    /\ slow' = Idle
    /\ Counted
    /\ UNCHANGED department

CommitDepartment ==
    /\ slow.kind = "close"
    /\ department' = [department EXCEPT ![slow.department] = "inactive"]
    /\ overlaps' = overlaps \cup ({"close"} \X slow.met)
    /\ slow' = Idle
    /\ Counted
    /\ UNCHANGED user

\* The database or the client gives the request up.
Abandon ==
    /\ slow # Idle
    /\ slow' = Idle
    /\ UNCHANGED <<user, department, overlaps, changes>>

-----------------------------------------------------------------------------
\* An organisation whose administrators have just created its accounts, in
\* the first department.
Init ==
    /\ department \in [Departments -> {"absent", "active"}]
    /\ \E d \in Departments : user \in
         [Users -> {Absent} \cup [status : {"active"}, roles : RoleSets,
                                 manager : {Nobody}, department : {d}]]
    /\ "administrator" \in user[SuperAdmin].roles
    /\ \A u \in Users : Active(u) => Assignable(user[u].department)
    /\ slow = Idle
    /\ overlaps = {}
    /\ changes = 0

UserNext(u, to) ==
    \/ CreateUser(u, to)
    \/ UpdateUser(u, to)
    \/ DeactivateUser(u, to)
    \/ SignInSuperAdmin(u, to)

DepartmentNext(d) ==
    \/ OpenDepartment(d)
    \/ CloseDepartment(d)

Columns == {"roles", "manager", "department"}

\* The rows a request can ask for.
Requested(u) ==
    { to \in [status     : {"active", "inactive"},
              roles      : RoleSets \cup {user[u].roles, user[u].roles \cup {"administrator"}},
              manager    : Users \cup {Nobody},
              department : Departments] :
        user[u].status = "absent"
            \/ Cardinality({ c \in Columns : to[c] # user[u][c] }) <= MaxColumns }

\* Requests that are alone.
AdminNext ==
    /\ changes < MaxChanges
    /\ \/ \E u \in Users : \E to \in Requested(u) : UserNext(u, to)
       \/ \E d \in Departments : DepartmentNext(d)

SlowNext ==
    \/ /\ changes < MaxChanges
       /\ \/ \E u \in Users : \E to \in Requested(u) : ReadUser(u, to)
          \/ \E d \in Departments : ReadDepartment(d)
    \/ CommitUser
    \/ CommitDepartment
    \/ Abandon

Next == AdminNext \/ SlowNext

Spec == Init /\ [][Next]_vars

-----------------------------------------------------------------------------
(***************************************************************************)
(* The org chart that is shown, build_org_tree.                            *)
(***************************************************************************)
ActiveManager(u) ==
    { m \in Users : Active(m) /\ user[u].manager = m /\ m # u }

\* Where the tree of each of these people has u as a node.
LineOf(u) ==
    { v \in Users : \A S \in SUBSET Users :
        (u \in S /\ \A x \in S : ActiveManager(x) \subseteq S) => v \in S }

Roots == { u \in Users : Active(u) /\ ActiveManager(u) = {} }

\* Fault: people in no tree are not looked for.
NoLeftover == {}

\* Those under no root, of whom each gets a tree, also the ones that an earlier
\* tree of this loop has shown.
Leftover == { u \in Users : Active(u) /\ LineOf(u) \cap Roots = {} }

TreesWith(u) == LineOf(u) \cap (Roots \cup Leftover)

-----------------------------------------------------------------------------
(***************************************************************************)
(* Correctness.  Each says how far the checks reach: what they promise     *)
(* holds unless two requests of the named kinds have overlapped.           *)
(***************************************************************************)

\* The columns hold what the requests may store in them.
TypeOK ==
    /\ user \in [Users -> Row]
    /\ department \in [Departments -> Status]
    /\ slow \in {Idle} \cup UserRequest \cup CloseRequest
    /\ overlaps \subseteq Kinds \X Kinds
    /\ changes \in Nat

\* _assert_not_removing_last_administrator, deactivate_user: the organisation
\* keeps an administrator, unless two requests that each take one away overlap.
AdministratorRemains ==
    Administrators = {} => overlaps \cap ({"demote", "leave"} \X {"demote", "leave"}) # {}

Cycle(S) == S # {} /\ \A u \in S : user[u].manager \in S

\* _validate_manager: nobody is their own superior, unless two changes of
\* managers overlap.
NoReportingCycle ==
    (\E S \in SUBSET Users : Cycle(S)) => <<"line", "line">> \in overlaps

\* deactivate_user: active people have active managers, unless the manager
\* leaves while being assigned.
NobodyReportsToInactive ==
    (\E u \in Users : Active(u) /\ user[u].manager # Nobody /\ ~ Active(user[u].manager))
        => {<<"line", "leave">>, <<"leave", "line">>} \cap overlaps # {}

\* update_department: active people are in active departments, unless the
\* department is closed while somebody moves there.
NobodyInClosedDepartment ==
    (\E u \in Users : Active(u) /\ department[user[u].department] # "active")
        => {<<"move", "close">>, <<"close", "move">>} \cap overlaps # {}

\* build_org_tree: every active person is shown, and once, unless a cycle has
\* been let in.  That the people of a cycle are shown as well is what its last
\* loop is for; how often it shows them is the next property.
EverybodyIsShown ==
    \A u \in Users : Active(u) =>
        /\ TreesWith(u) # {}
        /\ Cardinality(TreesWith(u)) > 1 => <<"line", "line">> \in overlaps

\* build_org_tree, on people that are under no root: "Present each remaining
\* component once rather than silently hiding users from administrators."  Who
\* is active is in one tree.  The loop goes through all the people that were
\* in no tree when it began, and makes a tree for each: violated after two
\* changes of managers that overlap.
ComponentsShownOnce ==
    \A u \in Users : Active(u) => Cardinality(TreesWith(u)) = 1

=============================================================================
