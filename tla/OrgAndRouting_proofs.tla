------------------------ MODULE OrgAndRouting_proofs ------------------------
(***************************************************************************)
(* Proofs about OrgAdmin and ApprovalRouting.  Every request checks what   *)
(* it relies on when it looks; as long as no other request of a kind that  *)
(* the check depends on commits, what it has seen is still true when it    *)
(* commits itself.  Whom the requests have let managers and rules name may *)
(* approve, or is remembered as somebody who could: the walk over the      *)
(* managers, the steps of a rule and the loop over the people selected     *)
(* bring nobody else in.                                                   *)
(***************************************************************************)
EXTENDS ApprovalRouting, FiniteSetTheorems, WellFoundedInduction, TLAPS

\* How a status moves: an account is created once and deactivated once.
Moves(from, to) ==
    \/ from = to /\ from # "absent"
    \/ from = "absent" /\ to = "active"
    \/ from = "active" /\ to = "inactive"

\* What a request that writes `to' over `seen' has checked.
Checks(u, to, kinds) ==
    /\ "move" \in kinds => Assignable(to.department)
    /\ "line" \in kinds => /\ to.manager \in Users /\ Active(to.manager)
                           /\ u \notin Above(to.manager)
    /\ "leave" \in kinds => ~ \E v \in Users : Active(v) /\ user[v].manager = u
    /\ kinds \cap {"demote", "leave"} # {} => Administrators \ {u} # {}

\* A row of nobody names no manager, and a slow request moves a status
\* forward.
OrgInv ==
    /\ TypeOK
    /\ \A u \in Users : user[u].status = "absent" => user[u].manager = Nobody
    /\ slow.kind = "user" =>
          /\ Moves(slow.seen.status, slow.to.status)
          /\ slow.seen.status = "absent" => slow.seen.manager = Nobody
          /\ slow.seen.status # "absent" => user[slow.user].status # "absent"

SlowKinds == KindsOf(slow.seen, slow.to)

-----------------------------------------------------------------------------
(***************************************************************************)
(* What a commit does to one row.                                          *)
(***************************************************************************)

\* The new row of u, as far as the kinds of the change tell.
Change(u, new, kinds) ==
    /\ user' = [user EXCEPT ![u] = new]
    /\ new \in Row
    /\ new.status # "absent"
    /\ user[u].status = "active" /\ new.status # "active" => "leave" \in kinds
    /\ user[u].status # "active" /\ new.status = "active" =>
            user[u].status = "absent" /\ "move" \in kinds
    /\ "administrator" \in user[u].roles \ new.roles => "demote" \in kinds
    /\ new.manager \notin {user[u].manager, Nobody} => "line" \in kinds
    /\ new.department # user[u].department => "move" \in kinds

\* A slow request keeps what it was, and meets the kinds of the others.
LEMMA MeetFacts ==
    ASSUME TypeOK, NEW kinds \in SUBSET Kinds, Meet(kinds)
    PROVE  /\ slow' \in {Idle} \cup UserRequest \cup CloseRequest
           /\ slow'.kind = slow.kind
           /\ slow.kind = "user" =>
                 /\ slow'.user = slow.user /\ slow'.seen = slow.seen /\ slow'.to = slow.to
                 /\ slow'.met = slow.met \cup kinds
                 /\ slow \in UserRequest
           /\ slow.kind = "close" =>
                 /\ slow'.department = slow.department
                 /\ slow'.met = slow.met \cup kinds
                 /\ slow \in CloseRequest
  <1>1. slow \in {Idle} \cup UserRequest \cup CloseRequest
    BY DEF TypeOK
  <1>2. CASE slow = Idle
    BY <1>2 DEF Meet, Idle
  <1>3. CASE slow \in UserRequest
    <2>1. slow # Idle /\ slow.kind = "user"
      BY <1>3 DEF UserRequest, Idle
    <2>2. slow' = [slow EXCEPT !.met = @ \cup kinds]
      BY <2>1 DEF Meet
    <2> QED BY <1>3, <2>1, <2>2 DEF UserRequest
  <1>4. CASE slow \in CloseRequest
    <2>1. slow # Idle /\ slow.kind = "close"
      BY <1>4 DEF CloseRequest, Idle
    <2>2. slow' = [slow EXCEPT !.met = @ \cup kinds]
      BY <2>1 DEF Meet
    <2> QED BY <1>4, <2>1, <2>2 DEF CloseRequest
  <1> QED BY <1>1, <1>2, <1>3, <1>4

\* The rows of slow requests.
LEMMA SlowTypes ==
    ASSUME TypeOK
    PROVE  /\ slow.kind = "user" => slow \in UserRequest
           /\ slow.kind = "close" => slow \in CloseRequest
           /\ slow.kind = "idle" => slow = Idle
           /\ slow.kind \in {"idle", "user", "close"}
  BY DEF TypeOK, Idle, UserRequest, CloseRequest

\* More than one administrator: one besides u.
LEMMA AnotherAdministrator ==
    ASSUME NEW u, Cardinality(Administrators) > 1
    PROVE  Administrators \ {u} # {}
  <1> SUFFICES ASSUME Administrators \subseteq {u} PROVE FALSE
    OBVIOUS
  <1>1. Administrators = {} \/ Administrators = {u}
    OBVIOUS
  <1>2. Cardinality(Administrators) \in {0, 1}
    BY <1>1, FS_EmptySet, FS_Singleton
  <1> QED BY <1>2

\* What may be asked for is a row.
LEMMA RequestedRows ==
    ASSUME TypeOK, NEW u \in Users, NEW to \in Requested(u)
    PROVE  to \in Row /\ to.status \in {"active", "inactive"}
  <1>1. to.roles \subseteq Roles
    BY DEF Requested, Roles, TypeOK, Row
  <1>2. to \in [status     : {"active", "inactive"},
                roles      : RoleSets \cup {user[u].roles, user[u].roles \cup {"administrator"}},
                manager    : Users \cup {Nobody},
                department : Departments]
    BY DEF Requested
  <1> QED BY <1>1, <1>2 DEF Row, Status

\* A request that is allowed has checked what it relies on.
LEMMA AllowedIsChecked ==
    ASSUME OrgInv, NEW u \in Users, NEW to \in Requested(u),
           CreateAllowed(u, to) \/ UpdateAllowed(u, to) \/ DeactivateAllowed(u, to)
    PROVE  /\ Checks(u, to, KindsOf(user[u], to))
           /\ Moves(user[u].status, to.status)
  <1> DEFINE kinds == KindsOf(user[u], to)
  <1>1. TypeOK /\ to \in Row /\ to.status \in {"active", "inactive"} /\ user[u] \in Row
    BY RequestedRows DEF OrgInv, TypeOK
  <1>2. CASE CreateAllowed(u, to)
    <2>1. user[u].status = "absent" /\ to.status = "active" /\ user[u].manager = Nobody
      BY <1>2 DEF CreateAllowed, OrgInv
    <2>2. "leave" \notin kinds
      BY <2>1 DEF KindsOf
    <2>3. "line" \in kinds => /\ to.manager \in Users /\ Active(to.manager)
                              /\ u \notin Above(to.manager)
      BY <1>1, <1>2 DEF CreateAllowed, ManagerAccepted, KindsOf, Row
    <2>4. Assignable(to.department)
      BY <1>2 DEF CreateAllowed
    <2>5. Administrators \ {u} # {}
      BY <1>2, <2>1 DEF CreateAllowed, Administrators, Active
    <2> QED BY <2>1, <2>2, <2>3, <2>4, <2>5 DEF Checks, Moves
  <1>3. CASE UpdateAllowed(u, to)
    <2>1. user[u].status # "absent" /\ to.status = user[u].status
      BY <1>3 DEF UpdateAllowed
    <2>2. "leave" \notin kinds
      BY <2>1 DEF KindsOf
    <2>3. "line" \in kinds => /\ to.manager \in Users /\ Active(to.manager)
                              /\ u \notin Above(to.manager)
      BY <1>1, <1>3 DEF UpdateAllowed, ManagerAccepted, KindsOf, Row
    <2>4. "move" \in kinds => Assignable(to.department)
      BY <1>3, <2>1 DEF UpdateAllowed, KindsOf
    <2>5. "demote" \in kinds => Administrators \ {u} # {}
      <3>1. "demote" \in kinds => Cardinality(Administrators) > 1
        BY <1>3 DEF UpdateAllowed, RolesAccepted, KindsOf
      <3> QED BY <3>1, AnotherAdministrator
    <2> QED BY <2>1, <2>2, <2>3, <2>4, <2>5 DEF Checks, Moves
  <1>4. CASE DeactivateAllowed(u, to)
    <2>1. /\ user[u].status = "active"
          /\ Administrators \ {u} # {}
          /\ to = [user[u] EXCEPT !.status = "inactive"]
          /\ ~ \E v \in Users : Active(v) /\ user[v].manager = u
      BY <1>4 DEF DeactivateAllowed, Active
    <2>2. /\ to.status = "inactive" /\ to.roles = user[u].roles
          /\ to.manager = user[u].manager /\ to.department = user[u].department
      BY <1>1, <2>1 DEF Row
    <2>3. "line" \notin kinds /\ "move" \notin kinds
      BY <2>1, <2>2 DEF KindsOf
    <2> QED BY <2>1, <2>2, <2>3 DEF Checks, Moves
  <1> QED BY <1>2, <1>3, <1>4

\* A request that is alone checks and writes in one step.
LEMMA AloneIsChecked ==
    ASSUME OrgInv, NEW u \in Users, NEW to \in Requested(u), UserNext(u, to)
    PROVE  LET kinds == KindsOf(user[u], to)
           IN  /\ Checks(u, to, kinds)
               /\ Change(u, to, kinds)
               /\ kinds \in SUBSET Kinds
               /\ Meet(kinds)
               /\ UNCHANGED <<department, overlaps>>
               /\ changes' \in Nat
  <1> DEFINE kinds == KindsOf(user[u], to)
  <1>1. TypeOK /\ to \in Row /\ to.status \in {"active", "inactive"} /\ user[u] \in Row
    BY RequestedRows DEF OrgInv, TypeOK
  <1>2. Write(u, to)
    BY DEF UserNext, CreateUser, UpdateUser, DeactivateUser, SignInSuperAdmin
  <1>3. Checks(u, to, kinds) /\ Moves(user[u].status, to.status)
    <2>1. CASE SignInSuperAdmin(u, to)
      <3>1. user[u].status = "active" /\ to = [user[u] EXCEPT !.roles = @ \cup {"administrator"}]
        BY <2>1 DEF SignInSuperAdmin, Active
      <3>2. /\ to.status = user[u].status /\ to.roles = user[u].roles \cup {"administrator"}
            /\ to.manager = user[u].manager /\ to.department = user[u].department
        BY <1>1, <3>1 DEF Row
      <3>3. kinds = {}
        BY <3>1, <3>2 DEF KindsOf, Kinds
      <3> QED BY <3>1, <3>2, <3>3 DEF Checks, Moves
    <2>2. CASE ~ SignInSuperAdmin(u, to)
      BY <2>2, AllowedIsChecked DEF UserNext, CreateUser, UpdateUser, DeactivateUser
    <2> QED BY <2>1, <2>2
  <1>4. Change(u, to, kinds)
    BY <1>1, <1>2, <1>3 DEF Write, Change, KindsOf, Kinds, Moves
  <1>5. changes' \in Nat
    BY <1>1, <1>2 DEF Write, Counted, TypeOK
  <1>6. kinds \in SUBSET Kinds
    BY DEF KindsOf
  <1> QED BY <1>2, <1>3, <1>4, <1>5, <1>6 DEF Write

\* The commit of a slow request changes only the columns it had decided on.
LEMMA CommitIsChange ==
    ASSUME OrgInv, CommitUser
    PROVE  /\ slow \in UserRequest
           /\ Change(slow.user, Merged(user[slow.user], slow.seen, slow.to), SlowKinds)
           /\ slow' = Idle
           /\ overlaps' = overlaps \cup (SlowKinds \X slow.met)
           /\ UNCHANGED department
           /\ SlowKinds \in SUBSET Kinds
           /\ changes' \in Nat
  <1> DEFINE u == slow.user
             row == user[u]
             new == Merged(row, slow.seen, slow.to)
  <1>1. /\ slow \in UserRequest /\ slow.kind = "user"
        /\ u \in Users /\ slow.seen \in Row /\ slow.to \in Row /\ row \in Row
    BY SlowTypes DEF CommitUser, OrgInv, TypeOK, UserRequest
  <1>2. /\ Moves(slow.seen.status, slow.to.status)
        /\ slow.seen.status = "absent" => slow.seen.manager = Nobody
        /\ slow.seen.status = "absent" => row.status = "absent"
        /\ slow.seen.status # "absent" => row.status # "absent"
    BY <1>1 DEF CommitUser, OrgInv
  <1>3. /\ new.status = IF slow.to.status = slow.seen.status THEN row.status ELSE slow.to.status
        /\ new.roles = (row.roles \ (slow.seen.roles \ slow.to.roles))
                          \cup (slow.to.roles \ slow.seen.roles)
        /\ new.manager = IF slow.to.manager = slow.seen.manager THEN row.manager
                         ELSE slow.to.manager
        /\ new.department = IF slow.to.department = slow.seen.department
                                 /\ slow.seen.status # "absent"
                            THEN row.department ELSE slow.to.department
    BY DEF Merged
  <1>4. new \in Row
    BY <1>1 DEF Merged, Row
  <1>5. user' = [user EXCEPT ![u] = new]
    BY DEF CommitUser
  <1> HIDE DEF new
  <1>6. /\ new.status # "absent"
        /\ row.status = "active" /\ new.status # "active" => "leave" \in SlowKinds
        /\ row.status # "active" /\ new.status = "active" =>
              row.status = "absent" /\ "move" \in SlowKinds
    BY <1>2, <1>3 DEF Moves, SlowKinds, KindsOf, Kinds
  <1>7. /\ "administrator" \in row.roles \ new.roles => "demote" \in SlowKinds
        /\ new.manager \notin {row.manager, Nobody} => "line" \in SlowKinds
        /\ new.department # row.department => "move" \in SlowKinds
    BY <1>3 DEF SlowKinds, KindsOf, Kinds
  <1>8. Change(u, new, SlowKinds)
    BY <1>4, <1>5, <1>6, <1>7 DEF Change
  <1>9. SlowKinds \in SUBSET Kinds
    BY DEF SlowKinds, KindsOf
  <1>10. /\ slow' = Idle
         /\ overlaps' = overlaps \cup (SlowKinds \X slow.met)
         /\ UNCHANGED department
    BY DEF CommitUser, SlowKinds
  <1>11. changes' \in Nat
    BY DEF CommitUser, Counted, OrgInv, TypeOK
  <1> QED BY <1>1, <1>8, <1>9, <1>10, <1>11 DEF new

-----------------------------------------------------------------------------
(***************************************************************************)
(* Types, and the shape of slow requests.                                  *)
(***************************************************************************)

\* A change of one row keeps the rows.
LEMMA ChangeRows ==
    ASSUME OrgInv, NEW u \in Users, NEW new, NEW kinds, Change(u, new, kinds)
    PROVE  /\ user' \in [Users -> Row]
           /\ user'[u] = new
           /\ \A v \in Users \ {u} : user'[v] = user[v]
           /\ \A v \in Users : user'[v].status = "absent" =>
                 user[v].status = "absent" /\ user'[v].manager = Nobody
  <1>1. /\ user \in [Users -> Row]
        /\ \A v \in Users : user[v].status = "absent" => user[v].manager = Nobody
    BY DEF OrgInv, TypeOK
  <1>2. user' \in [Users -> Row] /\ user'[u] = new /\ \A v \in Users \ {u} : user'[v] = user[v]
    BY <1>1 DEF Change
  <1>3. new.status # "absent"
    BY DEF Change
  <1> QED BY <1>1, <1>2, <1>3

LEMMA UserShape ==
    ASSUME OrgInv, NEW u \in Users, NEW to \in Requested(u), UserNext(u, to)
    PROVE  OrgInv'
  <1> DEFINE kinds == KindsOf(user[u], to)
  <1>1. /\ Change(u, to, kinds) /\ Meet(kinds) /\ kinds \in SUBSET Kinds
        /\ UNCHANGED <<department, overlaps>> /\ changes' \in Nat
        /\ TypeOK
    BY AloneIsChecked DEF OrgInv
  <1> HIDE DEF kinds
  <1>2. /\ user' \in [Users -> Row]
        /\ \A v \in Users : user'[v].status = "absent" =>
              user[v].status = "absent" /\ user'[v].manager = Nobody
    BY <1>1, ChangeRows
  <1>3. TypeOK'
    BY <1>1, <1>2, MeetFacts DEF TypeOK
  <1>4. ASSUME slow'.kind = "user"
        PROVE  /\ Moves(slow'.seen.status, slow'.to.status)
               /\ slow'.seen.status = "absent" => slow'.seen.manager = Nobody
               /\ slow'.seen.status # "absent" => user'[slow'.user].status # "absent"
    <2>1. /\ slow.kind = "user" /\ slow.user \in Users
          /\ slow'.user = slow.user /\ slow'.seen = slow.seen /\ slow'.to = slow.to
      BY <1>1, <1>4, MeetFacts DEF UserRequest
    <2> QED BY <1>2, <2>1 DEF OrgInv
  <1> QED BY <1>2, <1>3, <1>4 DEF OrgInv

LEMMA DepartmentShape ==
    ASSUME OrgInv, NEW d \in Departments, DepartmentNext(d)
    PROVE  OrgInv'
  <1>1. PICK kinds \in SUBSET Kinds : Meet(kinds)
    BY DEF DepartmentNext, OpenDepartment, CloseDepartment, Kinds
  <1>2. /\ UNCHANGED <<user, overlaps>> /\ changes' \in Nat
        /\ department' \in [Departments -> Status]
        /\ TypeOK
    BY DEF DepartmentNext, OpenDepartment, CloseDepartment, Counted, OrgInv, TypeOK, Status
  <1>3. TypeOK'
    BY <1>1, <1>2, MeetFacts DEF TypeOK
  <1>4. slow'.kind = "user" =>
           /\ slow.kind = "user"
           /\ slow'.user = slow.user /\ slow'.seen = slow.seen /\ slow'.to = slow.to
    BY <1>1, <1>2, MeetFacts
  <1> QED BY <1>2, <1>3, <1>4 DEF OrgInv

LEMMA SlowShape ==
    ASSUME OrgInv, SlowNext
    PROVE  OrgInv'
  <1>0. TypeOK
    BY DEF OrgInv
  <1>1. ASSUME NEW u \in Users, NEW to \in Requested(u), ReadUser(u, to)
        PROVE  OrgInv'
    <2>1. /\ slow' = [kind |-> "user", user |-> u, seen |-> user[u], to |-> to, met |-> {}]
          /\ UNCHANGED <<user, department, overlaps, changes>>
          /\ Moves(user[u].status, to.status)
      BY <1>1, AllowedIsChecked DEF ReadUser
    <2>2. slow' \in UserRequest
      BY <1>0, <2>1, RequestedRows DEF UserRequest, TypeOK
    <2>3. TypeOK'
      BY <1>0, <2>1, <2>2 DEF TypeOK
    <2> QED BY <2>1, <2>3 DEF OrgInv
  <1>2. ASSUME NEW d \in Departments, ReadDepartment(d)
        PROVE  OrgInv'
    <2>1. /\ slow' = [kind |-> "close", department |-> d, met |-> {}]
          /\ UNCHANGED <<user, department, overlaps, changes>>
      BY <1>2 DEF ReadDepartment
    <2>2. slow' \in CloseRequest
      BY <2>1 DEF CloseRequest
    <2> QED BY <1>0, <2>1, <2>2 DEF OrgInv, TypeOK
  <1>3. CASE CommitUser
    <2> DEFINE new == Merged(user[slow.user], slow.seen, slow.to)
    <2>1. /\ slow \in UserRequest /\ slow.user \in Users
          /\ Change(slow.user, new, SlowKinds)
          /\ slow' = Idle
          /\ overlaps' = overlaps \cup (SlowKinds \X slow.met)
          /\ UNCHANGED department
          /\ SlowKinds \in SUBSET Kinds
          /\ changes' \in Nat
      BY <1>3, CommitIsChange DEF UserRequest
    <2> HIDE DEF new
    <2>2. /\ user' \in [Users -> Row]
          /\ \A v \in Users : user'[v].status = "absent" => user'[v].manager = Nobody
      BY <2>1, ChangeRows
    <2>3. overlaps' \subseteq Kinds \X Kinds
      BY <1>0, <2>1 DEF TypeOK, UserRequest
    <2>4. TypeOK'
      BY <1>0, <2>1, <2>2, <2>3 DEF TypeOK
    <2> QED BY <2>1, <2>2, <2>4 DEF OrgInv, Idle
  <1>4. CASE CommitDepartment
    <2>1. /\ slow \in CloseRequest
          /\ slow' = Idle
          /\ UNCHANGED user
          /\ department' \in [Departments -> Status]
          /\ overlaps' \subseteq Kinds \X Kinds
          /\ changes' \in Nat
      BY <1>0, <1>4, SlowTypes DEF CommitDepartment, TypeOK, Status, Counted, CloseRequest, Kinds
    <2> QED BY <1>0, <2>1 DEF OrgInv, TypeOK, Idle
  <1>5. CASE Abandon
    BY <1>0, <1>5 DEF Abandon, OrgInv, TypeOK, Idle
  <1> QED BY <1>1, <1>2, <1>3, <1>4, <1>5 DEF SlowNext

LEMMA Shape == OrgInv /\ [Next]_vars => OrgInv'
  <1>1. ASSUME OrgInv, UNCHANGED vars PROVE OrgInv'
    BY <1>1 DEF vars, OrgInv, TypeOK
  <1> QED BY <1>1, UserShape, DepartmentShape, SlowShape DEF Next, AdminNext

LEMMA InitShape == Init => OrgInv
  <1> SUFFICES ASSUME Init PROVE OrgInv
    OBVIOUS
  <1>1. Absent \in Row
    <2>1. (CHOOSE d \in Departments : TRUE) \in Departments
      BY OrgAssumption
    <2> QED BY <2>1 DEF Absent, Row, Status
  <1>2. ASSUME NEW d \in Departments
        PROVE  [status : {"active"}, roles : RoleSets, manager : {Nobody}, department : {d}]
                  \subseteq Row
    BY DEF Row, Status, Roles
  <1>3. user \in [Users -> Row]
    BY <1>1, <1>2 DEF Init
  <1>4. \A u \in Users : user[u].manager = Nobody
    BY DEF Init, Absent
  <1>5. TypeOK
    BY <1>3 DEF Init, TypeOK, Status
  <1> QED BY <1>4, <1>5 DEF OrgInv, Init, Idle

LEMMA ShapeInvariant == Spec => []OrgInv
  BY InitShape, Shape, PTL DEF Spec

\* Rows of people and departments and the slow request are of their types.
THEOREM TypeCorrect == Spec => []TypeOK
  <1>1. OrgInv => TypeOK
    BY DEF OrgInv
  <1> QED BY <1>1, ShapeInvariant, PTL

-----------------------------------------------------------------------------
(***************************************************************************)
(* The steps, as the properties see them.                                  *)
(***************************************************************************)

\* What a change of some kinds leaves alone.
LEMMA ChangeEffects ==
    ASSUME OrgInv, NEW u \in Users, NEW new, NEW kinds, Change(u, new, kinds), NEW v \in Users
    PROVE  /\ v # u => user'[v] = user[v]
           /\ user'[u] = new
           /\ "move" \notin kinds /\ user'[v].status = "active" =>
                 user[v].status = "active" /\ user'[v].department = user[v].department
           /\ "leave" \notin kinds /\ user[v].status = "active" => user'[v].status = "active"
           /\ "line" \notin kinds => user'[v].manager \in {user[v].manager, Nobody}
           /\ "demote" \notin kinds /\ "leave" \notin kinds /\ v \in Administrators =>
                 v \in Administrators'
  <1>1. /\ user'[u] = new
        /\ \A w \in Users \ {u} : user'[w] = user[w]
    BY ChangeRows
  <1>2. CASE v = u
    BY <1>1, <1>2 DEF Change, Administrators, Active
  <1>3. CASE v # u
    BY <1>1, <1>3 DEF Administrators, Active
  <1> QED BY <1>1, <1>2, <1>3

\* A request that is alone changes a row it has checked.
Alone(u, new, kinds) ==
    /\ Checks(u, new, kinds)
    /\ Change(u, new, kinds)
    /\ kinds \in SUBSET Kinds
    /\ Meet(kinds)
    /\ UNCHANGED <<department, overlaps>>

\* The slow request looks.
Looks(u, to) ==
    /\ Checks(u, to, KindsOf(user[u], to))
    /\ slow' = [kind |-> "user", user |-> u, seen |-> user[u], to |-> to, met |-> {}]
    /\ UNCHANGED <<user, department, overlaps>>

\* It commits.
Commits(u, new) ==
    /\ slow.kind = "user"
    /\ u = slow.user
    /\ Change(u, new, SlowKinds)
    /\ "move" \in SlowKinds => new.department = slow.to.department
    /\ "line" \in SlowKinds => new.manager = slow.to.manager
    /\ overlaps' = overlaps \cup (SlowKinds \X slow.met)
    /\ slow' = Idle
    /\ UNCHANGED department

LEMMA RequestSteps ==
    ASSUME OrgInv, [Next]_vars
    PROVE  \/ \E u \in Users, new \in Row, kinds \in SUBSET Kinds : Alone(u, new, kinds)
           \/ \E d \in Departments : DepartmentNext(d)
           \/ \E u \in Users, to \in Row : Looks(u, to)
           \/ \E d \in Departments : ReadDepartment(d)
           \/ \E u \in Users, new \in Row : Commits(u, new)
           \/ CommitDepartment
           \/ UNCHANGED <<user, department, overlaps>> /\ slow' \in {slow, Idle}
  <1>0. TypeOK
    BY DEF OrgInv
  <1>1. ASSUME NEW u \in Users, NEW to \in Requested(u), UserNext(u, to)
        PROVE  \E v \in Users, new \in Row, kinds \in SUBSET Kinds : Alone(v, new, kinds)
    <2>1. Alone(u, to, KindsOf(user[u], to)) /\ to \in Row
      BY <1>0, <1>1, AloneIsChecked, RequestedRows DEF Alone
    <2>2. KindsOf(user[u], to) \in SUBSET Kinds
      BY <2>1 DEF Alone
    <2> QED BY <2>1, <2>2
  <1>2. ASSUME NEW u \in Users, NEW to \in Requested(u), ReadUser(u, to)
        PROVE  \E v \in Users, new \in Row : Looks(v, new)
    <2>1. Looks(u, to) /\ to \in Row
      BY <1>0, <1>2, AllowedIsChecked, RequestedRows DEF ReadUser, Looks
    <2> QED BY <2>1
  <1>3. ASSUME CommitUser
        PROVE  \E u \in Users, new \in Row : Commits(u, new)
    <2> DEFINE new == Merged(user[slow.user], slow.seen, slow.to)
    <2>1. /\ slow \in UserRequest /\ slow.user \in Users
          /\ Change(slow.user, new, SlowKinds)
          /\ slow' = Idle
          /\ overlaps' = overlaps \cup (SlowKinds \X slow.met)
          /\ UNCHANGED department
      BY <1>3, CommitIsChange DEF UserRequest
    <2>2. /\ "move" \in SlowKinds => new.department = slow.to.department
          /\ "line" \in SlowKinds => new.manager = slow.to.manager
      BY DEF Merged, SlowKinds, KindsOf
    <2>3. new \in Row
      BY <2>1 DEF Change
    <2> HIDE DEF new
    <2>4. Commits(slow.user, new)
      BY <1>3, <2>1, <2>2 DEF Commits, CommitUser
    <2> QED BY <2>1, <2>3, <2>4
  <1>4. CASE UNCHANGED vars
    BY <1>4 DEF vars
  <1>5. CASE Abandon
    BY <1>5 DEF Abandon
  <1> QED BY <1>1, <1>2, <1>3, <1>4, <1>5 DEF Next, AdminNext, SlowNext

\* A department that is opened or closed changes nothing else.
LEMMA DepartmentSteps ==
    ASSUME OrgInv, NEW d \in Departments, DepartmentNext(d)
    PROVE  /\ UNCHANGED <<user, overlaps>>
           /\ \/ /\ department' = [department EXCEPT ![d] = "active"]
                 /\ Meet({})
              \/ /\ Closable(d)
                 /\ department' = [department EXCEPT ![d] = "inactive"]
                 /\ Meet({"close"})
           /\ slow.kind = "user" =>
                 /\ slow'.kind = "user"
                 /\ slow'.user = slow.user /\ slow'.seen = slow.seen /\ slow'.to = slow.to
                 /\ slow.met \subseteq slow'.met
           /\ slow'.kind = slow.kind
  <1>1. PICK kinds \in SUBSET Kinds : Meet(kinds)
    BY DEF DepartmentNext, OpenDepartment, CloseDepartment, Kinds
  <1>2. /\ slow'.kind = slow.kind
        /\ slow.kind = "user" =>
                 /\ slow'.user = slow.user /\ slow'.seen = slow.seen /\ slow'.to = slow.to
                 /\ slow.met \subseteq slow'.met
    BY <1>1, MeetFacts DEF OrgInv
  <1> QED BY <1>2 DEF DepartmentNext, OpenDepartment, CloseDepartment

-----------------------------------------------------------------------------
(***************************************************************************)
(* Departments.                                                            *)
(***************************************************************************)

\* What the slow request relies on: the department it moves somebody to is
\* active, the one it closes is empty.
DepartmentInv ==
    /\ NobodyInClosedDepartment
    /\ slow.kind = "user" /\ "move" \in SlowKinds /\ "close" \notin slow.met =>
          Assignable(slow.to.department)
    /\ slow.kind = "close" /\ "move" \notin slow.met =>
          \A u \in Users : Active(u) => user[u].department # slow.department

LEMMA DepartmentStep == OrgInv /\ DepartmentInv /\ [Next]_vars => DepartmentInv'
  <1> SUFFICES ASSUME OrgInv, DepartmentInv, [Next]_vars PROVE DepartmentInv'
    OBVIOUS
  <1>0. TypeOK
    BY DEF OrgInv
  <1> DEFINE Excuse == {<<"move", "close">>, <<"close", "move">>} \cap overlaps # {}
  <1>1. ASSUME NEW u \in Users, NEW new \in Row, NEW kinds \in SUBSET Kinds, Alone(u, new, kinds)
        PROVE  DepartmentInv'
    <2>1. /\ Change(u, new, kinds) /\ Checks(u, new, kinds) /\ Meet(kinds)
          /\ UNCHANGED <<department, overlaps>>
      BY <1>1 DEF Alone
    <2>2. ASSUME NEW v \in Users, user'[v].status = "active",
                 department[user'[v].department] # "active"
          PROVE  \E w \in Users : Active(w) /\ department[user[w].department] # "active"
      <3>1. CASE "move" \in kinds /\ v = u
        BY <2>1, <2>2, <3>1, ChangeEffects DEF Checks, Assignable
      <3>2. CASE v # u
        BY <2>1, <2>2, <3>2, ChangeEffects DEF Active
      <3>3. CASE "move" \notin kinds
        BY <2>1, <2>2, <3>3, ChangeEffects DEF Active
      <3> QED BY <3>1, <3>2, <3>3
    <2>3. NobodyInClosedDepartment'
      BY <2>1, <2>2 DEF NobodyInClosedDepartment, DepartmentInv, Active
    <2>4. slow'.kind = "user" => /\ slow.kind = "user" /\ slow'.to = slow.to
                                 /\ slow'.seen = slow.seen
                                 /\ slow.met \subseteq slow'.met
      BY <1>0, <2>1, MeetFacts
    <2>5. ASSUME slow'.kind = "close", "move" \notin slow'.met,
                 NEW v \in Users, user'[v].status = "active"
          PROVE  user'[v].department # slow'.department
      <3>1. slow.kind = "close" /\ slow'.department = slow.department
            /\ "move" \notin slow.met /\ "move" \notin kinds
        BY <1>0, <2>1, <2>5, MeetFacts
      <3>2. user[v].status = "active" /\ user'[v].department = user[v].department
        BY <2>1, <2>5, <3>1, ChangeEffects
      <3> QED BY <3>1, <3>2 DEF DepartmentInv, Active
    <2> QED BY <2>1, <2>3, <2>4, <2>5 DEF DepartmentInv, SlowKinds, Assignable, Active
  <1>2. ASSUME NEW d \in Departments, DepartmentNext(d)
        PROVE  DepartmentInv'
    <2>1. UNCHANGED <<user, overlaps>>
      BY <1>2, DepartmentSteps
    <2>2. CASE department' = [department EXCEPT ![d] = "active"] /\ Meet({})
      <3>1. \A c \in Departments : department[c] = "active" => department'[c] = "active"
        BY <1>0, <2>2 DEF TypeOK
      <3>2. \A u \in Users : user[u].department \in Departments
        BY <1>0 DEF TypeOK, Row
      <3>3. NobodyInClosedDepartment'
        BY <2>1, <3>1, <3>2 DEF NobodyInClosedDepartment, DepartmentInv, Active
      <3>4. {} \in SUBSET Kinds /\ (slow.kind = "user" => slow.to.department \in Departments)
        BY <1>0, SlowTypes DEF UserRequest, Row
      <3>5. /\ slow'.kind = slow.kind
            /\ slow.kind = "user" => /\ slow'.to = slow.to /\ slow'.seen = slow.seen
                                     /\ slow.met \subseteq slow'.met
            /\ slow.kind = "close" => slow'.department = slow.department
                                      /\ slow.met \subseteq slow'.met
        BY <1>0, <2>2, <3>4, MeetFacts
      <3> QED BY <2>1, <3>1, <3>3, <3>4, <3>5 DEF DepartmentInv, SlowKinds, Assignable, Active
    <2>3. CASE /\ Closable(d)
               /\ department' = [department EXCEPT ![d] = "inactive"]
               /\ Meet({"close"})
      <3>1. \A u \in Users : Active(u) => user[u].department # d
        BY <2>3 DEF Closable
      <3>2. \A c \in Departments \ {d} : department'[c] = department[c]
        BY <1>0, <2>3 DEF TypeOK
      <3>3. \A u \in Users : user[u].department \in Departments
        BY <1>0 DEF TypeOK, Row
      <3>4. NobodyInClosedDepartment'
        BY <2>1, <3>1, <3>2, <3>3 DEF NobodyInClosedDepartment, DepartmentInv, Active
      <3>5. {"close"} \in SUBSET Kinds
        BY DEF Kinds
      <3>6. /\ slow'.kind = slow.kind
            /\ slow.kind = "user" => "close" \in slow'.met
            /\ slow.kind = "close" => slow'.department = slow.department
                                      /\ slow.met \subseteq slow'.met
        BY <1>0, <2>3, <3>5, MeetFacts
      <3> QED BY <2>1, <3>4, <3>6 DEF DepartmentInv, Active
    <2> QED BY <1>2, <2>2, <2>3, DepartmentSteps
  <1>3. ASSUME NEW u \in Users, NEW to \in Row, Looks(u, to)
        PROVE  DepartmentInv'
    BY <1>3 DEF Looks, Checks, DepartmentInv, NobodyInClosedDepartment, Assignable, Active, SlowKinds
  <1>4. ASSUME NEW d \in Departments, ReadDepartment(d)
        PROVE  DepartmentInv'
    BY <1>4 DEF ReadDepartment, Closable, DepartmentInv, NobodyInClosedDepartment, Active
  <1>5. ASSUME NEW u \in Users, NEW new \in Row, Commits(u, new)
        PROVE  DepartmentInv'
    <2>1. /\ slow.kind = "user" /\ Change(u, new, SlowKinds)
          /\ "move" \in SlowKinds => new.department = slow.to.department
          /\ overlaps' = overlaps \cup (SlowKinds \X slow.met)
          /\ slow' = Idle /\ UNCHANGED department
      BY <1>5 DEF Commits
    <2>2. ASSUME NEW v \in Users, user'[v].status = "active",
                 department[user'[v].department] # "active",
                 ~ \E w \in Users : Active(w) /\ department[user[w].department] # "active"
          PROVE  <<"move", "close">> \in overlaps'
      <3>1. v = u /\ "move" \in SlowKinds
        BY <2>1, <2>2, ChangeEffects DEF Active
      <3>2. "close" \in slow.met \/ Assignable(slow.to.department)
        BY <2>1, <3>1 DEF DepartmentInv
      <3>3. user'[v].department = slow.to.department
        BY <2>1, <3>1, ChangeEffects
      <3> QED BY <2>1, <2>2, <3>1, <3>2, <3>3 DEF Assignable
    <2>3. NobodyInClosedDepartment'
      BY <2>1, <2>2 DEF NobodyInClosedDepartment, DepartmentInv, Active
    <2> QED BY <2>1, <2>3 DEF DepartmentInv, Idle
  <1>6. CASE CommitDepartment
    <2>1. /\ slow.kind = "close" /\ slow \in CloseRequest
          /\ department' = [department EXCEPT ![slow.department] = "inactive"]
          /\ overlaps' = overlaps \cup ({"close"} \X slow.met)
          /\ slow' = Idle
          /\ UNCHANGED user
      BY <1>0, <1>6, SlowTypes DEF CommitDepartment
    <2>2. CASE "move" \in slow.met
      <3>1. <<"close", "move">> \in overlaps'
        BY <2>1, <2>2
      <3>2. NobodyInClosedDepartment'
        BY <3>1 DEF NobodyInClosedDepartment
      <3> QED BY <2>1, <3>2 DEF DepartmentInv, Idle
    <2>3. CASE "move" \notin slow.met
      <3>1. \A u \in Users : Active(u) => user[u].department # slow.department
        BY <2>1, <2>3 DEF DepartmentInv
      <3>2. \A u \in Users : user[u].department \in Departments
        BY <1>0 DEF TypeOK, Row
      <3>3. \A c \in Departments : c # slow.department => department'[c] = department[c]
        BY <1>0, <2>1 DEF TypeOK
      <3> QED BY <2>1, <3>1, <3>2, <3>3 DEF DepartmentInv, NobodyInClosedDepartment, Active, Idle
    <2> QED BY <2>2, <2>3
  <1>7. CASE UNCHANGED <<user, department, overlaps>> /\ slow' \in {slow, Idle}
    BY <1>7 DEF DepartmentInv, NobodyInClosedDepartment, Active, Assignable, SlowKinds, Idle
  <1> QED BY <1>1, <1>2, <1>3, <1>4, <1>5, <1>6, <1>7, RequestSteps

\* However many people, departments and requests there are, active people are
\* in active departments unless a department is closed while somebody moves
\* there (require_assignable_department, update_department).
THEOREM DepartmentsAreOpen == Spec => []NobodyInClosedDepartment
  <1>1. Init => DepartmentInv
    BY DEF Init, DepartmentInv, NobodyInClosedDepartment, Idle, Assignable
  <1>2. DepartmentInv => NobodyInClosedDepartment
    BY DEF DepartmentInv
  <1> QED BY <1>1, <1>2, DepartmentStep, ShapeInvariant, PTL DEF Spec

-----------------------------------------------------------------------------
(***************************************************************************)
(* Administrators.                                                         *)
(***************************************************************************)
Away == {"demote", "leave"}

\* A slow request that takes an administrator away relies on another one.
AdministratorInv ==
    /\ AdministratorRemains
    /\ slow.kind = "user" /\ SlowKinds \cap Away # {} /\ slow.met \cap Away = {} =>
          Administrators \ {slow.user} # {}

\* Who is an administrator, and is not the one whose row is written or is
\* written without being demoted or deactivated, remains one.
LEMMA AdministratorStays ==
    ASSUME OrgInv, NEW u \in Users, NEW new, NEW kinds, Change(u, new, kinds),
           NEW w \in Administrators, w # u \/ kinds \cap Away = {}
    PROVE  w \in Administrators'
  <1>1. w \in Users
    BY DEF Administrators
  <1>2. CASE w # u
    BY <1>1, <1>2, ChangeEffects DEF Administrators, Active
  <1>3. CASE kinds \cap Away = {}
    BY <1>1, <1>3, ChangeEffects DEF Away
  <1> QED BY <1>2, <1>3

LEMMA AdministratorStep == OrgInv /\ AdministratorInv /\ [Next]_vars => AdministratorInv'
  <1> SUFFICES ASSUME OrgInv, AdministratorInv, [Next]_vars PROVE AdministratorInv'
    OBVIOUS
  <1>0. TypeOK
    BY DEF OrgInv
  <1>1. ASSUME NEW u \in Users, NEW new \in Row, NEW kinds \in SUBSET Kinds, Alone(u, new, kinds)
        PROVE  AdministratorInv'
    <2>1. /\ Change(u, new, kinds) /\ Checks(u, new, kinds) /\ Meet(kinds)
          /\ overlaps' = overlaps
      BY <1>1 DEF Alone
    <2>2. AdministratorRemains'
      <3>1. CASE kinds \cap Away = {}
        BY <2>1, <3>1, AdministratorStays DEF AdministratorInv, AdministratorRemains
      <3>2. CASE kinds \cap Away # {}
        <4>1. PICK w \in Administrators : w # u
          BY <2>1, <3>2 DEF Checks, Away
        <4>2. w \in Administrators'
          BY <2>1, <4>1, AdministratorStays
        <4> QED BY <4>2 DEF AdministratorRemains
      <3> QED BY <3>1, <3>2
    <2>3. ASSUME slow'.kind = "user", SlowKinds' \cap Away # {}, slow'.met \cap Away = {}
          PROVE  Administrators' \ {slow'.user} # {}
      <3>1. /\ slow.kind = "user" /\ slow'.user = slow.user
            /\ slow'.seen = slow.seen /\ slow'.to = slow.to
            /\ slow'.met = slow.met \cup kinds
        BY <1>0, <2>1, <2>3, MeetFacts
      <3>2. SlowKinds' = SlowKinds /\ slow.met \cap Away = {} /\ kinds \cap Away = {}
        BY <2>3, <3>1 DEF SlowKinds
      <3>3. PICK w \in Administrators : w # slow.user
        BY <2>3, <3>1, <3>2 DEF AdministratorInv
      <3>4. w \in Administrators'
        BY <2>1, <3>2, AdministratorStays
      <3> QED BY <3>1, <3>3, <3>4
    <2> QED BY <2>2, <2>3 DEF AdministratorInv
  <1>2. ASSUME NEW d \in Departments, DepartmentNext(d)
        PROVE  AdministratorInv'
    <2>1. /\ UNCHANGED <<user, overlaps>> /\ slow'.kind = slow.kind
          /\ slow.kind = "user" =>
                /\ slow'.user = slow.user /\ slow'.seen = slow.seen /\ slow'.to = slow.to
                /\ slow.met \subseteq slow'.met
      BY <1>2, DepartmentSteps
    <2>2. Administrators' = Administrators
      BY <2>1 DEF Administrators, Active
    <2>3. slow'.kind = "user" => SlowKinds' = SlowKinds
      BY <2>1 DEF SlowKinds
    <2> QED BY <2>1, <2>2, <2>3 DEF AdministratorInv, AdministratorRemains
  <1>3. ASSUME NEW u \in Users, NEW to \in Row, Looks(u, to)
        PROVE  AdministratorInv'
    <2>1. Administrators' = Administrators /\ overlaps' = overlaps
      BY <1>3 DEF Looks, Administrators, Active
    <2>2. SlowKinds' = KindsOf(user[u], to) /\ slow'.user = u
      BY <1>3 DEF Looks, SlowKinds
    <2>3. KindsOf(user[u], to) \cap Away # {} => Administrators \ {u} # {}
      BY <1>3 DEF Looks, Checks, Away
    <2> QED BY <2>1, <2>2, <2>3 DEF AdministratorInv, AdministratorRemains
  <1>4. ASSUME NEW u \in Users, NEW new \in Row, Commits(u, new)
        PROVE  AdministratorInv'
    <2>1. /\ slow.kind = "user" /\ u = slow.user
          /\ Change(u, new, SlowKinds)
          /\ overlaps' = overlaps \cup (SlowKinds \X slow.met)
          /\ slow' = Idle
      BY <1>4 DEF Commits
    <2>2. AdministratorRemains'
      <3>1. CASE SlowKinds \cap Away = {}
        <4>1. Administrators' = {} => Administrators = {}
          BY <2>1, <3>1, AdministratorStays
        <4> QED BY <2>1, <4>1 DEF AdministratorInv, AdministratorRemains
      <3>2. CASE SlowKinds \cap Away # {} /\ slow.met \cap Away # {}
        <4>1. PICK j \in SlowKinds \cap Away, k \in slow.met \cap Away : TRUE
          BY <3>2
        <4>2. <<j, k>> \in overlaps' /\ <<j, k>> \in Away \X Away
          BY <2>1, <4>1
        <4> QED BY <4>2 DEF AdministratorRemains, Away
      <3>3. CASE SlowKinds \cap Away # {} /\ slow.met \cap Away = {}
        <4>1. PICK w \in Administrators : w # u
          BY <2>1, <3>3 DEF AdministratorInv
        <4>2. w \in Administrators'
          BY <2>1, <4>1, AdministratorStays
        <4> QED BY <4>2 DEF AdministratorRemains
      <3> QED BY <3>1, <3>2, <3>3
    <2> QED BY <2>1, <2>2 DEF AdministratorInv, Idle
  <1>5. CASE \/ \E d \in Departments : ReadDepartment(d)
             \/ CommitDepartment
    <2>1. /\ user' = user /\ overlaps \subseteq overlaps'
          /\ slow'.kind # "user"
      BY <1>5 DEF ReadDepartment, CommitDepartment, Idle
    <2>2. Administrators' = Administrators
      BY <2>1 DEF Administrators, Active
    <2> QED BY <2>1, <2>2 DEF AdministratorInv, AdministratorRemains
  <1>6. CASE UNCHANGED <<user, department, overlaps>> /\ slow' \in {slow, Idle}
    <2>1. Administrators' = Administrators
      BY <1>6 DEF Administrators, Active
    <2> QED BY <1>6, <2>1 DEF AdministratorInv, AdministratorRemains, SlowKinds, Idle
  <1> QED BY <1>1, <1>2, <1>3, <1>4, <1>5, <1>6, RequestSteps

\* However many people and requests there are, the organisation keeps an
\* administrator unless two requests that take one away overlap
\* (_assert_not_removing_last_administrator, deactivate_user).
THEOREM AnAdministratorRemains == Spec => []AdministratorRemains
  <1>1. Init => AdministratorInv
    <2> SUFFICES ASSUME Init PROVE AdministratorInv
      OBVIOUS
    <2>1. SuperAdmin \in Users /\ "administrator" \in user[SuperAdmin].roles
      BY OrgAssumption DEF Init
    <2>2. PICK d \in Departments :
             user \in [Users -> {Absent} \cup [status : {"active"}, roles : RoleSets,
                                               manager : {Nobody}, department : {d}]]
      BY DEF Init
    <2>3. user[SuperAdmin].status = "active"
      BY <2>1, <2>2 DEF Absent
    <2> QED BY <2>1, <2>3 DEF Init, AdministratorInv, AdministratorRemains, Administrators,
                              Active, Idle
  <1>2. AdministratorInv => AdministratorRemains
    BY DEF AdministratorInv
  <1> QED BY <1>1, <1>2, AdministratorStep, ShapeInvariant, PTL DEF Spec

-----------------------------------------------------------------------------
(***************************************************************************)
(* Managers.                                                               *)
(***************************************************************************)

\* The walk upwards begins with the manager himself.
LEMMA AboveHasManager ==
    ASSUME NEW m \in Users
    PROVE  m \in Above(m)
  BY DEF Above

\* It is closed: whose manager is not NULL has his manager in it.
LEMMA AboveIsClosed ==
    ASSUME TypeOK, NEW m \in Users, NEW x \in Above(m)
    PROVE  user[x].manager \in Above(m) \cup {Nobody}
  <1>1. x \in Users /\ user[x].manager \in Users \cup {Nobody}
    BY DEF Above, TypeOK, Row
  <1>2. ASSUME user[x].manager # Nobody,
               NEW S \in SUBSET Users,
               m \in S, \A y \in S : user[y].manager \in S \cup {Nobody}
        PROVE  user[x].manager \in S
    <2>1. x \in S
      BY <1>2 DEF Above
    <2> QED BY <1>2, <2>1
  <1> QED BY <1>1, <1>2 DEF Above

\* It does not grow when managers are only taken away.
LEMMA AboveShrinks ==
    ASSUME NEW m \in Users,
           \A v \in Users : user'[v].manager \in {user[v].manager, Nobody}
    PROVE  \A v \in Users : v \in Above(m)' => v \in Above(m)
  <1> SUFFICES ASSUME NEW v \in Users, v \in Above(m)',
                      NEW S \in SUBSET Users,
                      m \in S, \A x \in S : user[x].manager \in S \cup {Nobody}
               PROVE  v \in S
    BY DEF Above
  <1>1. \A x \in S : user'[x].manager \in S \cup {Nobody}
    OBVIOUS
  <1> QED BY <1>1 DEF Above

\* A slow request that assigns a manager relies on his being active, one that
\* deactivates somebody on nobody reporting to him.
ManagerInv ==
    /\ NobodyReportsToInactive
    /\ slow.kind = "user" /\ "line" \in SlowKinds =>
          /\ slow.to.manager \in Users
          /\ slow.to.manager # slow.user
          /\ "leave" \notin slow.met => Active(slow.to.manager)
    /\ slow.kind = "user" /\ "leave" \in SlowKinds /\ "line" \notin slow.met =>
          \A v \in Users : Active(v) => user[v].manager # slow.user

\* Who reports to somebody new is the one whose manager was changed.
LEMMA NewReports ==
    ASSUME OrgInv, NEW u \in Users, NEW new, NEW kinds, Change(u, new, kinds),
           NEW v \in Users, user'[v].status = "active", user'[v].manager # Nobody
    PROVE  \/ v = u /\ "line" \in kinds
           \/ Active(v) /\ user[v].manager = user'[v].manager
  <1>1. CASE v # u
    BY <1>1, ChangeEffects DEF Active
  <1>2. CASE v = u /\ "line" \notin kinds
    <2>1. user[v].manager = user'[v].manager
      BY <1>2, ChangeEffects
    <2>2. user[v].status # "absent"
      BY <2>1 DEF OrgInv
    <2> QED BY <1>2, <2>1, <2>2, ChangeEffects DEF Change, Active
  <1> QED BY <1>1, <1>2

\* The kinds of a row that is written for a request of a kind "line" name a
\* manager.
LEMMA LineNamesManager ==
    ASSUME NEW seen \in Row, NEW to \in Row, "line" \in KindsOf(seen, to)
    PROVE  to.manager \in Users
  BY DEF KindsOf, Row

LEMMA ManagerStep == OrgInv /\ ManagerInv /\ [Next]_vars => ManagerInv'
  <1> SUFFICES ASSUME OrgInv, ManagerInv, [Next]_vars PROVE ManagerInv'
    OBVIOUS
  <1>0. TypeOK
    BY DEF OrgInv
  <1>1. ASSUME NEW u \in Users, NEW new \in Row, NEW kinds \in SUBSET Kinds, Alone(u, new, kinds)
        PROVE  ManagerInv'
    <2>1. /\ Change(u, new, kinds) /\ Checks(u, new, kinds) /\ Meet(kinds)
          /\ overlaps' = overlaps
      BY <1>1 DEF Alone
    <2>2. ASSUME NEW v \in Users, user'[v].status = "active", user'[v].manager # Nobody,
                 user'[user'[v].manager].status # "active"
          PROVE  \E w \in Users : /\ Active(w) /\ user[w].manager # Nobody
                                  /\ ~ Active(user[w].manager)
      <3> DEFINE m == user'[v].manager
      <3>1. m \in Users
        BY <2>1, <2>2, ChangeRows DEF Row
      <3>2. CASE v = u /\ "line" \in kinds
        <4>1. m = new.manager
          BY <2>1, <3>2, ChangeEffects
        <4>2. Active(m) /\ u \notin Above(m)
          BY <2>1, <3>2, <4>1 DEF Checks
        <4>3. m # u
          BY <3>1, <4>2, AboveHasManager
        <4> QED BY <2>1, <2>2, <3>1, <4>2, <4>3, ChangeEffects DEF Active
      <3>3. CASE Active(v) /\ user[v].manager = m
        <4>1. CASE Active(m)
          <5>1. "leave" \in kinds /\ m = u
            BY <2>1, <2>2, <3>1, <4>1, ChangeEffects DEF Active
          <5> QED BY <2>1, <3>3, <5>1 DEF Checks
        <4>2. CASE ~ Active(m)
          BY <2>2, <3>3, <4>2
        <4> QED BY <4>1, <4>2
      <3> QED BY <2>1, <2>2, <3>2, <3>3, NewReports
    <2>3. NobodyReportsToInactive'
      BY <2>1, <2>2 DEF NobodyReportsToInactive, ManagerInv, Active
    <2>4. ASSUME slow'.kind = "user"
          PROVE  /\ slow.kind = "user" /\ slow'.user = slow.user
                 /\ slow'.seen = slow.seen /\ slow'.to = slow.to
                 /\ slow'.met = slow.met \cup kinds
                 /\ SlowKinds' = SlowKinds
      BY <1>0, <2>1, <2>4, MeetFacts DEF SlowKinds
    <2>5. ASSUME slow'.kind = "user", "line" \in SlowKinds'
          PROVE  /\ slow'.to.manager \in Users
                 /\ slow'.to.manager # slow'.user
                 /\ "leave" \notin slow'.met => user'[slow'.to.manager].status = "active"
      <3>1. /\ slow.to.manager \in Users
            /\ slow.to.manager # slow.user
            /\ "leave" \notin slow.met => Active(slow.to.manager)
        BY <2>4, <2>5 DEF ManagerInv
      <3> QED BY <2>1, <2>4, <2>5, <3>1, ChangeEffects DEF Active
    <2>6. ASSUME slow'.kind = "user", "leave" \in SlowKinds', "line" \notin slow'.met,
                 NEW v \in Users, user'[v].status = "active"
          PROVE  user'[v].manager # slow'.user
      <3>1. "line" \notin kinds /\ slow'.user = slow.user /\ slow.user \in Users
        BY <1>0, <2>4, <2>6, SlowTypes DEF UserRequest
      <3>2. \A w \in Users : Active(w) => user[w].manager # slow.user
        BY <2>4, <2>6 DEF ManagerInv
      <3>3. CASE user'[v].manager = Nobody
        BY <3>1, <3>3, OrgAssumption
      <3>4. CASE user'[v].manager # Nobody
        BY <2>1, <2>6, <3>1, <3>2, <3>4, NewReports
      <3> QED BY <3>3, <3>4
    <2> QED BY <2>3, <2>5, <2>6 DEF ManagerInv, Active
  <1>2. ASSUME NEW d \in Departments, DepartmentNext(d)
        PROVE  ManagerInv'
    <2>1. /\ UNCHANGED <<user, overlaps>> /\ slow'.kind = slow.kind
          /\ slow.kind = "user" =>
                /\ slow'.user = slow.user /\ slow'.seen = slow.seen /\ slow'.to = slow.to
                /\ slow.met \subseteq slow'.met
      BY <1>2, DepartmentSteps
    <2>2. slow'.kind = "user" => SlowKinds' = SlowKinds
      BY <2>1 DEF SlowKinds
    <2> QED BY <2>1, <2>2 DEF ManagerInv, NobodyReportsToInactive, Active
  <1>3. ASSUME NEW u \in Users, NEW to \in Row, Looks(u, to)
        PROVE  ManagerInv'
    <2>1. /\ Checks(u, to, KindsOf(user[u], to))
          /\ UNCHANGED <<user, overlaps>>
          /\ SlowKinds' = KindsOf(user[u], to) /\ slow'.user = u /\ slow'.to = to
      BY <1>3 DEF Looks, SlowKinds
    <2>2. "line" \in KindsOf(user[u], to) => to.manager \in Users /\ to.manager # u
      BY <1>0, <2>1, LineNamesManager, AboveHasManager DEF Checks, TypeOK
    <2> QED BY <2>1, <2>2 DEF Checks, ManagerInv, NobodyReportsToInactive, Active
  <1>4. ASSUME NEW u \in Users, NEW new \in Row, Commits(u, new)
        PROVE  ManagerInv'
    <2>1. /\ slow.kind = "user" /\ u = slow.user
          /\ Change(u, new, SlowKinds)
          /\ "line" \in SlowKinds => new.manager = slow.to.manager
          /\ overlaps' = overlaps \cup (SlowKinds \X slow.met)
          /\ slow' = Idle
      BY <1>4 DEF Commits
    <2>2. ASSUME NEW v \in Users, user'[v].status = "active", user'[v].manager # Nobody,
                 user'[user'[v].manager].status # "active",
                 ~ \E w \in Users : /\ Active(w) /\ user[w].manager # Nobody
                                    /\ ~ Active(user[w].manager)
          PROVE  {<<"line", "leave">>, <<"leave", "line">>} \cap overlaps' # {}
      <3> DEFINE m == user'[v].manager
      <3>1. m \in Users
        BY <2>1, <2>2, ChangeRows DEF Row
      <3>2. CASE v = u /\ "line" \in SlowKinds
        <4>1. m = slow.to.manager /\ m # u
          BY <2>1, <3>2, ChangeEffects DEF ManagerInv
        <4>2. user[m] = user'[m]
          BY <2>1, <3>1, <4>1, ChangeEffects
        <4>3. "leave" \in slow.met
          BY <2>1, <2>2, <3>2, <4>1, <4>2 DEF ManagerInv, Active
        <4>4. <<"line", "leave">> \in overlaps'
          BY <2>1, <3>2, <4>3
        <4> QED BY <4>4
      <3>3. CASE Active(v) /\ user[v].manager = m
        <4>1. Active(m)
          BY <2>2, <3>3
        <4>2. "leave" \in SlowKinds /\ m = u
          BY <2>1, <2>2, <3>1, <4>1, ChangeEffects DEF Active
        <4>3. "line" \in slow.met
          BY <2>1, <3>3, <4>2 DEF ManagerInv
        <4>4. <<"leave", "line">> \in overlaps'
          BY <2>1, <4>2, <4>3
        <4> QED BY <4>4
      <3> QED BY <2>1, <2>2, <3>2, <3>3, NewReports
    <2>3. NobodyReportsToInactive'
      BY <2>1, <2>2 DEF NobodyReportsToInactive, ManagerInv, Active
    <2> QED BY <2>1, <2>3 DEF ManagerInv, Idle
  <1>5. CASE \/ \E d \in Departments : ReadDepartment(d)
             \/ CommitDepartment
    <2>1. /\ user' = user /\ overlaps \subseteq overlaps'
          /\ slow'.kind # "user"
      BY <1>5 DEF ReadDepartment, CommitDepartment, Idle
    <2> QED BY <2>1 DEF ManagerInv, NobodyReportsToInactive, Active
  <1>6. CASE UNCHANGED <<user, department, overlaps>> /\ slow' \in {slow, Idle}
    BY <1>6 DEF ManagerInv, NobodyReportsToInactive, Active, SlowKinds, Idle
  <1> QED BY <1>1, <1>2, <1>3, <1>4, <1>5, <1>6, RequestSteps

\* However many people and requests there are, active people have active
\* managers unless a manager leaves while being assigned (deactivate_user,
\* _validate_manager).
THEOREM ManagersAreActive == Spec => []NobodyReportsToInactive
  <1>1. Init => ManagerInv
    <2> SUFFICES ASSUME Init PROVE ManagerInv
      OBVIOUS
    <2>1. \A u \in Users : user[u].manager = Nobody
      BY DEF Init, Absent
    <2> QED BY <2>1 DEF Init, ManagerInv, NobodyReportsToInactive, Idle
  <1>2. ManagerInv => NobodyReportsToInactive
    BY DEF ManagerInv
  <1> QED BY <1>1, <1>2, ManagerStep, ShapeInvariant, PTL DEF Spec

-----------------------------------------------------------------------------
(***************************************************************************)
(* Reporting lines.                                                        *)
(***************************************************************************)

\* A slow request that assigns a manager relies on not being above him.
LineInv ==
    /\ NoReportingCycle
    /\ slow.kind = "user" /\ "line" \in SlowKinds =>
          /\ slow.to.manager \in Users
          /\ "line" \notin slow.met => slow.user \notin Above(slow.to.manager)

\* A manager who does not report to u, directly or not, closes no cycle when
\* u is to report to him; and none is closed by taking managers away.
LEMMA NoNewCycle ==
    ASSUME OrgInv, NEW u \in Users, NEW new, NEW kinds, Change(u, new, kinds),
           "line" \in kinds => new.manager \in Users /\ u \notin Above(new.manager),
           NEW S \in SUBSET Users, S # {}, \A x \in S : user'[x].manager \in S
    PROVE  \E T \in SUBSET Users : Cycle(T)
  <1>0. TypeOK
    BY DEF OrgInv
  <1>1. CASE "line" \notin kinds
    <2>1. \A x \in S : user'[x].manager \in {user[x].manager, Nobody}
      BY <1>1, ChangeEffects
    <2>2. \A x \in S : user[x].manager \in S
      BY <2>1, OrgAssumption
    <2> QED BY <2>2 DEF Cycle
  <1>2. CASE "line" \in kinds /\ u \notin S
    <2>1. \A x \in S : user'[x] = user[x]
      BY <1>2, ChangeEffects
    <2> QED BY <2>1 DEF Cycle
  <1>3. CASE "line" \in kinds /\ u \in S
    <2> DEFINE m == new.manager
               T == S \cap Above(m)
    <2>1. m \in Users /\ u \notin Above(m)
      BY <1>3
    <2>2. m \in S
      BY <1>3, ChangeEffects
    <2>3. m \in T
      BY <2>1, <2>2, AboveHasManager
    <2>4. ASSUME NEW x \in T PROVE user[x].manager \in T
      <3>1. x # u /\ user'[x] = user[x]
        BY <2>1, <2>4, ChangeEffects
      <3>2. user[x].manager \in S
        BY <3>1
      <3>3. user[x].manager \in Above(m) \cup {Nobody}
        BY <1>0, <2>1, AboveIsClosed
      <3> QED BY <3>2, <3>3, OrgAssumption
    <2> HIDE DEF T
    <2>5. Cycle(T)
      BY <2>3, <2>4 DEF Cycle
    <2>6. T \in SUBSET Users
      BY DEF T
    <2> QED BY <2>5, <2>6
  <1> QED BY <1>1, <1>2, <1>3

\* The walk upwards is the same as long as managers are.
LEMMA SameAbove ==
    ASSUME NEW m \in Users, user' = user, NEW v \in Users
    PROVE  v \in Above(m)' <=> v \in Above(m)
  BY DEF Above

LEMMA LineStep == OrgInv /\ LineInv /\ [Next]_vars => LineInv'
  <1> SUFFICES ASSUME OrgInv, LineInv, [Next]_vars PROVE LineInv'
    OBVIOUS
  <1>0. TypeOK
    BY DEF OrgInv
  <1>1. ASSUME NEW u \in Users, NEW new \in Row, NEW kinds \in SUBSET Kinds, Alone(u, new, kinds)
        PROVE  LineInv'
    <2>1. /\ Change(u, new, kinds) /\ Checks(u, new, kinds) /\ Meet(kinds)
          /\ overlaps' = overlaps
      BY <1>1 DEF Alone
    <2>2. "line" \in kinds => new.manager \in Users /\ u \notin Above(new.manager)
      BY <2>1 DEF Checks
    <2>3. NoReportingCycle'
      <3>1. ASSUME NEW S \in SUBSET Users, S # {}, \A x \in S : user'[x].manager \in S
            PROVE  <<"line", "line">> \in overlaps'
        <4>1. \E T \in SUBSET Users : Cycle(T)
          BY <2>1, <2>2, <3>1, NoNewCycle
        <4> QED BY <2>1, <4>1 DEF LineInv, NoReportingCycle
      <3> QED BY <3>1 DEF NoReportingCycle, Cycle
    <2>4. ASSUME slow'.kind = "user", "line" \in SlowKinds'
          PROVE  /\ slow'.to.manager \in Users
                 /\ "line" \notin slow'.met => slow'.user \notin Above(slow.to.manager)'
                 /\ slow'.to.manager = slow.to.manager
      <3>1. /\ slow.kind = "user" /\ slow'.user = slow.user
            /\ slow'.seen = slow.seen /\ slow'.to = slow.to
            /\ slow'.met = slow.met \cup kinds
            /\ SlowKinds' = SlowKinds
            /\ slow.user \in Users
        BY <1>0, <2>1, <2>4, MeetFacts DEF SlowKinds, UserRequest
      <3>2. slow.to.manager \in Users
        BY <2>4, <3>1 DEF LineInv
      <3>3. ASSUME "line" \notin slow'.met PROVE slow.user \notin Above(slow.to.manager)'
        <4>1. "line" \notin slow.met /\ "line" \notin kinds
          BY <3>1, <3>3
        <4>2. slow.user \notin Above(slow.to.manager)
          BY <2>4, <3>1, <4>1 DEF LineInv
        <4>3. \A v \in Users : user'[v].manager \in {user[v].manager, Nobody}
          BY <2>1, <4>1, ChangeEffects
        <4>4. PICK m \in Users : m = slow.to.manager /\ m = slow'.to.manager
          BY <3>1, <3>2
        <4>5. slow.user \notin Above(m)'
          BY <3>1, <4>2, <4>3, <4>4, AboveShrinks
        <4> QED BY <4>4, <4>5
      <3> QED BY <3>1, <3>2, <3>3
    <2> QED BY <2>3, <2>4 DEF LineInv
  <1>2. ASSUME NEW d \in Departments, DepartmentNext(d)
        PROVE  LineInv'
    <2>1. /\ UNCHANGED <<user, overlaps>> /\ slow'.kind = slow.kind
          /\ slow.kind = "user" =>
                /\ slow'.user = slow.user /\ slow'.seen = slow.seen /\ slow'.to = slow.to
                /\ slow.met \subseteq slow'.met
      BY <1>2, DepartmentSteps
    <2>2. NoReportingCycle'
      BY <2>1 DEF LineInv, NoReportingCycle, Cycle
    <2>3. ASSUME slow'.kind = "user", "line" \in SlowKinds'
          PROVE  /\ slow'.to.manager \in Users
                 /\ "line" \notin slow'.met => slow'.user \notin Above(slow.to.manager)'
      <3>1. /\ slow.kind = "user" /\ SlowKinds' = SlowKinds /\ slow.user \in Users
            /\ slow'.to.manager = slow.to.manager /\ slow'.user = slow.user
        BY <1>0, <2>1, <2>3, SlowTypes DEF SlowKinds, UserRequest
      <3>2. PICK m \in Users : m = slow.to.manager
        BY <2>3, <3>1 DEF LineInv
      <3>3. "line" \notin slow'.met => slow.user \notin Above(m)'
        BY <2>1, <2>3, <3>1, <3>2, SameAbove DEF LineInv
      <3> QED BY <3>1, <3>2, <3>3
    <2> QED BY <2>2, <2>3 DEF LineInv
  <1>3. ASSUME NEW u \in Users, NEW to \in Row, Looks(u, to)
        PROVE  LineInv'
    <2>1. /\ Checks(u, to, KindsOf(user[u], to))
          /\ UNCHANGED <<user, overlaps>>
          /\ SlowKinds' = KindsOf(user[u], to) /\ slow'.user = u /\ slow'.to = to
      BY <1>3 DEF Looks, SlowKinds
    <2>2. NoReportingCycle'
      BY <2>1 DEF LineInv, NoReportingCycle, Cycle
    <2>3. ASSUME "line" \in SlowKinds'
          PROVE  to.manager \in Users /\ u \notin Above(to.manager)'
      BY <2>1, <2>3, SameAbove DEF Checks
    <2>4. "line" \in SlowKinds' =>
             slow'.to.manager \in Users /\ slow'.user \notin Above(slow.to.manager)'
      <3>1. Above(slow.to.manager)' = Above(to.manager)'
        BY <2>1 DEF Above
      <3> QED BY <2>1, <2>3, <3>1
    <2> QED BY <2>2, <2>4 DEF LineInv
  <1>4. ASSUME NEW u \in Users, NEW new \in Row, Commits(u, new)
        PROVE  LineInv'
    <2>1. /\ slow.kind = "user" /\ u = slow.user
          /\ Change(u, new, SlowKinds)
          /\ "line" \in SlowKinds => new.manager = slow.to.manager
          /\ overlaps' = overlaps \cup (SlowKinds \X slow.met)
          /\ slow' = Idle
      BY <1>4 DEF Commits
    <2>2. NoReportingCycle'
      <3>1. ASSUME NEW S \in SUBSET Users, S # {}, \A x \in S : user'[x].manager \in S
            PROVE  <<"line", "line">> \in overlaps'
        <4>1. CASE "line" \in SlowKinds /\ "line" \in slow.met
          BY <2>1, <4>1
        <4>2. CASE "line" \in SlowKinds => "line" \notin slow.met
          <5>1. "line" \in SlowKinds => new.manager \in Users /\ u \notin Above(new.manager)
            BY <2>1, <4>2 DEF LineInv
          <5>2. \E T \in SUBSET Users : Cycle(T)
            BY <2>1, <3>1, <5>1, NoNewCycle
          <5> QED BY <2>1, <5>2 DEF LineInv, NoReportingCycle
        <4> QED BY <4>1, <4>2
      <3> QED BY <3>1 DEF NoReportingCycle, Cycle
    <2> QED BY <2>1, <2>2 DEF LineInv, Idle
  <1>5. CASE \/ \E d \in Departments : ReadDepartment(d)
             \/ CommitDepartment
    <2>1. /\ user' = user /\ overlaps \subseteq overlaps'
          /\ slow'.kind # "user"
      BY <1>5 DEF ReadDepartment, CommitDepartment, Idle
    <2> QED BY <2>1 DEF LineInv, NoReportingCycle, Cycle
  <1>6. CASE UNCHANGED <<user, department, overlaps>> /\ slow' \in {slow, Idle}
    <2>1. NoReportingCycle'
      BY <1>6 DEF LineInv, NoReportingCycle, Cycle
    <2>2. CASE slow' = Idle
      BY <2>1, <2>2 DEF LineInv, Idle
    <2>3. CASE slow' = slow
      <3>1. SlowKinds' = SlowKinds /\ Above(slow.to.manager)' = Above(slow.to.manager)
        BY <1>6, <2>3 DEF SlowKinds, Above
      <3> QED BY <2>1, <2>3, <3>1 DEF LineInv
    <2> QED BY <1>6, <2>2, <2>3
  <1> QED BY <1>1, <1>2, <1>3, <1>4, <1>5, <1>6, RequestSteps

LEMMA LineInvariant == Spec => []LineInv
  <1>1. Init => LineInv
    <2> SUFFICES ASSUME Init PROVE LineInv
      OBVIOUS
    <2>1. \A u \in Users : user[u].manager = Nobody
      BY DEF Init, Absent
    <2>2. ~ \E S \in SUBSET Users : Cycle(S)
      BY <2>1, OrgAssumption DEF Cycle
    <2> QED BY <2>2 DEF Init, LineInv, NoReportingCycle, Idle
  <1> QED BY <1>1, LineStep, ShapeInvariant, PTL DEF Spec

\* However many people and requests there are, nobody is his own superior
\* unless two changes of managers overlap (_validate_manager).
THEOREM LinesEnd == Spec => []NoReportingCycle
  <1>1. LineInv => NoReportingCycle
    BY DEF LineInv
  <1> QED BY <1>1, LineInvariant, PTL

-----------------------------------------------------------------------------
(***************************************************************************)
(* The org chart.                                                          *)
(***************************************************************************)

\* A person has himself and the line of his manager above him.
LEMMA OwnLine ==
    ASSUME NEW u \in Users
    PROVE  u \in LineOf(u) /\ LineOf(u) \subseteq Users
  BY DEF LineOf

LEMMA LineGoesOn ==
    ASSUME NEW u \in Users, NEW x \in LineOf(u)
    PROVE  ActiveManager(x) \subseteq LineOf(u)
  <1> SUFFICES ASSUME NEW m \in ActiveManager(x),
                      NEW S \in SUBSET Users,
                      u \in S, \A y \in S : ActiveManager(y) \subseteq S
               PROVE  m \in S
    BY DEF LineOf, ActiveManager
  <1>1. x \in S
    BY DEF LineOf
  <1> QED BY <1>1

\* Every set that has u and goes on as lines do has the whole line.
LEMMA LineIsLeast ==
    ASSUME NEW u \in Users, NEW S \in SUBSET Users,
           u \in S, \A x \in S : ActiveManager(x) \subseteq S
    PROVE  LineOf(u) \subseteq S
  BY DEF LineOf

\* The line of a root is the root.
LEMMA LineOfRoot ==
    ASSUME NEW r \in Roots
    PROVE  LineOf(r) = {r}
  <1>1. r \in Users /\ ActiveManager(r) = {}
    BY DEF Roots
  <1>2. LineOf(r) \subseteq {r}
    BY <1>1, LineIsLeast
  <1> QED BY <1>1, <1>2, OwnLine

\* Everybody on the line of u who is not the root is under it as u is.
LEMMA OneRoot ==
    ASSUME NEW u \in Users, NEW r \in Roots \cap LineOf(u), NEW q \in Roots \cap LineOf(u)
    PROVE  r = q
  <1> DEFINE S == { x \in LineOf(u) : r \in LineOf(x) }
  <1>1. u \in S
    BY OwnLine
  <1>2. ASSUME NEW x \in S, NEW m \in ActiveManager(x)
        PROVE  m \in S
    <2>1. x \in Users /\ m \in Users /\ m \in LineOf(u)
      BY <1>2, OwnLine, LineGoesOn DEF ActiveManager
    <2>2. x # r
      BY <1>2 DEF Roots
    <2>3. \A y \in {x} \cup LineOf(m) : ActiveManager(y) \subseteq {x} \cup LineOf(m)
      <3>1. ActiveManager(x) = {m}
        BY <1>2 DEF ActiveManager
      <3>2. ActiveManager(x) \subseteq LineOf(m)
        BY <2>1, <3>1, OwnLine
      <3> QED BY <2>1, <3>2, LineGoesOn
    <2>4. LineOf(x) \subseteq {x} \cup LineOf(m)
      <3>1. {x} \cup LineOf(m) \in SUBSET Users
        BY <2>1, OwnLine
      <3> QED BY <2>1, <2>3, <3>1, LineIsLeast
    <2> QED BY <1>2, <2>1, <2>2, <2>4
  <1>3. LineOf(u) \subseteq S
    <2>1. S \in SUBSET Users
      BY OwnLine
    <2> HIDE DEF S
    <2> QED BY <1>1, <1>2, <2>1, LineIsLeast
  <1>4. r \in LineOf(q)
    BY <1>3
  <1> QED BY <1>4, LineOfRoot

\* Without a cycle every line ends at a root.
LEMMA LinesHaveRoots ==
    ASSUME NEW u \in Users, Active(u), ~ \E S \in SUBSET Users : Cycle(S)
    PROVE  LineOf(u) \cap Roots # {}
  <1> SUFFICES ASSUME LineOf(u) \cap Roots = {} PROVE FALSE
    OBVIOUS
  <1> DEFINE S == { x \in LineOf(u) : Active(x) }
  <1>1. S \in SUBSET Users /\ u \in S
    BY OwnLine
  <1>2. ASSUME NEW x \in S PROVE ActiveManager(x) \subseteq S
    <2>1. ActiveManager(x) \subseteq LineOf(u)
      BY LineGoesOn
    <2> QED BY <2>1 DEF ActiveManager
  <1>3. ASSUME NEW x \in S PROVE user[x].manager \in S
    <2>1. ActiveManager(x) # {}
      BY <1>1 DEF Roots
    <2> QED BY <1>2, <2>1 DEF ActiveManager
  <1> HIDE DEF S
  <1> QED BY <1>1, <1>3 DEF Cycle

\* Every active person is shown, and once unless a cycle has been let in
\* (build_org_tree).
THEOREM TheChartIsComplete == Spec => []EverybodyIsShown
  <1>1. LineInv => EverybodyIsShown
    <2> SUFFICES ASSUME LineInv, NEW u \in Users, Active(u)
                 PROVE  /\ TreesWith(u) # {}
                        /\ Cardinality(TreesWith(u)) > 1 => <<"line", "line">> \in overlaps
      BY DEF EverybodyIsShown
    <2>1. TreesWith(u) # {}
      <3>1. CASE LineOf(u) \cap Roots # {}
        BY <3>1 DEF TreesWith
      <3>2. CASE LineOf(u) \cap Roots = {}
        BY <3>2, OwnLine DEF TreesWith, Leftover
      <3> QED BY <3>1, <3>2
    <2>2. CASE \E S \in SUBSET Users : Cycle(S)
      BY <2>1, <2>2 DEF LineInv, NoReportingCycle
    <2>3. CASE ~ \E S \in SUBSET Users : Cycle(S)
      <3>1. Leftover = {}
        BY <2>3, LinesHaveRoots DEF Leftover
      <3>2. \A r, q \in TreesWith(u) : r = q
        BY <3>1, OneRoot DEF TreesWith
      <3>3. PICK r \in TreesWith(u) : TRUE
        BY <2>1
      <3>4. TreesWith(u) = {r}
        BY <3>2, <3>3
      <3>5. Cardinality(TreesWith(u)) = 1
        BY <3>4, FS_Singleton
      <3> QED BY <2>1, <3>5
    <2> QED BY <2>2, <2>3
  <1> QED BY <1>1, LineInvariant, PTL

-----------------------------------------------------------------------------
(***************************************************************************)
(* Walks and loops, step by step.                                          *)
(***************************************************************************)

\* A set of numbers that is not empty has a least one.
LEMMA LeastNumber ==
    ASSUME NEW T, T \subseteq Nat, T # {}
    PROVE  \E n \in T : \A m \in T : n <= m
  <1> DEFINE R == OpToRel(<, Nat)
  <1>1. IsWellFoundedOn(R, Nat)
    BY NatLessThanWellFounded
  <1>2. \A m, n \in Nat : m < n => <<m, n>> \in R
    BY DEF OpToRel
  <1> HIDE DEF R
  <1>3. PICK n \in T : \A m \in T : ~ (<<m, n>> \in R)
    BY <1>1, WFMin
  <1>4. ASSUME NEW m \in T PROVE n <= m
    <2>1. m \in Nat /\ n \in Nat /\ ~ (m < n)
      BY <1>2, <1>3
    <2> QED BY <2>1
  <1> QED BY <1>4

\* A property of numbers up to n that steps from each to the next.
LEMMA UpTo ==
    ASSUME NEW n \in Nat, NEW P, 0 \in P, \A i \in 1..n : i - 1 \in P => i \in P
    PROVE  \A i \in 0..n : i \in P
  <1> DEFINE T == { i \in 0..n : i \notin P }
  <1>1. SUFFICES ASSUME T # {} PROVE FALSE
    OBVIOUS
  <1>2. PICK i \in T : \A j \in T : i <= j
    <2>1. T \subseteq Nat
      OBVIOUS
    <2> HIDE DEF T
    <2> QED BY <1>1, <2>1, LeastNumber
  <1>3. i # 0 /\ i \in 1..n /\ i - 1 \in 0..n /\ ~ (i <= i - 1)
    BY <1>2
  <1>4. i - 1 \in P
    BY <1>2, <1>3
  <1> QED BY <1>2, <1>3, <1>4

\* What a function computes step by step exists.
Iterated(f, n, base, step) == f[0] = base /\ \A i \in 1..n : f[i] = step[i][f[i - 1]]

LEMMA Iterates ==
    ASSUME NEW n \in Nat, NEW S, NEW base \in S, NEW step \in [1..n -> [S -> S]]
    PROVE  \E f \in [0..n -> S] : Iterated(f, n, base, step)
  <1> DEFINE Good(m, f) == f[0] = base /\ \A i \in 1..m : f[i] = step[i][f[i - 1]]
             P == { m \in 0..n : \E f \in [0..n -> S] : Good(m, f) }
  <1>1. 0 \in P
    <2>1. [i \in 0..n |-> base] \in [0..n -> S] /\ Good(0, [i \in 0..n |-> base]) /\ 0 \in 0..n
      OBVIOUS
    <2> HIDE DEF Good
    <2> QED BY <2>1
  <1>2. ASSUME NEW m \in 1..n, m - 1 \in P PROVE m \in P
    <2>1. PICK f \in [0..n -> S] : Good(m - 1, f)
      BY <1>2
    <2> DEFINE g == [f EXCEPT ![m] = step[m][f[m - 1]]]
    <2>2. g \in [0..n -> S]
      <3>1. step[m] \in [S -> S] /\ f[m - 1] \in S
        OBVIOUS
      <3> QED BY <3>1
    <2>3. g[0] = base /\ \A i \in 1..m : g[i] = step[i][g[i - 1]]
      <3>1. g[0] = base
        BY <2>1
      <3>2. ASSUME NEW i \in 1..m PROVE g[i] = step[i][g[i - 1]]
        <4>1. CASE i = m
          <5>1. g[m] = step[m][f[m - 1]] /\ g[m - 1] = f[m - 1]
            OBVIOUS
          <5> QED BY <4>1, <5>1
        <4>2. CASE i # m
          <5>1. i \in 1..(m - 1) /\ g[i] = f[i] /\ g[i - 1] = f[i - 1]
            BY <4>2
          <5> QED BY <2>1, <5>1
        <4> QED BY <4>1, <4>2
      <3> QED BY <3>1, <3>2
    <2> HIDE DEF g
    <2> QED BY <2>2, <2>3
  <1>3. n \in P
    <2>1. n \in 0..n
      OBVIOUS
    <2> HIDE DEF P
    <2> QED BY <1>1, <1>2, <2>1, UpTo
  <1> QED BY <1>3 DEF Iterated

-----------------------------------------------------------------------------
(***************************************************************************)
(* The managers of an employee.                                            *)
(***************************************************************************)
Height == Cardinality(Users)

LEMMA HeightIsPositive == Height \in Nat /\ Height >= 1
  <1>1. Height \in Nat /\ Users # {}
    BY OrgAssumption, FS_CardinalityType DEF Height
  <1>2. Height # 0
    BY <1>1, OrgAssumption, FS_EmptySet DEF Height
  <1> QED BY <1>1, <1>2

LEMMA UpTypes ==
    ASSUME TypeOK, NEW x \in Users \cup {Nobody}
    PROVE  /\ Up(x) \in Users \cup {Nobody}
           /\ Up(x) # Nobody => x \in Users /\ user[x].manager = Up(x) /\ Up(x) \in Users /\ Active(Up(x))
           /\ Up(Nobody) = Nobody
  BY DEF TypeOK, Row, Up

LEMMA SuperiorWalk ==
    ASSUME TypeOK, NEW u \in Users
    PROVE  /\ Superior(u) \in [0..Height -> Users \cup {Nobody}]
           /\ Superior(u)[0] = u
           /\ \A i \in 1..Height : Superior(u)[i] = Up(Superior(u)[i - 1])
  <1> DEFINE S == Users \cup {Nobody}
             Walk(f) == f = [n \in 0..Height |-> IF n = 0 THEN u ELSE Up(f[n - 1])]
  <1>1. \E f : Walk(f) /\ f \in [0..Height -> S]
    <2> DEFINE step == [i \in 1..Height |-> [x \in S |-> Up(x)]]
    <2>1. step \in [1..Height -> [S -> S]]
      BY UpTypes
    <2> HIDE DEF step
    <2>0. u \in S /\ \A x \in S : Up(x) \in S
      BY UpTypes
    <2>2. PICK f \in [0..Height -> S] : Iterated(f, Height, u, step)
      <3> HIDE DEF S
      <3> QED BY <2>0, <2>1, HeightIsPositive, Iterates
    <2>3. \A i \in 1..Height : f[i] = Up(f[i - 1])
      <3>1. ASSUME NEW i \in 1..Height PROVE i - 1 \in 0..Height
        BY HeightIsPositive
      <3> QED BY <2>2, <3>1 DEF step, Iterated
    <2>4. \A i \in 0..Height : i = 0 \/ i \in 1..Height
      BY HeightIsPositive
    <2>5. Walk(f)
      BY <2>2, <2>3, <2>4 DEF Iterated
    <2> QED BY <2>5
  <1>2. Superior(u) = CHOOSE f : Walk(f)
    BY DEF Superior, Height
  <1>3. Walk(Superior(u))
    BY <1>1, <1>2
  <1> DEFINE f == Superior(u)
  <1> HIDE DEF f
  <1>4. Walk(f)
    BY <1>3 DEF f
  <1>5. f[0] = u /\ \A i \in 1..Height : f[i] = Up(f[i - 1])
    BY <1>4, HeightIsPositive
  <1>6. \A i \in 0..Height : f[i] \in S
    <2> DEFINE P == { i \in 0..Height : f[i] \in S }
    <2>1. 0 \in P /\ \A i \in 1..Height : i - 1 \in P => i \in P
      BY <1>5, HeightIsPositive, UpTypes
    <2> HIDE DEF P
    <2>2. \A i \in 0..Height : i \in P
      BY <2>1, HeightIsPositive, UpTo
    <2> QED BY <2>2 DEF P
  <1>7. f \in [0..Height -> S]
    BY <1>4, <1>6
  <1> QED BY <1>5, <1>7 DEF f

-----------------------------------------------------------------------------
(***************************************************************************)
(* Lists of people.                                                        *)
(***************************************************************************)

\* A finite set can be listed.
LEMMA Listed ==
    ASSUME NEW T, IsFiniteSet(T)
    PROVE  /\ SetToSeq(T) \in Seq(T)
           /\ ToSet(SetToSeq(T)) \subseteq T
  <1>1. Cardinality(T) \in Nat /\ ExistsBijection(1..Cardinality(T), T)
    BY FS_CardinalityType
  <1>2. PICK f \in [1..Cardinality(T) -> T] : IsInjective(f)
    BY <1>1 DEF ExistsBijection, Bijection, Injection, IsInjective
  <1>3. SetToSeq(T) \in [1..Cardinality(T) -> T]
    BY <1>2 DEF SetToSeq
  <1>4. SetToSeq(T) \in Seq(T)
    BY <1>1, <1>3
  <1> QED BY <1>4 DEF ToSet

\* Lists of a set that are put together are lists of it.
LEMMA Flattened ==
    ASSUME NEW T, NEW seqs \in Seq(Seq(T))
    PROVE  FlattenSeq(seqs) \in Seq(T)
  <1>1. CASE Len(seqs) = 0
    BY <1>1 DEF FlattenSeq
  <1>2. CASE Len(seqs) # 0
    <2> DEFINE n == Len(seqs)
               S == Seq(T)
               Flat(f) == f = [i \in 1..n |-> IF i = 1 THEN seqs[i] ELSE f[i - 1] \o seqs[i]]
               step == [i \in 1..n |-> [s \in S |-> s \o seqs[i]]]
    <2>1. n \in Nat /\ n >= 1 /\ \A i \in 1..n : seqs[i] \in S
      BY <1>2
    <2>2. step \in [1..n -> [S -> S]] /\ <<>> \in S
      BY <2>1
    <2>3. PICK g \in [0..n -> S] : Iterated(g, n, <<>>, step)
      <3> HIDE DEF S, step, n
      <3> QED BY <2>1, <2>2, Iterates
    <2>4. \A i \in 1..n : i - 1 \in 0..n /\ i \in 0..n
      BY <2>1
    <2>5. \A i \in 1..n : g[i] = g[i - 1] \o seqs[i]
      BY <2>3, <2>4 DEF Iterated
    <2>6. g[1] = seqs[1]
      <3>1. 1 \in 1..n /\ 1 - 1 = 0
        BY <2>1
      <3>2. g[1] = <<>> \o seqs[1]
        BY <2>3, <2>5, <3>1 DEF Iterated
      <3> QED BY <2>1, <3>1, <3>2
    <2> DEFINE h == [i \in 1..n |-> g[i]]
    <2>7. Flat(h)
      <3>1. ASSUME NEW i \in 1..n
            PROVE  h[i] = IF i = 1 THEN seqs[i] ELSE h[i - 1] \o seqs[i]
        <4>1. i # 1 => i - 1 \in 1..n
          BY <2>1
        <4> QED BY <2>5, <2>6, <4>1
      <3> QED BY <3>1
    <2>8. FlattenSeq(seqs) = (CHOOSE f : Flat(f))[n]
      BY <1>2 DEF FlattenSeq
    <2> HIDE DEF h
    <2> DEFINE f == CHOOSE c : Flat(c)
    <2>9. Flat(f)
      <3> HIDE DEF Flat
      <3> QED BY <2>7
    <2> HIDE DEF f
    <2>10. \A i \in 0..n : i = 0 \/ f[i] \in S
      <3> DEFINE P == { i \in 0..n : i = 0 \/ f[i] \in S }
      <3>1. 0 \in P
        BY <2>1
      <3>2. ASSUME NEW i \in 1..n, i - 1 \in P PROVE i \in P
        <4>1. f[i] = IF i = 1 THEN seqs[i] ELSE f[i - 1] \o seqs[i]
          BY <2>9
        <4>2. i # 1 => f[i - 1] \in S
          BY <3>2
        <4>3. f[i] \in S
          BY <2>1, <4>1, <4>2
        <4> QED BY <2>4, <4>3
      <3> HIDE DEF P, n
      <3>3. \A i \in 0..n : i \in P
        BY <2>1, <3>1, <3>2, UpTo
      <3> QED BY <3>3 DEF P
    <2>11. f[n] \in S
      BY <2>1, <2>10
    <2> QED BY <2>8, <2>11 DEF f
  <1> QED BY <1>1, <1>2

\* The loop at the end of _approvers_for_report, from its first iteration.
Collects(g, selected, u) ==
    /\ g[0] = <<>>
    /\ \A i \in 1..Len(selected) :
          g[i] = IF selected[i] = u \/ selected[i] \in ToSet(g[i - 1])
                 THEN g[i - 1]
                 ELSE Append(g[i - 1], selected[i])

LEMMA UniqueLoop ==
    ASSUME NEW T, NEW selected \in Seq(T), NEW u
    PROVE  \E g \in [0..Len(selected) -> Seq(T)] :
              /\ Collects(g, selected, u)
              /\ Unique(selected, u) = g[Len(selected)]
  <1> DEFINE n == Len(selected)
             S == Seq(T)
             After(s, i) == IF selected[i] = u \/ selected[i] \in ToSet(s) THEN s
                            ELSE Append(s, selected[i])
             Loop(c) == c = [i \in 0..n |-> IF i = 0 THEN <<>> ELSE After(c[i - 1], i)]
             step == [i \in 1..n |-> [s \in S |-> After(s, i)]]
             f == CHOOSE c : Loop(c)
  <1>1. n \in Nat /\ 0 \in 0..n /\ <<>> \in S /\ \A i \in 1..n : i \in 0..n /\ i - 1 \in 0..n /\ i # 0
    OBVIOUS
  <1>2. \A i \in 1..n, s \in S : After(s, i) \in S
    <2>1. ASSUME NEW i \in 1..n, NEW s \in S PROVE After(s, i) \in S
      <3>1. selected[i] \in T
        OBVIOUS
      <3> QED BY <3>1
    <2> QED BY <2>1
  <1>3. step \in [1..n -> [S -> S]]
    <2> HIDE DEF After, S
    <2> QED BY <1>2
  <1>4. PICK g \in [0..n -> S] : Iterated(g, n, <<>>, step)
    <2> HIDE DEF S, step, n
    <2> QED BY <1>1, <1>3, Iterates
  <1>5. g[0] = <<>> /\ \A i \in 1..n : g[i] = After(g[i - 1], i)
    <2> HIDE DEF After, S
    <2> QED BY <1>1, <1>4 DEF Iterated
  <1>6. Loop(g)
    <2>1. \A i \in 0..n : i = 0 \/ i \in 1..n
      BY <1>1
    <2> QED BY <1>5, <2>1
  <1>7. Loop(f)
    <2> HIDE DEF Loop
    <2> QED BY <1>6
  <1>8. Unique(selected, u) = f[n]
    BY DEF Unique
  <1> HIDE DEF f
  <1>9. f[0] = <<>> /\ \A i \in 1..n : f[i] = After(f[i - 1], i)
    <2> HIDE DEF After, S, n
    <2>1. f[0] = <<>>
      BY <1>1, <1>7
    <2>2. ASSUME NEW i \in 1..n PROVE f[i] = After(f[i - 1], i)
      BY <1>1, <1>7
    <2> QED BY <2>1, <2>2
  <1>10. \A i \in 0..n : f[i] \in S
    <2> DEFINE P == { i \in 0..n : f[i] \in S }
    <2>1. 0 \in P
      BY <1>1, <1>9
    <2>2. ASSUME NEW i \in 1..n, i - 1 \in P PROVE i \in P
      <3> HIDE DEF After, S
      <3> QED BY <1>1, <1>2, <1>9, <2>2
    <2> HIDE DEF P, n
    <2>3. \A i \in 0..n : i \in P
      BY <1>1, <2>1, <2>2, UpTo
    <2> QED BY <2>3 DEF P
  <1>11. f \in [0..n -> S]
    <2> HIDE DEF S
    <2> QED BY <1>7, <1>10
  <1>12. Collects(f, selected, u)
    BY <1>9 DEF Collects
  <1> QED BY <1>8, <1>11, <1>12

\* What Append does.
LEMMA Appended ==
    ASSUME NEW T, NEW s \in Seq(T), NEW x \in T
    PROVE  /\ Append(s, x) \in Seq(T)
           /\ Append(s, x) # <<>>
           /\ Len(s) \in Nat
           /\ DOMAIN s = 1..Len(s)
           /\ DOMAIN Append(s, x) = 1..(Len(s) + 1)
           /\ Append(s, x)[Len(s) + 1] = x
           /\ \A j \in 1..Len(s) : Append(s, x)[j] = s[j]
  <1>1. Len(s) \in Nat /\ DOMAIN s = 1..Len(s) /\ Append(s, x) \in Seq(T)
    OBVIOUS
  <1>2. Len(Append(s, x)) = Len(s) + 1
    OBVIOUS
  <1>3. DOMAIN Append(s, x) = 1..(Len(s) + 1)
    BY <1>1, <1>2
  <1>4. Append(s, x) # <<>>
    BY <1>1, <1>2
  <1> QED BY <1>1, <1>3, <1>4

\* A route lists everybody who is selected, once, except one person.
LEMMA UniqueIsASelection ==
    ASSUME NEW T, NEW selected \in Seq(T), NEW u
    PROVE  /\ Unique(selected, u) \in Seq(T)
           /\ IsInjective(Unique(selected, u))
           /\ u \notin ToSet(Unique(selected, u))
           /\ ToSet(Unique(selected, u)) \subseteq ToSet(selected)
           /\ Unique(selected, u) = <<>> => ToSet(selected) \subseteq {u}
  <1> DEFINE n == Len(selected)
  <1>1. PICK g \in [0..n -> Seq(T)] :
              /\ Collects(g, selected, u)
              /\ Unique(selected, u) = g[n]
    BY UniqueLoop
  <1> DEFINE Good(s, i) ==
               /\ s \in Seq(T)
               /\ IsInjective(s)
               /\ u \notin ToSet(s)
               /\ ToSet(s) \subseteq ToSet(selected)
               /\ s = <<>> => \A j \in 1..i : selected[j] = u
             P == { i \in 0..n : Good(g[i], i) }
  <1>2. n \in Nat /\ \A i \in 1..n : i \in 0..n /\ i - 1 \in 0..n /\ i # 0
    OBVIOUS
  <1>3. 0 \in P
    <2>1. Good(<<>>, 0)
      BY DEF IsInjective, ToSet
    <2>2. g[0] = <<>> /\ 0 \in 0..n
      BY <1>1, <1>2 DEF Collects
    <2> QED BY <2>1, <2>2
  <1>4. ASSUME NEW i \in 1..n, i - 1 \in P PROVE i \in P
    <2> DEFINE s == g[i - 1]
               x == selected[i]
    <2>1. Good(s, i - 1) /\ x \in T /\ x \in ToSet(selected) /\ i \in 0..n
      <3>1. Good(s, i - 1)
        BY <1>4
      <3>2. x \in T /\ i \in 0..n
        BY <1>2
      <3>3. x \in ToSet(selected)
        BY DEF ToSet
      <3> QED BY <3>1, <3>2, <3>3
    <2>2. g[i] = IF x = u \/ x \in ToSet(s) THEN s ELSE Append(s, x)
      BY <1>1 DEF Collects
    <2> HIDE DEF s, x
    <2>3. CASE x = u \/ x \in ToSet(s)
      <3>1. s = <<>> => \A j \in 1..i : selected[j] = u
        <4> SUFFICES ASSUME s = <<>>, NEW j \in 1..i PROVE selected[j] = u
          OBVIOUS
        <4>1. x = u
          BY <2>3 DEF ToSet
        <4>2. j = i \/ j \in 1..(i - 1)
          OBVIOUS
        <4> QED BY <2>1, <4>1, <4>2 DEF x
      <3>2. Good(s, i)
        BY <2>1, <3>1
      <3> QED BY <2>1, <2>2, <2>3, <3>2
    <2>4. CASE ~ (x = u \/ x \in ToSet(s))
      <3> DEFINE a == Append(s, x)
      <3>1. /\ a \in Seq(T) /\ a # <<>>
            /\ DOMAIN a = 1..(Len(s) + 1) /\ DOMAIN s = 1..Len(s)
            /\ a[Len(s) + 1] = x
            /\ \A j \in 1..Len(s) : a[j] = s[j]
        BY <2>1, Appended
      <3> HIDE DEF a
      <3>2. ToSet(a) = ToSet(s) \cup {x}
        <4>1. \A j \in DOMAIN a : j = Len(s) + 1 \/ j \in DOMAIN s
          BY <3>1
        <4>2. Len(s) \in Nat
          BY <2>1
        <4>3. DOMAIN s \subseteq DOMAIN a /\ Len(s) + 1 \in DOMAIN a
          BY <3>1, <4>2
        <4> QED BY <3>1, <4>1, <4>3 DEF ToSet
      <3>3. IsInjective(a)
        <4>1. \A j, k \in DOMAIN a : a[j] = a[k] => j = k
          <5> SUFFICES ASSUME NEW j \in DOMAIN a, NEW k \in DOMAIN a, a[j] = a[k] PROVE j = k
            OBVIOUS
          <5>1. Len(s) \in Nat
            BY <2>1
          <5>2. /\ j = Len(s) + 1 \/ (j \in DOMAIN s /\ a[j] = s[j])
                /\ k = Len(s) + 1 \/ (k \in DOMAIN s /\ a[k] = s[k])
            BY <3>1, <5>1
          <5>3. \A l \in DOMAIN s : s[l] # x
            BY <2>4 DEF ToSet
          <5> QED BY <2>1, <3>1, <5>2, <5>3 DEF IsInjective
        <4> QED BY <4>1 DEF IsInjective
      <3>4. Good(a, i)
        BY <2>1, <2>4, <3>1, <3>2, <3>3
      <3> QED BY <2>1, <2>2, <2>4, <3>4 DEF a
    <2> QED BY <2>3, <2>4
  <1>5. n \in P
    <2>1. n \in 0..n
      BY <1>2
    <2> HIDE DEF P, n
    <2> QED BY <1>2, <1>3, <1>4, <2>1, UpTo
  <1>6. Good(g[n], n)
    BY <1>5
  <1>7. (\A j \in 1..n : selected[j] = u) => ToSet(selected) \subseteq {u}
    BY DEF ToSet
  <1> QED BY <1>1, <1>6, <1>7

-----------------------------------------------------------------------------
(***************************************************************************)
(* What routing relies on: whom a manager's reports and the steps of kept  *)
(* rules name has an account and, as long as it is active, may approve or  *)
(* was able to once.                                                       *)
(***************************************************************************)
Capable(v) == user[v].status # "absent" /\ (Active(v) => CanApprove(v) \/ v \in demoted)

StepCapable(step) ==
    /\ step.by = "user_id" => Capable(step.user)
    /\ step.by = "role_code" => step.role \in ApprovingRoles

RuleCapable(k) ==
    rule[k].content.chain \in Chains
        /\ \A i \in DOMAIN rule[k].content.chain : StepCapable(rule[k].content.chain[i])

RoutingInv ==
    /\ OrgInv
    /\ slow = Idle
    /\ rule \in [Rules -> {NoRule} \cup Rule]
    /\ \A v \in Users : user[v].manager # Nobody => Capable(user[v].manager)
    /\ \A k \in Rules : rule[k] # NoRule => RuleCapable(k)

\* An account stays an account, and one that is deactivated stays that.
Endures(v) ==
    user[v].status # "absent" =>
        user'[v].status # "absent" /\ (user'[v].status = "active" => user[v].status = "active")

\* Whoever could approve and cannot any more is remembered.
LEMMA CapableStays ==
    ASSUME NEW v \in Users, Capable(v), Endures(v),
           demoted' = demoted \cup { u \in Users : CanApprove(u) /\ ~ CanApprove(u)' }
    PROVE  Capable(v)'
  <1>1. user'[v].status # "absent" /\ (user'[v].status = "active" => user[v].status = "active")
    BY DEF Capable, Endures
  <1>2. SUFFICES ASSUME user'[v].status = "active", ~ CanApprove(v)' PROVE v \in demoted'
    BY <1>1 DEF Capable, Active
  <1>3. CanApprove(v) \/ v \in demoted
    BY <1>1, <1>2 DEF Capable, Active
  <1> QED BY <1>2, <1>3

\* A step that is accepted names somebody who may approve.
LEMMA AcceptedIsCapable ==
    ASSUME NEW step \in Steps, StepAccepted(step)
    PROVE  StepCapable(step)
  BY DEF StepAccepted, StepCapable, Capable, CanApprove, Active

\* Requests about people name managers who may approve.
LEMMA ManagersAreChecked ==
    ASSUME OrgInv, NEW u \in Users, NEW to \in Requested(u), UserNext(u, to),
           to.manager \notin {user[u].manager, Nobody}
    PROVE  to.manager \in Users \ {u} /\ CanApprove(to.manager)
  <1>1. to \in Row /\ user[u] \in Row
    BY RequestedRows DEF OrgInv, TypeOK
  <1>2. ManagerAccepted(u, to.manager)
    <2>1. CASE CreateUser(u, to)
      BY <2>1 DEF CreateUser, CreateAllowed
    <2>2. CASE UpdateUser(u, to)
      BY <2>2 DEF UpdateUser, UpdateAllowed
    <2>3. CASE DeactivateUser(u, to)
      BY <1>1, <2>3 DEF DeactivateUser, DeactivateAllowed, Row
    <2>4. CASE SignInSuperAdmin(u, to)
      BY <1>1, <2>4 DEF SignInSuperAdmin, Row
    <2> QED BY <2>1, <2>2, <2>3, <2>4 DEF UserNext
  <1>3. to.manager \in Users
    BY <1>1 DEF Row
  <1> QED BY <1>2, <1>3 DEF ManagerAccepted, CanApprove, ApprovingRoles

\* Requests about people and departments keep what rules and lines rely on.
LEMMA PeopleKeepRouting ==
    ASSUME RoutingInv, AdminNext, UNCHANGED rule,
           demoted' = demoted \cup { u \in Users : CanApprove(u) /\ ~ CanApprove(u)' }
    PROVE  RoutingInv'
  <1>0. OrgInv /\ slow = Idle
    BY DEF RoutingInv
  <1>1. /\ OrgInv'
        /\ slow' = Idle
        /\ \A v \in Users : Endures(v)
        /\ \A v \in Users : user'[v].manager \notin {user[v].manager, Nobody} =>
              user'[v].manager \in Users /\ Capable(user'[v].manager)
    <2>1. ASSUME NEW u \in Users, NEW to \in Requested(u), UserNext(u, to)
          PROVE  /\ OrgInv'
                 /\ slow' = Idle
                 /\ \A v \in Users : Endures(v)
                 /\ \A v \in Users : user'[v].manager \notin {user[v].manager, Nobody} =>
                       user'[v].manager \in Users /\ Capable(user'[v].manager)
      <3> DEFINE kinds == KindsOf(user[u], to)
      <3>1. Change(u, to, kinds) /\ Meet(kinds)
        BY <1>0, <2>1, AloneIsChecked
      <3> HIDE DEF kinds
      <3>2. user'[u] = to /\ \A v \in Users \ {u} : user'[v] = user[v]
        BY <1>0, <3>1, ChangeRows
      <3>3. \A v \in Users : Endures(v)
        BY <3>1, <3>2 DEF Endures, Change
      <3>4. slow' = Idle
        BY <1>0, <3>1 DEF Meet
      <3>5. OrgInv'
        BY <1>0, <2>1, UserShape
      <3>6. to.manager \notin {user[u].manager, Nobody} =>
               to.manager \in Users /\ Capable(to.manager)
        BY <1>0, <2>1, ManagersAreChecked DEF Capable, CanApprove, Active
      <3> QED BY <3>2, <3>3, <3>4, <3>5, <3>6
    <2>2. ASSUME NEW d \in Departments, DepartmentNext(d)
          PROVE  OrgInv' /\ slow' = Idle /\ user' = user
      <3>1. OrgInv'
        BY <1>0, <2>2, DepartmentShape
      <3>2. user' = user /\ slow' = Idle
        BY <1>0, <2>2 DEF DepartmentNext, OpenDepartment, CloseDepartment, Meet
      <3> QED BY <3>1, <3>2
    <2>3. user' = user => \A v \in Users : Endures(v)
      BY DEF Endures
    <2> QED BY <2>1, <2>2, <2>3 DEF AdminNext
  <1>2. \A v \in Users : Capable(v) => Capable(v)'
    BY <1>1, CapableStays
  <1>3. user \in [Users -> Row] /\ user' \in [Users -> Row]
    BY <1>0, <1>1 DEF OrgInv, TypeOK
  <1>4. ASSUME NEW v \in Users, user'[v].manager # Nobody
        PROVE  user'[v].manager \in Users /\ Capable(user'[v].manager)
    <2>1. CASE user'[v].manager = user[v].manager
      <3>1. Capable(user[v].manager)
        BY <1>4, <2>1 DEF RoutingInv
      <3>2. user[v].manager \in Users
        BY <1>3, <1>4, <2>1 DEF Row
      <3> QED BY <2>1, <3>1, <3>2
    <2>2. CASE user'[v].manager # user[v].manager
      BY <1>1, <1>4, <2>2
    <2> QED BY <2>1, <2>2
  <1>5. ASSUME NEW m \in Users, Capable(m)
        PROVE  /\ user'[m].status # "absent"
               /\ user'[m].status = "active" =>
                     (user'[m].status = "active" /\ user'[m].roles \cap ApprovingRoles # {})
                        \/ m \in demoted'
    BY <1>2, <1>5 DEF Capable, Active, CanApprove
  <1>6. ASSUME NEW v \in Users, user'[v].manager # Nobody
        PROVE  /\ user'[user'[v].manager].status # "absent"
               /\ user'[user'[v].manager].status = "active" =>
                     (user'[user'[v].manager].status = "active"
                         /\ user'[user'[v].manager].roles \cap ApprovingRoles # {})
                        \/ user'[v].manager \in demoted'
    BY <1>4, <1>5, <1>6
  <1>7. \A v \in Users : user'[v].manager # Nobody => Capable(user[v].manager)'
    BY <1>6 DEF Capable, Active, CanApprove
  <1>8. ASSUME NEW k \in Rules, rule[k] # NoRule
        PROVE  RuleCapable(k)'
    <2> DEFINE chain == rule[k].content.chain
    <2>1. chain \in Chains /\ \A i \in DOMAIN chain : StepCapable(chain[i])
      BY <1>8 DEF RoutingInv, RuleCapable
    <2>2. chain \in Seq(Steps)
      BY <2>1, RoutingAssumption
    <2> HIDE DEF chain
    <2>3. ASSUME NEW i \in DOMAIN chain
          PROVE  /\ chain[i].by = "user_id" =>
                        /\ user'[chain[i].user].status # "absent"
                        /\ user'[chain[i].user].status = "active" =>
                             (user'[chain[i].user].status = "active"
                                 /\ user'[chain[i].user].roles \cap ApprovingRoles # {})
                                \/ chain[i].user \in demoted'
                 /\ chain[i].by = "role_code" => chain[i].role \in ApprovingRoles
      <3>1. chain[i] \in Steps
        BY <2>2
      <3>2. chain[i].by = "user_id" => chain[i].user \in Users
        BY <3>1 DEF Steps
      <3> QED BY <1>5, <2>1, <3>2 DEF StepCapable
    <2>4. rule'[k].content.chain = chain
      BY DEF chain
    <2> QED BY <2>1, <2>3, <2>4 DEF RuleCapable, StepCapable, Capable, Active, CanApprove, ApprovingRoles
  <1> QED BY <1>1, <1>7, <1>8 DEF RoutingInv

\* Requests about rules check the steps they save.
LEMMA RulesKeepRouting ==
    ASSUME RoutingInv, NEW k \in Rules, RuleNext(k), Counted,
           UNCHANGED <<user, department, slow, overlaps>>,
           demoted' = demoted \cup { u \in Users : CanApprove(u) /\ ~ CanApprove(u)' }
    PROVE  RoutingInv'
  <1>0. /\ OrgInv /\ slow = Idle /\ TypeOK
        /\ rule \in [Rules -> {NoRule} \cup Rule]
    BY DEF RoutingInv, OrgInv
  <1>1. OrgInv'
    <2>1. changes' \in Nat
      BY <1>0 DEF Counted, TypeOK
    <2> QED BY <1>0, <2>1 DEF OrgInv, TypeOK
  <1>2. \A v \in Users : Capable(v) => Capable(v)'
    <2>1. \A v \in Users : Endures(v)
      BY DEF Endures
    <2> QED BY <2>1, CapableStays
  <1>3. user \in [Users -> Row]
    BY <1>0 DEF TypeOK
  <1>4. \A v \in Users : user[v].manager # Nobody => Capable(user[v].manager)'
    <2>1. \A v \in Users : user[v].manager # Nobody => user[v].manager \in Users
      BY <1>3 DEF Row
    <2>2. \A v \in Users : user[v].manager # Nobody => Capable(user[v].manager)
      BY DEF RoutingInv
    <2>3. ASSUME NEW m \in Users, Capable(m)
          PROVE  /\ user[m].status # "absent"
                 /\ user[m].status = "active" =>
                       (user[m].status = "active" /\ user[m].roles \cap ApprovingRoles # {})
                          \/ m \in demoted'
      BY <2>3 DEF Capable, Active, CanApprove
    <2> QED BY <2>1, <2>2, <2>3 DEF Capable, Active, CanApprove
  <1>5. ASSUME NEW step \in Steps, StepCapable(step)
        PROVE  StepCapable(step)'
    <2>1. step.by = "user_id" => step.user \in Users
      BY DEF Steps
    <2>2. step.by = "user_id" => Capable(step.user)'
      BY <1>2, <1>5, <2>1 DEF StepCapable, Capable, Active, CanApprove
    <2> QED BY <1>5, <2>2 DEF StepCapable, Capable, Active, CanApprove, ApprovingRoles
  <1>6. ASSUME NEW chain \in Chains, NEW i \in DOMAIN chain
        PROVE  chain[i] \in Steps
    BY RoutingAssumption
  <1>7. \A j \in Rules : rule[j] # NoRule =>
           /\ rule[j] \in Rule
           /\ rule[j].content.chain \in Chains
           /\ \A i \in DOMAIN rule[j].content.chain : StepCapable(rule[j].content.chain[i])
    BY <1>0 DEF RoutingInv, RuleCapable
  <1>8. ASSUME NEW content \in Content, ChainAccepted(content.chain)
        PROVE  /\ content.chain \in Chains
               /\ \A i \in DOMAIN content.chain : StepCapable(content.chain[i])
    <2>1. content.chain \in Chains
      BY DEF Content
    <2> QED BY <1>6, <1>8, <2>1, AcceptedIsCapable DEF ChainAccepted
  <1>9. /\ rule' \in [Rules -> {NoRule} \cup Rule]
        /\ \A j \in Rules : rule'[j] # NoRule =>
              /\ rule'[j].content.chain \in Chains
              /\ \A i \in DOMAIN rule'[j].content.chain : StepCapable(rule'[j].content.chain[i])
    <2> DEFINE Kept(r) == /\ r.content.chain \in Chains
                          /\ \A i \in DOMAIN r.content.chain : StepCapable(r.content.chain[i])
    <2>1. ASSUME NEW r \in Rule, Kept(r), rule' = [rule EXCEPT ![k] = r]
          PROVE  /\ rule' \in [Rules -> {NoRule} \cup Rule]
                 /\ \A j \in Rules : rule'[j] # NoRule => Kept(rule'[j])
      <3>1. \A j \in Rules : rule[j] # NoRule => Kept(rule[j])
        BY <1>7
      <3> HIDE DEF Kept
      <3> QED BY <1>0, <2>1, <3>1
    <2>2. ASSUME NEW content \in Content, NEW active \in BOOLEAN, CreateRule(k, content, active)
          PROVE  \E r \in Rule : Kept(r) /\ rule' = [rule EXCEPT ![k] = r]
      <3> DEFINE r == [state |-> "kept", content |-> content,
                       is_active |-> active, is_deleted |-> FALSE]
      <3>1. r \in Rule /\ r.content = content
        BY DEF Rule
      <3>2. ChainAccepted(content.chain) /\ rule' = [rule EXCEPT ![k] = r]
        BY <2>2 DEF CreateRule
      <3> HIDE DEF r
      <3>3. Kept(r)
        BY <1>8, <3>1, <3>2
      <3> QED BY <3>1, <3>2, <3>3
    <2>3. ASSUME NEW content \in Content, NEW active \in BOOLEAN, UpdateRule(k, content, active)
          PROVE  \E r \in Rule : Kept(r) /\ rule' = [rule EXCEPT ![k] = r]
      <3> DEFINE r == [rule[k] EXCEPT !.content = content, !.is_active = active]
      <3>1. rule[k] \in Rule /\ Kept(rule[k])
        BY <1>7, <2>3 DEF UpdateRule
      <3>2. /\ rule' = [rule EXCEPT ![k] = r]
            /\ rule[k].content.chain # content.chain => ChainAccepted(content.chain)
        BY <1>0, <2>3 DEF UpdateRule
      <3>3. r \in Rule /\ r.content = content
        BY <3>1 DEF Rule
      <3> HIDE DEF r
      <3>4. Kept(r)
        BY <1>8, <3>1, <3>2, <3>3
      <3> QED BY <3>2, <3>3, <3>4
    <2>4. ASSUME DeleteRule(k) \/ RestoreRule(k)
          PROVE  \E r \in Rule : Kept(r) /\ rule' = [rule EXCEPT ![k] = r]
      <3>1. PICK deleted \in BOOLEAN : rule' = [rule EXCEPT ![k] = [@ EXCEPT !.is_deleted = deleted]]
        BY <2>4 DEF DeleteRule, RestoreRule
      <3> DEFINE r == [rule[k] EXCEPT !.is_deleted = deleted]
      <3>2. rule[k] \in Rule /\ Kept(rule[k])
        BY <1>7, <2>4 DEF DeleteRule, RestoreRule
      <3>3. r \in Rule /\ r.content = rule[k].content
        BY <3>2 DEF Rule
      <3>4. rule' = [rule EXCEPT ![k] = r]
        BY <1>0, <3>1
      <3> HIDE DEF r
      <3> QED BY <3>2, <3>3, <3>4
    <2> HIDE DEF Kept
    <2>5. PICK r \in Rule : Kept(r) /\ rule' = [rule EXCEPT ![k] = r]
      BY <2>2, <2>3, <2>4 DEF RuleNext
    <2>6. /\ rule' \in [Rules -> {NoRule} \cup Rule]
          /\ \A j \in Rules : rule'[j] # NoRule => Kept(rule'[j])
      BY <2>1, <2>5
    <2> QED BY <2>6 DEF Kept
  <1>10. ASSUME NEW j \in Rules, rule'[j] # NoRule
         PROVE  RuleCapable(j)'
    <2> DEFINE chain == rule'[j].content.chain
    <2>1. chain \in Chains /\ \A i \in DOMAIN chain : StepCapable(chain[i])
      BY <1>9, <1>10
    <2>2. \A i \in DOMAIN chain :
             /\ chain[i].by = "user_id" =>
                    /\ user[chain[i].user].status # "absent"
                    /\ user[chain[i].user].status = "active" =>
                         (user[chain[i].user].status = "active"
                             /\ user[chain[i].user].roles \cap ApprovingRoles # {})
                            \/ chain[i].user \in demoted'
             /\ chain[i].by = "role_code" => chain[i].role \in ApprovingRoles
      BY <2>1 DEF StepCapable, Capable, Active, CanApprove
    <2> HIDE DEF chain
    <2> QED BY <2>1, <2>2 DEF chain, RuleCapable, StepCapable, Capable, Active, CanApprove, ApprovingRoles
  <1> QED BY <1>0, <1>1, <1>4, <1>9, <1>10 DEF RoutingInv, Capable, Active, CanApprove

LEMMA RoutingInitially == RoutingInit => RoutingInv
  <1> SUFFICES ASSUME RoutingInit PROVE RoutingInv
    OBVIOUS
  <1>1. OrgInv /\ slow = Idle
    BY InitShape DEF RoutingInit, Init
  <1>2. \A u \in Users : user[u].manager = Nobody
    BY DEF RoutingInit, Init, Absent
  <1> QED BY <1>1, <1>2 DEF RoutingInit, RoutingInv

LEMMA RoutingStep == RoutingInv /\ [RoutingNext]_routingVars => RoutingInv'
  <1> SUFFICES ASSUME RoutingInv, [RoutingNext]_routingVars PROVE RoutingInv'
    OBVIOUS
  <1>1. CASE UNCHANGED routingVars
    BY <1>1 DEF routingVars, vars, RoutingInv, OrgInv, TypeOK, RuleCapable, StepCapable, Capable,
            CanApprove, Active
  <1>2. CASE RoutingNext
    BY <1>2, PeopleKeepRouting, RulesKeepRouting DEF RoutingNext
  <1> QED BY <1>1, <1>2

LEMMA RoutingInvariant == RoutingSpec => []RoutingInv
  BY RoutingInitially, RoutingStep, PTL DEF RoutingSpec

-----------------------------------------------------------------------------
(***************************************************************************)
(* Whom a report goes to.                                                  *)
(***************************************************************************)

\* Those a report may be sent to.
Approvers == { v \in Users : Active(v) /\ (CanApprove(v) \/ v \in demoted) }

\* Every manager of the walk is somebody's manager, and active.
LEMMA ManagersMayApprove ==
    ASSUME RoutingInv, NEW u \in Users
    PROVE  \A n \in DOMAIN ManagerChain(u) : ManagerChain(u)[n] \in Approvers
  <1>1. TypeOK
    BY DEF RoutingInv, OrgInv
  <1>2. SUFFICES ASSUME NEW n \in 1..Height, Superior(u)[n] # Nobody
                 PROVE  Superior(u)[n] \in Approvers
    BY DEF ManagerChain, Height
  <1> DEFINE x == Superior(u)[n - 1]
  <1>3. x \in Users \cup {Nobody} /\ Superior(u)[n] = Up(x)
    <2>1. n - 1 \in 0..Height
      BY HeightIsPositive
    <2> QED BY <1>1, <2>1, SuperiorWalk
  <1> HIDE DEF x
  <1>4. x \in Users /\ user[x].manager = Up(x) /\ Up(x) \in Users /\ Active(Up(x))
    BY <1>1, <1>2, <1>3, UpTypes
  <1>5. Up(x) # Nobody
    BY <1>2, <1>3
  <1>6. Capable(Up(x))
    BY <1>4, <1>5 DEF RoutingInv
  <1> QED BY <1>3, <1>4, <1>6 DEF Capable, Approvers

\* Every step yields a list of people who may approve.
LEMMA StepsNameApprovers ==
    ASSUME RoutingInv, NEW u \in Users, NEW step \in Steps, StepCapable(step)
    PROVE  ApproversOfStep(step, u) \in Seq(Approvers)
  <1>1. step.by \in {"manager_level", "user_id", "role_code"}
    BY DEF Steps
  <1>2. CASE step.by = "manager_level"
    <2>1. step.level \in DOMAIN ManagerChain(u) => ManagerChain(u)[step.level] \in Approvers
      BY ManagersMayApprove
    <2> QED BY <1>2, <2>1 DEF ApproversOfStep
  <1>3. CASE step.by = "user_id"
    <2>1. step.user \in Users
      BY <1>3 DEF Steps
    <2>2. Active(step.user) => step.user \in Approvers
      BY <1>3, <2>1 DEF StepCapable, Capable, Approvers
    <2> QED BY <1>3, <2>2 DEF ApproversOfStep
  <1>4. CASE step.by = "role_code"
    <2> DEFINE T == { v \in Users : Active(v) /\ step.role \in user[v].roles }
    <2>1. step.role \in ApprovingRoles
      BY <1>4 DEF StepCapable
    <2>2. T \subseteq Approvers
      BY <2>1 DEF Approvers, CanApprove
    <2>3. IsFiniteSet(T)
      BY OrgAssumption, FS_Subset
    <2>4. ApproversOfStep(step, u) = SetToSeq(T)
      BY <1>4 DEF ApproversOfStep
    <2> HIDE DEF T
    <2>5. SetToSeq(T) \in Seq(T)
      BY <2>3, Listed
    <2> QED BY <2>2, <2>4, <2>5
  <1> QED BY <1>1, <1>2, <1>3, <1>4

LEMMA RulesNameApprovers ==
    ASSUME RoutingInv, NEW claim \in Claim
    PROVE  ChosenByRule(claim) \in Seq(Approvers)
  <1>1. CASE MatchingRules(claim) = {}
    BY <1>1 DEF ChosenByRule
  <1>2. CASE MatchingRules(claim) # {}
    <2> DEFINE k == CHOOSE j \in MatchingRules(claim) : TRUE
               chain == rule[k].content.chain
               u == claim.employee
               seqs == [i \in DOMAIN chain |-> ApproversOfStep(chain[i], u)]
    <2>1. k \in MatchingRules(claim)
      BY <1>2
    <2>2. k \in Rules /\ rule[k] # NoRule
      BY <2>1 DEF MatchingRules, Matches
    <2>3. chain \in Chains /\ \A i \in DOMAIN chain : StepCapable(chain[i])
      BY <2>2 DEF RoutingInv, RuleCapable
    <2>4. chain \in Seq(Steps) /\ u \in Users
      BY <2>3, RoutingAssumption DEF Claim
    <2>5. ChosenByRule(claim) = FlattenSeq(seqs)
      BY <1>2 DEF ChosenByRule
    <2> HIDE DEF chain, u, k
    <2>6. DOMAIN chain = 1..Len(chain) /\ Len(chain) \in Nat /\ \A i \in DOMAIN chain : chain[i] \in Steps
      BY <2>4
    <2>7. \A i \in DOMAIN chain : ApproversOfStep(chain[i], u) \in Seq(Approvers)
      BY <2>3, <2>4, <2>6, StepsNameApprovers
    <2>8. seqs \in Seq(Seq(Approvers))
      BY <2>6, <2>7
    <2> HIDE DEF seqs
    <2> QED BY <2>5, <2>8, Flattened
  <1> QED BY <1>1, <1>2

\* A walk that names anybody names the reporting manager first.
LEMMA TheFirstIsTheManager ==
    ASSUME TypeOK, NEW u \in Users
    PROVE  /\ DOMAIN ManagerChain(u) # {} => 1 \in DOMAIN ManagerChain(u)
           /\ 1 \in DOMAIN ManagerChain(u) => ManagerChain(u)[1] = Up(u)
           /\ DOMAIN ManagerChain(u) = {} <=> ManagerChain(u) = <<>>
  <1>1. /\ DOMAIN ManagerChain(u) = { k \in 1..Height : Superior(u)[k] # Nobody }
        /\ ManagerChain(u) = [n \in { k \in 1..Height : Superior(u)[k] # Nobody } |-> Superior(u)[n]]
    BY DEF ManagerChain, Height
  <1>2. /\ Superior(u)[0] = u
        /\ \A i \in 1..Height : Superior(u)[i] = Up(Superior(u)[i - 1])
    BY SuperiorWalk
  <1>3. 1 \in 1..Height
    BY HeightIsPositive
  <1>4. ASSUME 1 \notin DOMAIN ManagerChain(u)
        PROVE  DOMAIN ManagerChain(u) = {}
    <2> DEFINE P == { i \in 0..Height : i = 0 \/ Superior(u)[i] = Nobody }
    <2>1. Superior(u)[1] = Nobody
      BY <1>1, <1>3, <1>4
    <2>2. 0 \in P
      BY HeightIsPositive
    <2>3. ASSUME NEW i \in 1..Height, i - 1 \in P PROVE i \in P
      <3>1. i \in 0..Height
        BY HeightIsPositive
      <3>2. CASE i = 1
        BY <2>1, <3>1, <3>2
      <3>3. CASE i # 1
        <4>1. Superior(u)[i - 1] = Nobody
          BY <2>3, <3>3, HeightIsPositive
        <4>2. Superior(u)[i] = Nobody
          BY <1>2, <4>1, UpTypes
        <4> QED BY <3>1, <4>2
      <3> QED BY <3>2, <3>3
    <2> HIDE DEF P
    <2>4. \A i \in 0..Height : i \in P
      BY <2>2, <2>3, HeightIsPositive, UpTo
    <2>5. \A i \in 1..Height : Superior(u)[i] = Nobody
      BY <2>4, HeightIsPositive DEF P
    <2> QED BY <1>1, <2>5
  <1>5. 1 \in DOMAIN ManagerChain(u) => ManagerChain(u)[1] = Up(u)
    BY <1>1, <1>2, <1>3
  <1>6. DOMAIN ManagerChain(u) = {} => ManagerChain(u) = <<>>
    BY <1>1
  <1> QED BY <1>4, <1>5, <1>6

LEMMA SelectedAreApprovers ==
    ASSUME RoutingInv, NEW claim \in Claim
    PROVE  Selected(claim) \in Seq(Approvers)
  <1> DEFINE u == claim.employee
  <1>1. u \in Users /\ TypeOK
    BY DEF Claim, RoutingInv, OrgInv
  <1>2. ManagerChain(u) # <<>> => ManagerChain(u)[1] \in Approvers
    BY <1>1, TheFirstIsTheManager, ManagersMayApprove
  <1>3. ChosenByRule(claim) \in Seq(Approvers)
    BY RulesNameApprovers
  <1> QED BY <1>2, <1>3 DEF Selected

\* Whoever is his own manager has a walk without an end.
LEMMA OwnManagerIsCyclic ==
    ASSUME TypeOK, NEW u \in Users, Up(u) = u
    PROVE  Cyclic(u)
  <1> DEFINE P == { i \in 0..Height : Superior(u)[i] = u }
  <1>1. /\ Superior(u)[0] = u
        /\ \A i \in 1..Height : Superior(u)[i] = Up(Superior(u)[i - 1])
    BY SuperiorWalk
  <1>2. 0 \in P
    BY <1>1, HeightIsPositive
  <1>3. ASSUME NEW i \in 1..Height, i - 1 \in P PROVE i \in P
    BY <1>1, <1>3, HeightIsPositive
  <1>4. Height \in 0..Height
    BY HeightIsPositive
  <1>5. Height \in P
    <2> HIDE DEF P
    <2> QED BY <1>2, <1>3, <1>4, HeightIsPositive, UpTo
  <1>6. u # Nobody
    BY OrgAssumption
  <1> QED BY <1>5, <1>6 DEF Cyclic, Height

\* However many people, rules and requests there are, a report goes to
\* distinct active people other than its owner who may approve, or could once
\* (_approvers_for_report, _validate_manager, _ensure_explicit_approver).
THEOREM ReportsGoToApprovers == RoutingSpec => []RoutesAreSound
  <1>1. RoutingInv => RoutesAreSound
    <2> SUFFICES ASSUME RoutingInv, NEW claim \in Claims
                 PROVE  /\ IsInjective(Route(claim))
                        /\ \A i \in DOMAIN Route(claim) :
                             /\ Route(claim)[i] # claim.employee
                             /\ Active(Route(claim)[i])
                             /\ CanApprove(Route(claim)[i]) \/ Route(claim)[i] \in demoted
      BY DEF RoutesAreSound
    <2>1. claim \in Claim
      BY DEF Claims
    <2>2. Selected(claim) \in Seq(Approvers)
      BY <2>1, SelectedAreApprovers
    <2>3. /\ Route(claim) \in Seq(Approvers)
          /\ IsInjective(Route(claim))
          /\ claim.employee \notin ToSet(Route(claim))
      BY <2>2, UniqueIsASelection DEF Route
    <2>4. ASSUME NEW i \in DOMAIN Route(claim)
          PROVE  Route(claim)[i] \in Approvers /\ Route(claim)[i] \in ToSet(Route(claim))
      BY <2>3 DEF ToSet
    <2> QED BY <2>3, <2>4 DEF Approvers
  <1> QED BY <1>1, RoutingInvariant, PTL

\* A submission is refused for want of an approver only when the employee has
\* no active manager, or when the rule names nobody but the employee
\* (_approvers_for_report).
THEOREM RefusalsAreExplained == RoutingSpec => []RefusalsHaveAReason
  <1>1. RoutingInv => RefusalsHaveAReason
    <2> SUFFICES ASSUME RoutingInv, NEW claim \in Claims, Route(claim) = <<>>,
                        ManagerChain(claim.employee) # <<>>
                 PROVE  ToSet(ChosenByRule(claim)) = {claim.employee}
      BY DEF RefusalsHaveAReason
    <2> DEFINE u == claim.employee
    <2>1. claim \in Claim /\ u \in Users /\ TypeOK /\ ~ Cyclic(u)
      BY DEF Claims, Claim, RoutingInv, OrgInv
    <2>2. Selected(claim) \in Seq(Approvers)
      BY <2>1, SelectedAreApprovers
    <2>3. ToSet(Selected(claim)) \subseteq {u}
      BY <2>2, UniqueIsASelection DEF Route
    <2>4. ChosenByRule(claim) # <<>>
      <3> SUFFICES ASSUME ChosenByRule(claim) = <<>> PROVE FALSE
        OBVIOUS
      <3>1. Selected(claim) = <<ManagerChain(u)[1]>>
        BY DEF Selected
      <3>2. ManagerChain(u)[1] = Up(u)
        BY <2>1, TheFirstIsTheManager
      <3>3. Up(u) = u
        BY <2>3, <3>1, <3>2 DEF ToSet
      <3> QED BY <2>1, <3>3, OwnManagerIsCyclic
    <2>5. Selected(claim) = ChosenByRule(claim)
      BY <2>4 DEF Selected
    <2>6. 1 \in DOMAIN ChosenByRule(claim)
      <3> DEFINE s == ChosenByRule(claim)
      <3>1. s \in Seq(Approvers) /\ s # <<>>
        BY <2>2, <2>4, <2>5
      <3> HIDE DEF s
      <3> QED BY <3>1 DEF s
    <2>7. ChosenByRule(claim)[1] \in ToSet(ChosenByRule(claim))
      BY <2>6 DEF ToSet
    <2> QED BY <2>3, <2>5, <2>7
  <1> QED BY <1>1, RoutingInvariant, PTL

=============================================================================
