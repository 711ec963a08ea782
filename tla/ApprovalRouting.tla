--------------------------- MODULE ApprovalRouting ---------------------------
(***************************************************************************)
(* ApprovalRouting: the routing rules administrators keep, and whom a      *)
(* submitted report goes to.  Composed with OrgAdmin: rules are checked    *)
(* against the people of the day they are saved, and evaluated against     *)
(* the people of the day a report is submitted.                            *)
(*                                                                         *)
(* Sources: backend/app/services/workflow_service.py, its routes, and      *)
(* _approvers_for_report with its helpers in approval_service.py.  Rules   *)
(* carry a version, so each request is one step here; requests about       *)
(* people that overlap are OrgAdmin's subject.                             *)
(***************************************************************************)
EXTENDS OrgAdmin, SequencesExt

CONSTANTS
    Rules,      \* rows of workflow_rules, numbered by priority and creation
    Chains,     \* approval chains that are asked for
    Totals,     \* totals of reports and bounds in conditions
    AnyDepartment


VARIABLES
    rule,       \* workflow_rules
    demoted     \* history: people who could approve once and cannot any more

routingVars == <<vars, rule, demoted>>

-----------------------------------------------------------------------------
\* A step names its approvers by exactly one of three ways.
Steps ==
    [by : {"manager_level"}, level : 1..10]
        \cup [by : {"user_id"}, user : Users]
        \cup [by : {"role_code"}, role : Roles]

ASSUME RoutingAssumption ==
    /\ Rules \subseteq Nat /\ Totals \subseteq Nat
    /\ Chains \subseteq Seq(Steps)

\* What an administrator fills in.
Content == [min : Totals, max : Totals, department : Departments \cup {AnyDepartment},
            chain : Chains]

NoRule == [state |-> "absent"]

Rule == [state : {"kept"}, content : Content, is_active : BOOLEAN, is_deleted : BOOLEAN]

Claim == [employee : Users, total : Totals, department : Departments]

\* The roles whose permissions hold report:approve.
ApprovingRoles == {"administrator", "approver"}

CanApprove(u) == Active(u) /\ user[u].roles \cap ApprovingRoles # {}

-----------------------------------------------------------------------------
(***************************************************************************)
(* Keeping rules.                                                          *)
(***************************************************************************)

\* Fault: the named user's permission is not looked at.
AnyStepAccepted(step) ==
    /\ step.by = "user_id" => Active(step.user)
    /\ step.by = "role_code" => step.role \in ApprovingRoles

\* _ensure_explicit_approver, _ensure_approver_role.
StepAccepted(step) ==
    /\ step.by = "user_id" => CanApprove(step.user)
    /\ step.by = "role_code" => step.role \in ApprovingRoles

ChainAccepted(chain) ==
    /\ chain # <<>>
    /\ Len(chain) <= 10
    /\ IsInjective(chain)
    /\ \A i \in DOMAIN chain : StepAccepted(chain[i])

ConditionsAccepted(content) ==
    /\ content.min <= content.max
    /\ content.department # AnyDepartment => Assignable(content.department)

CreateRule(k, content, active) ==
    /\ rule[k] = NoRule
    /\ ConditionsAccepted(content)
    /\ ChainAccepted(content.chain)
    /\ rule' = [rule EXCEPT ![k] = [state |-> "kept", content |-> content,
                                    is_active |-> active, is_deleted |-> FALSE]]

\* Only what a request changes is checked again.
UpdateRule(k, content, active) ==
    /\ rule[k] # NoRule
    /\ ~ rule[k].is_deleted
    /\ LET kept == rule[k].content
       IN  /\ [kept EXCEPT !.chain = content.chain] # content => ConditionsAccepted(content)
           /\ kept.chain # content.chain => ChainAccepted(content.chain)
    /\ rule' = [rule EXCEPT ![k] = [@ EXCEPT !.content = content, !.is_active = active]]

DeleteRule(k) ==
    /\ rule[k] # NoRule
    /\ ~ rule[k].is_deleted
    /\ rule' = [rule EXCEPT ![k] = [@ EXCEPT !.is_deleted = TRUE]]

\* restore_workflow_rule checks nothing of what the rule names.
RestoreRule(k) ==
    /\ rule[k] # NoRule
    /\ rule[k].is_deleted
    /\ rule' = [rule EXCEPT ![k] = [@ EXCEPT !.is_deleted = FALSE]]

-----------------------------------------------------------------------------
(***************************************************************************)
(* Evaluating them.                                                        *)
(***************************************************************************)

\* The next manager of a walk; it ends at the first who is not active.
Up(x) ==
    IF \E m \in Users : x # Nobody /\ user[x].manager = m /\ Active(m)
    THEN user[x].manager
    ELSE Nobody

\* _active_manager_chain: the n-th manager, Nobody beyond the end.
Superior(u) ==
    LET up[n \in 0..Cardinality(Users)] == IF n = 0 THEN u ELSE Up(up[n - 1])
    IN  up

\* A walk longer than there are people meets somebody twice.
Cyclic(u) == Superior(u)[Cardinality(Users)] # Nobody

ManagerChain(u) ==
    [n \in { k \in 1..Cardinality(Users) : Superior(u)[k] # Nobody } |-> Superior(u)[n]]

\* _rule_matches.
Matches(r, claim) ==
    /\ r # NoRule
    /\ r.is_active
    /\ ~ r.is_deleted
    /\ r.content.min <= claim.total
    /\ claim.total <= r.content.max
    /\ r.content.department \in {AnyDepartment, claim.department}

\* _matching_rule: the first by priority and creation.
MatchingRules(claim) ==
    { k \in Rules : /\ Matches(rule[k], claim)
                    /\ \A j \in Rules : j < k => ~ Matches(rule[j], claim) }

ApproversOfStep(step, u) ==
    IF step.by = "manager_level"
    THEN IF step.level \in DOMAIN ManagerChain(u) THEN <<ManagerChain(u)[step.level]>> ELSE <<>>
    ELSE IF step.by = "user_id"
         THEN IF Active(step.user) THEN <<step.user>> ELSE <<>>
         ELSE SetToSeq({ v \in Users : Active(v) /\ step.role \in user[v].roles })

ChosenByRule(claim) ==
    IF MatchingRules(claim) = {}
    THEN <<>>
    ELSE LET chain == rule[CHOOSE k \in MatchingRules(claim) : TRUE].content.chain
         IN  FlattenSeq([i \in DOMAIN chain |-> ApproversOfStep(chain[i], claim.employee)])

\* Fault: a report that its rule has nobody for is not given to the manager.
NoFallback(claim) == ChosenByRule(claim)

\* Without a rule, or when it yields nobody: the reporting manager.
Selected(claim) ==
    IF ChosenByRule(claim) = <<>> /\ ManagerChain(claim.employee) # <<>>
    THEN <<ManagerChain(claim.employee)[1]>>
    ELSE ChosenByRule(claim)

\* The loop at its end: everybody once, and never the employee.
Unique(selected, u) ==
    LET unique[n \in 0..Len(selected)] ==
            IF n = 0
            THEN <<>>
            ELSE IF selected[n] = u \/ selected[n] \in ToSet(unique[n - 1])
                 THEN unique[n - 1]
                 ELSE Append(unique[n - 1], selected[n])
    IN  unique[Len(selected)]

\* _approvers_for_report.
Route(claim) == Unique(Selected(claim), claim.employee)

-----------------------------------------------------------------------------
RoutingInit ==
    /\ Init
    /\ rule = [k \in Rules |-> NoRule]
    /\ demoted = {}

RuleNext(k) ==
    \/ \E content \in Content, active \in BOOLEAN : CreateRule(k, content, active)
    \/ \E content \in Content, active \in BOOLEAN : UpdateRule(k, content, active)
    \/ DeleteRule(k)
    \/ RestoreRule(k)

RoutingNext ==
    /\ \/ AdminNext /\ UNCHANGED rule
       \/ /\ \E k \in Rules : RuleNext(k)
          /\ Administrators # {}
          /\ Counted
          /\ UNCHANGED <<user, department, slow, overlaps>>
    /\ demoted' = demoted \cup { u \in Users : CanApprove(u) /\ ~ CanApprove(u)' }

RoutingSpec == RoutingInit /\ [][RoutingNext]_routingVars

-----------------------------------------------------------------------------
Claims == { claim \in Claim : Active(claim.employee) /\ ~ Cyclic(claim.employee) }

\* _approvers_for_report: whatever has happened to the people since a rule was
\* saved or a manager assigned, a report goes to distinct active people other
\* than its owner, who may approve; only somebody whose role has been taken
\* away since, which no request checks, is still sent reports.
RoutesAreSound ==
    \A claim \in Claims :
        LET route == Route(claim)
        IN  /\ IsInjective(route)
            /\ \A i \in DOMAIN route :
                 /\ route[i] # claim.employee
                 /\ Active(route[i])
                 /\ CanApprove(route[i]) \/ route[i] \in demoted

\* A submission is refused for want of a manager only when there is none, or
\* when its rule names nobody but the owner.
RefusalsHaveAReason ==
    \A claim \in Claims :
        Route(claim) = <<>> =>
            \/ ManagerChain(claim.employee) = <<>>
            \/ ToSet(ChosenByRule(claim)) = {claim.employee}

=============================================================================
