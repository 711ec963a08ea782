-------------------------- MODULE ApprovalWorkflow --------------------------
(***************************************************************************)
(* The life of an expense report from draft to final approval: the report  *)
(* row, the approval_levels rows that carry its approval tasks, the        *)
(* delegations that move tasks between approvers, the SLA sweep that       *)
(* escalates them, and the payment row the last approval creates.          *)
(*                                                                         *)
(* Sources: backend/app/services/report_service.py, item_service.py,       *)
(* approval_service.py, delegation_service.py and the routes that call     *)
(* them in one transaction.                                                *)
(* Every action is one committed transaction, with one exception; a        *)
(* transaction the database or the service refuses leaves no trace and is  *)
(* no step.  The exception is an edit of an item: it writes no row that a  *)
(* submission writes, so it may be checked before one and commit after it. *)
(***************************************************************************)
EXTENDS Naturals, Sequences

CONSTANTS
    Reports,        \* the expense reports
    Users,          \* employees and approvers of one organisation
    NoUser,         \* NULL in a column that holds a user id
    Owner,          \* expense_reports.employee_user_id
    MaxLevel,       \* bound: the longest approver chain
    MaxEdits,       \* bound: how often the content of a report changes
    EnforcesLength, \* the database refuses a text that is too long for its column
    DelegationPairs,\* bound: who may ask whom to stand in
    OrgCharts       \* what the user and rule tables can say: see below

(***************************************************************************)
(* An org chart is all that the handlers read of the hierarchy and of the  *)
(* workflow rules: the approvers _approvers_for_report selects for each    *)
(* report (<<>> when it raises), and the manager _active_escalation_manager*)
(* finds above each user.                                                  *)
(***************************************************************************)
Chains(r) ==
    { c \in UNION { [1..n -> Users \ {Owner[r]}] : n \in 0..MaxLevel } :
        \A i, j \in DOMAIN c : c[i] = c[j] => i = j }

ASSUME UsersAssumption == NoUser \notin Users /\ Owner \in [Reports -> Users]
ASSUME DatabaseAssumption == EnforcesLength \in BOOLEAN
ASSUME BoundsAssumption ==
    /\ MaxLevel \in Nat \ {0}
    /\ MaxEdits \in Nat
    /\ DelegationPairs \subseteq Users \X Users
ASSUME OrgAssumption ==
    \A o \in OrgCharts :
        /\ \A r \in Reports : o.chain[r] \in Chains(r)
        /\ o.superior \in [Users -> Users \cup {NoUser}]
        /\ \A u \in Users : o.superior[u] # u

VARIABLES
    status,     \* expense_reports.status, "none" before the row exists
    content,    \* how often the claim (items, title, currency) has changed
    editing,    \* requests that have found the report editable and will change an item
    levels,     \* the approval_levels rows of each report
    route,      \* history variable: the approvers selected at the last submission
    submission, \* history variable: what else the last submission found
    entry,      \* the latest human decision in approval_history
    payment,    \* payment_records: the content that was approved for payment
    delegate,   \* the delegate each user's tasks resolve to at this moment
    org         \* the current org chart

vars == <<status, content, editing, levels, route, submission, entry, payment,
          delegate, org>>

-----------------------------------------------------------------------------
(***************************************************************************)
(* The rows.  init_workflow reuses a row by its level number and original  *)
(* approver, so that pair names a row: a stage.                            *)
(***************************************************************************)
Stages == (1..MaxLevel) \X Users

EDITABLE_STATUSES == {"draft", "sent_back"}
ReportStatus ==
    {"none", "draft", "submitted", "sent_back", "rejected", "approved_pending_payment"}
LevelStatus ==
    {"absent", "pending", "waiting", "approved", "reject", "send_back", "cancelled"}
Decisions == {"approve", "reject", "send_back"}

(***************************************************************************)
(* The status column is a varchar(20).  PostgreSQL keeps to the length,    *)
(* SQLite, which the tests use, does not; the other values are short.      *)
(***************************************************************************)
Fits(st) == EnforcesLength => st # "approved_pending_payment"

\* A submission: the content it submits, and how many item edits are open.
Submission == [content : 0..MaxEdits, open : 0..MaxEdits]

NoDecision == MaxEdits + 1
NoPayment == MaxEdits + 1

(***************************************************************************)
(* due_at, reminder_sent_at and escalated_at together: no deadline; ahead; *)
(* passed; passed and reminded of; escalated.  A reminder is only sent     *)
(* after the deadline, and an escalated row's new deadline is never read.  *)
(***************************************************************************)
SlaStatus == {"off", "running", "elapsed", "reminded", "escalated"}

Level ==
    [ status    : LevelStatus,
      approver  : Users,                  \* approver_user_id
      sla       : SlaStatus,
      decision  : 0..(MaxEdits + 1) ]     \* decision_date: the content decided on

Entry ==
    [action : {"none"} \cup Decisions, by : Users, actingFor : Users \cup {NoUser}]

AbsentLevel(u) ==
    [status |-> "absent", approver |-> u, sla |-> "off", decision |-> NoDecision]

Live(row) == row.status \in {"pending", "waiting"}

(***************************************************************************)
(* uq_approval_levels_report_level_approver: no two rows of a report with  *)
(* the same level number and the same assigned approver.                   *)
(***************************************************************************)
UniqueAssignments(rows) ==
    \A s, t \in Stages :
        /\ s # t
        /\ s[1] = t[1]
        /\ rows[s].status # "absent"
        /\ rows[t].status # "absent"
        => rows[s].approver # rows[t].approver

-----------------------------------------------------------------------------
(***************************************************************************)
(* Delegation of tasks.                                                    *)
(***************************************************************************)
\* Fault: no fallback to the original approver.
ResolveWithoutFallback(d, u) == d[u]

Resolve(d, u) == IF d[u] = NoUser THEN u ELSE d[u]

\* Fault: an escalation does not take the row out of the delegations' reach.
FollowsEscalated(row) == row.status = "pending"

\* A row whose assignee follows the delegations.
Follows(row) == row.status = "pending" /\ row.sla # "escalated"

Synchronized(d, s, row) ==
    IF Follows(row) THEN [row EXCEPT !.approver = Resolve(d, s[2])] ELSE row

\* The rows of report r after synchronize_pending_delegations for the users in U.
SynchronizedFor(d, U, r) ==
    [s \in Stages |->
        IF status[r] = "submitted" /\ (s[2] \in U \/ levels[r][s].approver \in U)
        THEN Synchronized(d, s, levels[r][s])
        ELSE levels[r][s]]

SynchronizeAll(d, U) ==
    /\ levels' = [r \in Reports |-> SynchronizedFor(d, U, r)]
    /\ \A r \in Reports : UniqueAssignments(levels'[r])

\* A delegation graph with a cycle: a set of users who all delegate into it.
Acyclic(d) ==
    ~ \E U \in SUBSET Users : U # {} /\ \A u \in U : d[u] \in U

-----------------------------------------------------------------------------
(***************************************************************************)
(* Report handlers.                                                        *)
(***************************************************************************)
CreateDraft(r) ==
    /\ status[r] = "none"
    /\ status' = [status EXCEPT ![r] = "draft"]
    /\ UNCHANGED <<content, editing, levels, route, submission, entry,
                   payment, delegate, org>>

\* MaxEdits bounds the changes of a claim that are made or under way.
MayEdit(r) == content[r] + editing[r] < MaxEdits

\* update_draft, and an item handler that finds a new total: both write the
\* report row, whose version is compared, so the status is still as checked.
EditReport(r) ==
    /\ status[r] \in EDITABLE_STATUSES
    /\ MayEdit(r)
    /\ content' = [content EXCEPT ![r] = @ + 1]
    /\ UNCHANGED <<status, editing, levels, route, submission, entry, payment,
                   delegate, org>>

\* Fault: the status of the report is not checked.
OpenAnyItemEdit(r) ==
    /\ status[r] # "none"
    /\ MayEdit(r)
    /\ editing' = [editing EXCEPT ![r] = @ + 1]
    /\ UNCHANGED <<status, content, levels, route, submission, entry, payment,
                   delegate, org>>

\* The reads of update_item, delete_item and add_item: the report is editable.
OpenItemEdit(r) ==
    /\ status[r] \in EDITABLE_STATUSES
    /\ MayEdit(r)
    /\ editing' = [editing EXCEPT ![r] = @ + 1]
    /\ UNCHANGED <<status, content, levels, route, submission, entry, payment,
                   delegate, org>>

\* Their commit when the total they computed is the one they had read, as it
\* is in update_item and delete_item, which sum before they flush: the report
\* row is not written, so nothing notices that it has been submitted since.
CommitItemEdit(r) ==
    /\ editing[r] > 0
    /\ editing' = [editing EXCEPT ![r] = @ - 1]
    /\ content' = [content EXCEPT ![r] = @ + 1]
    /\ UNCHANGED <<status, levels, route, submission, entry, payment, delegate, org>>

\* A refusal, or the version of the item or of the report has moved.
RollbackItemEdit(r) ==
    /\ editing[r] > 0
    /\ editing' = [editing EXCEPT ![r] = @ - 1]
    /\ UNCHANGED <<status, content, levels, route, submission, entry, payment,
                   delegate, org>>

\* Fault: rows of an earlier round keep their status.
OpenedLevelKeepingOld(chain, s, row) ==
    IF s[1] \in DOMAIN chain /\ chain[s[1]] = s[2]
    THEN [status   |-> IF s[1] = 1 THEN "pending" ELSE "waiting",
          approver |-> Resolve(delegate, s[2]),
          sla      |-> IF s[1] = 1 THEN "running" ELSE "off",
          decision |-> NoDecision]
    ELSE row

\* One row when a round starts: the row of a selected approver is opened
\* afresh, every other row that exists belongs to an earlier round.
OpenedLevel(chain, s, row) ==
    IF s[1] \in DOMAIN chain /\ chain[s[1]] = s[2]
    THEN [status   |-> IF s[1] = 1 THEN "pending" ELSE "waiting",
          approver |-> Resolve(delegate, s[2]),
          sla      |-> IF s[1] = 1 THEN "running" ELSE "off",
          decision |-> NoDecision]
    ELSE IF row.status = "absent" THEN row ELSE [row EXCEPT !.status = "cancelled"]

InitWorkflow(r, chain) ==
    IF \E s \in Stages : Live(levels[r][s])
    THEN levels[r]
    ELSE [s \in Stages |-> OpenedLevel(chain, s, levels[r][s])]

\* The submit route: report, tasks and history in one transaction.
SubmitReport(r) ==
    LET chain == org.chain[r] IN
    /\ status[r] \in EDITABLE_STATUSES
    /\ DOMAIN chain # {}
    /\ UniqueAssignments(InitWorkflow(r, chain))
    /\ status' = [status EXCEPT ![r] = "submitted"]
    /\ levels' = [levels EXCEPT ![r] = InitWorkflow(r, chain)]
    /\ route' = [route EXCEPT ![r] = chain]
    /\ submission' = [submission EXCEPT ![r] = [content |-> content[r], open |-> editing[r]]]
    /\ UNCHANGED <<content, editing, entry, payment, delegate, org>>

\* Fault: only the actionable task is cancelled.
CancelPendingOnly(row) ==
    IF row.status = "pending" THEN [row EXCEPT !.status = "cancelled"] ELSE row

CancelLive(row) == IF Live(row) THEN [row EXCEPT !.status = "cancelled"] ELSE row

WithdrawReport(r) ==
    /\ status[r] = "submitted"
    /\ status' = [status EXCEPT ![r] = "draft"]
    /\ levels' = [levels EXCEPT ![r] = [s \in Stages |-> CancelLive(levels[r][s])]]
    /\ UNCHANGED <<content, editing, route, submission, entry,
                   payment, delegate, org>>

-----------------------------------------------------------------------------
(***************************************************************************)
(* Approver handlers.                                                      *)
(***************************************************************************)

\* Fault: the assignment is not reconciled before the decision.
PendingLevelAsStored(r, s) == levels[r][s]

\* _pending_level: the actionable row, reconciled with the delegations.
PendingLevel(r, s) == Synchronized(delegate, s, levels[r][s])

\* act_on_report by someone the task is not assigned to: the reconciled
\* assignment is committed before the request is refused.
ActRefused(r, s, u) ==
    /\ status[r] = "submitted"
    /\ levels[r][s].status = "pending"
    /\ PendingLevel(r, s).approver # u
    /\ levels' = [levels EXCEPT ![r] = [@ EXCEPT ![s] = PendingLevel(r, s)]]
    /\ UniqueAssignments(levels'[r])
    /\ UNCHANGED <<status, content, editing, route, submission, entry,
                   payment, delegate, org>>

Decided(r, s, as) ==
    [PendingLevel(r, s) EXCEPT !.status = as, !.decision = content[r]]

\* Fault: the current assignee is taken for the selected approver.
RecordDecisionForAssignee(r, s, u, action) ==
    entry' = [entry EXCEPT ![r] =
                [action    |-> action,
                 by        |-> u,
                 actingFor |-> IF PendingLevel(r, s).approver # u
                               THEN PendingLevel(r, s).approver ELSE NoUser]]

RecordDecision(r, s, u, action) ==
    entry' = [entry EXCEPT ![r] =
                [action    |-> action,
                 by        |-> u,
                 actingFor |-> IF s[2] # u THEN s[2] ELSE NoUser]]

\* The lowest waiting level, which an approval makes actionable.
NextLevels(r) ==
    { t \in Stages :
        /\ levels[r][t].status = "waiting"
        /\ \A q \in Stages : levels[r][q].status = "waiting" => t[1] <= q[1] }

Activated(t, row) ==
    [row EXCEPT !.approver = Resolve(delegate, t[2]), !.status = "pending",
                !.sla = "running"]

Actionable(r, s, u) ==
    /\ status[r] = "submitted"
    /\ levels[r][s].status = "pending"
    /\ PendingLevel(r, s).approver = u

\* act_on_report(..., "approve") with a waiting level left.
ApproveLevel(r, s, u) ==
    /\ Actionable(r, s, u)
    /\ \E t \in NextLevels(r) :
          levels' = [levels EXCEPT ![r] = [@ EXCEPT ![s] = Decided(r, s, "approved"),
                                                    ![t] = Activated(t, levels[r][t])]]
    /\ UniqueAssignments(levels'[r])
    /\ RecordDecision(r, s, u, "approve")
    /\ UNCHANGED <<status, content, editing, route, submission,
                   payment, delegate, org>>

\* ensure_pending_payment: a row that exists is kept.
EnsurePendingPayment(r) ==
    IF payment[r] = NoPayment THEN [payment EXCEPT ![r] = content[r]] ELSE payment

\* act_on_report(..., "approve") on the last level.
ApproveReport(r, s, u) ==
    /\ Actionable(r, s, u)
    /\ NextLevels(r) = {}
    /\ Fits("approved_pending_payment")
    /\ levels' = [levels EXCEPT ![r] = [@ EXCEPT ![s] = Decided(r, s, "approved")]]
    /\ UniqueAssignments(levels'[r])
    /\ status' = [status EXCEPT ![r] = "approved_pending_payment"]
    /\ payment' = EnsurePendingPayment(r)
    /\ RecordDecision(r, s, u, "approve")
    /\ UNCHANGED <<content, editing, route, submission, delegate, org>>

\* act_on_report(..., "reject" or "send_back"): the other tasks are cancelled.
TurnDown(r, s, u, action) ==
    /\ Actionable(r, s, u)
    /\ levels' = [levels EXCEPT ![r] =
                    [t \in Stages |-> IF t = s THEN Decided(r, s, action)
                                      ELSE CancelLive(levels[r][t])]]
    /\ UniqueAssignments(levels'[r])
    /\ status' = [status EXCEPT ![r] = IF action = "reject" THEN "rejected" ELSE "sent_back"]
    /\ RecordDecision(r, s, u, action)
    /\ UNCHANGED <<content, editing, route, submission, payment, delegate, org>>

\* queue_for_approver reconciles the viewer's tasks before it shows them.
ViewQueue(u) ==
    /\ SynchronizeAll(delegate, {u})
    /\ UNCHANGED <<status, content, editing, route, submission, entry,
                   payment, delegate, org>>

-----------------------------------------------------------------------------
(***************************************************************************)
(* Delegation handlers.  delegate[u] is what active_approval_delegation    *)
(* answers for u now, so it also changes without a handler: a window opens *)
(* or ends, or the delegate loses the right to approve.                    *)
(***************************************************************************)
CreateDelegation(u, d) ==
    LET after == [delegate EXCEPT ![u] = d] IN
    /\ u # d
    /\ delegate[u] = NoUser
    /\ Acyclic(after)
    /\ delegate' = after
    /\ SynchronizeAll(after, {u})
    /\ UNCHANGED <<status, content, editing, route, submission,
                   entry, payment, org>>

\* The cleared flag is not flushed when the tasks are reconciled (sessions
\* are made with autoflush=False), so the resolver still finds the row.
DeactivateDelegation(u) ==
    /\ delegate[u] # NoUser
    /\ delegate' = [delegate EXCEPT ![u] = NoUser]
    /\ SynchronizeAll(delegate, {u})
    /\ UNCHANGED <<status, content, editing, route, submission,
                   entry, payment, org>>

WindowOpens(u, d) ==
    /\ u # d
    /\ delegate[u] = NoUser
    /\ delegate' = [delegate EXCEPT ![u] = d]
    /\ Acyclic(delegate')
    /\ UNCHANGED <<status, content, editing, levels, route, submission,
                   entry, payment, org>>

WindowEnds(u) ==
    /\ delegate[u] # NoUser
    /\ delegate' = [delegate EXCEPT ![u] = NoUser]
    /\ UNCHANGED <<status, content, editing, levels, route, submission,
                   entry, payment, org>>

-----------------------------------------------------------------------------
(***************************************************************************)
(* The SLA: time passes, and the scheduled worker sweeps all reports in    *)
(* one transaction.                                                        *)
(***************************************************************************)
Lapsed(row) == [row EXCEPT !.sla = "elapsed"]

DeadlinePasses(r, s) ==
    /\ status[r] = "submitted"
    /\ levels[r][s].status = "pending"
    /\ levels[r][s].sla = "running"
    /\ levels' = [levels EXCEPT ![r] = [@ EXCEPT ![s] = Lapsed(levels[r][s])]]
    /\ UNCHANGED <<status, content, editing, route, submission, entry,
                   payment, delegate, org>>

Overdue(row) == row.status = "pending" /\ row.sla \in {"elapsed", "reminded"}

\* Fault: nothing is done when there is no eligible manager.
EscalatedWithoutReminder(s, row) ==
    IF org.superior[s[2]] = NoUser
    THEN row
    ELSE [row EXCEPT !.approver = org.superior[s[2]], !.sla = "escalated"]

Escalated(s, row) ==
    IF org.superior[s[2]] = NoUser
    THEN [row EXCEPT !.sla = "reminded"]
    ELSE [row EXCEPT !.approver = org.superior[s[2]], !.sla = "escalated"]

\* Fault: the sweep does not reconcile the delegations.
SweptWithoutSync(r) ==
    [s \in Stages |->
        IF status[r] = "submitted" /\ Overdue(levels[r][s])
        THEN Escalated(s, levels[r][s])
        ELSE levels[r][s]]

Swept(r) ==
    LET synced == SynchronizedFor(delegate, Users, r) IN
    [s \in Stages |->
        IF status[r] = "submitted" /\ Overdue(synced[s])
        THEN Escalated(s, synced[s])
        ELSE synced[s]]

ProcessOverdueApprovals ==
    /\ levels' = [r \in Reports |-> Swept(r)]
    /\ \A r \in Reports : UniqueAssignments(levels'[r])
    /\ UNCHANGED <<status, content, editing, route, submission, entry,
                   payment, delegate, org>>

\* An administrator changes managers, roles or workflow rules.
ChangeOrg(o) ==
    /\ org' = o
    /\ UNCHANGED <<status, content, editing, levels, route, submission,
                   entry, payment, delegate>>

-----------------------------------------------------------------------------
Init ==
    /\ status = [r \in Reports |-> "none"]
    /\ content = [r \in Reports |-> 0]
    /\ editing = [r \in Reports |-> 0]
    /\ levels = [r \in Reports |-> [s \in Stages |-> AbsentLevel(s[2])]]
    /\ route = [r \in Reports |-> <<>>]
    /\ submission = [r \in Reports |-> [content |-> 0, open |-> 0]]
    /\ entry = [r \in Reports |-> [action |-> "none", by |-> Owner[r], actingFor |-> NoUser]]
    /\ payment = [r \in Reports |-> NoPayment]
    /\ delegate = [u \in Users |-> NoUser]
    /\ org \in OrgCharts

ReportNext(r) ==
    \/ CreateDraft(r)
    \/ EditReport(r)
    \/ OpenItemEdit(r) \/ CommitItemEdit(r) \/ RollbackItemEdit(r)
    \/ SubmitReport(r)
    \/ WithdrawReport(r)
    \/ \E s \in Stages : DeadlinePasses(r, s)

DecisionNext(r) ==
    \E s \in Stages, u \in Users :
        \/ ActRefused(r, s, u)
        \/ ApproveLevel(r, s, u)
        \/ ApproveReport(r, s, u)
        \/ \E action \in {"reject", "send_back"} : TurnDown(r, s, u, action)

DelegationNext ==
    \/ \E u \in Users : ViewQueue(u) \/ DeactivateDelegation(u) \/ WindowEnds(u)
    \/ \E p \in DelegationPairs : CreateDelegation(p[1], p[2]) \/ WindowOpens(p[1], p[2])

Next ==
    \/ \E r \in Reports : ReportNext(r) \/ DecisionNext(r)
    \/ DelegationNext
    \/ ProcessOverdueApprovals
    \/ \E o \in OrgCharts : ChangeOrg(o)

Spec == Init /\ [][Next]_vars

\* The platform scheduler runs the worker again and again.
FairSpec == Spec /\ WF_vars(ProcessOverdueApprovals)

-----------------------------------------------------------------------------
(***************************************************************************)
(* Correctness.                                                            *)
(***************************************************************************)

\* The columns hold what the code may store in them.
TypeOK ==
    /\ status \in [Reports -> ReportStatus]
    /\ content \in [Reports -> 0..MaxEdits]
    /\ editing \in [Reports -> 0..MaxEdits]
    /\ \A r \in Reports : content[r] + editing[r] <= MaxEdits
    /\ levels \in [Reports -> [Stages -> Level]]
    /\ route \in [Reports -> UNION { [1..n -> Users] : n \in 0..MaxLevel }]
    /\ submission \in [Reports -> Submission]
    /\ entry \in [Reports -> Entry]
    /\ payment \in [Reports -> 0..(MaxEdits + 1)]
    /\ delegate \in [Users -> Users \cup {NoUser}]
    /\ org \in OrgCharts

\* Stage s belongs to the current round of report r.
OnRoute(r, s) == s[1] \in DOMAIN route[r] /\ route[r][s[1]] = s[2]

\* Only item edits that were open when report r was submitted can have changed
\* it since.  An approval is an approval of what was submitted, or of what
\* those edits that had been committed by then have made of it.
ClaimHolds(r) ==
    content[r] \in submission[r].content .. (submission[r].content + submission[r].open)

Approved(r, s) ==
    /\ levels[r][s].status = "approved"
    /\ levels[r][s].decision \in submission[r].content .. content[r]

\* A submitted report waits for exactly one approver of its route: those
\* before have approved, those after wait, and no task of an earlier round is
\* still open (init_workflow, act_on_report and withdraw_report rewrite the
\* rows of several rounds).  All of them see the claim as it was submitted,
\* with one exception: an item edit opened before the submission may change it
\* between two approvals (update_item and delete_item, see MCItemEdits).
StagesInOrder ==
    \A r \in Reports : status[r] = "submitted" =>
        /\ ClaimHolds(r)
        /\ \E n \in DOMAIN route[r] : \A s \in Stages :
            IF OnRoute(r, s)
            THEN /\ s[1] < n => Approved(r, s)
                 /\ s[1] = n => levels[r][s].status = "pending"
                 /\ s[1] > n => levels[r][s].status = "waiting"
            ELSE levels[r][s].status \in {"absent", "cancelled"}

\* No task can be acted on, and none can become actionable, while the report
\* is not submitted: its owner may be editing it.
NoTaskOutsideReview ==
    \A r \in Reports, s \in Stages :
        status[r] # "submitted" => ~Live(levels[r][s])

\* The stage of the last approver of the route.
LastStage(r) == <<Len(route[r]), route[r][Len(route[r])]>>

\* A report is approved only when every approver of its route has approved it
\* since it was submitted, only then does it have a payment row, and that row
\* pays what the last approver decided on.  It is the very content that was
\* submitted and that all the others have approved, unless an item edit that
\* was open at the submission was committed behind their backs.
PaymentMatchesApproval ==
    \A r \in Reports :
        IF status[r] = "approved_pending_payment"
        THEN /\ DOMAIN route[r] # {}
             /\ \A s \in Stages : OnRoute(r, s) => Approved(r, s)
             /\ payment[r] = levels[r][LastStage(r)].decision
             /\ ClaimHolds(r)
        ELSE payment[r] = NoPayment

\* The owner of a report may end up with its task (as a delegate, or by an
\* escalation), but then the history says for whom he decided: nobody is his
\* own selected approver.
OwnerNeverDecidesForHimself ==
    \A r \in Reports :
        entry[r].action # "none" /\ entry[r].by = Owner[r] =>
            entry[r].actingFor \notin {NoUser, Owner[r]}

\* A decision is made by whoever the task belongs to at that moment: a former
\* delegate cannot use an assignment his delegation has left behind.
DecidedByCurrentAssignee ==
    [][\A r \in Reports, s \in Stages :
          levels[r][s].decision = NoDecision /\ levels'[r][s].decision # NoDecision =>
              entry'[r].by = IF levels[r][s].sla = "escalated" THEN levels[r][s].approver
                             ELSE Resolve(delegate, s[2])]_vars

\* An escalated task stays with the manager it was escalated to, whatever
\* happens to the delegations of the original approver, until it is closed.
EscalationSticks ==
    [][\A r \in Reports, s \in Stages :
          /\ levels[r][s].status = "pending"
          /\ levels[r][s].sla = "escalated"
          /\ levels'[r][s].status = "pending"
          => levels'[r][s].approver = levels[r][s].approver]_vars

-----------------------------------------------------------------------------
\* What the sweep owes to an overdue task: an escalation, or one reminder.
Neglected(r, s) ==
    /\ status[r] = "submitted"
    /\ levels[r][s].status = "pending"
    /\ levels[r][s].sla = "elapsed"

\* process_overdue_approvals: "Escalate overdue tasks once to an eligible
\* manager", or remind: no overdue task is left alone for ever.
OverdueTasksAreHandled ==
    \A r \in Reports, s \in Stages : Neglected(r, s) ~> ~Neglected(r, s)

Misassigned(r, s) ==
    /\ status[r] = "submitted"
    /\ Follows(levels[r][s])
    /\ levels[r][s].approver # Resolve(delegate, s[2])

\* A task whose delegation opens or ends without a request is reassigned in
\* the end: a delegate's own queue does not look for it, the sweep does.
AssignmentsSettle ==
    \A r \in Reports, s \in Stages : Misassigned(r, s) ~> ~Misassigned(r, s)

\* deactivate_delegation: "Restore still-pending, non-escalated tasks to
\* their original owner before the cancellation becomes visible."
DeactivationRestoresTasks ==
    [][\A u \in Users : DeactivateDelegation(u) =>
          \A r \in Reports, s \in Stages :
              status[r] = "submitted" /\ s[2] = u /\ Follows(levels[r][s]) =>
                  levels'[r][s].approver = u]_vars

\* What tests/test_full_reimbursement_flow.py expects of the last approval:
\* when the approver of the last level approves, the report is approved, and
\* nothing but a clash of assignments ever refuses it.
LastApprovalTakesEffect ==
    \A r \in Reports, s \in Stages, u \in Users :
        /\ Actionable(r, s, u)
        /\ NextLevels(r) = {}
        /\ UniqueAssignments([levels[r] EXCEPT ![s] = PendingLevel(r, s)])
        => ENABLED ApproveReport(r, s, u)

=============================================================================
