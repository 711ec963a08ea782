----------------------- MODULE ApprovalWorkflow_proofs -----------------------
(***************************************************************************)
(* What holds of ApprovalWorkflow for every set of reports and users,      *)
(* every set of org charts and every bound.                                *)
(***************************************************************************)
EXTENDS ApprovalWorkflow, TLAPS

USE UsersAssumption, BoundsAssumption, OrgAssumption

-----------------------------------------------------------------------------
(***************************************************************************)
(* Rows.                                                                   *)
(***************************************************************************)

\* Reconciling a row with the delegations changes its assignee and nothing else.
LEMMA SynchronizedRow ==
    ASSUME NEW d \in [Users -> Users \cup {NoUser}], NEW s \in Stages, NEW row \in Level
    PROVE  /\ Synchronized(d, s, row) \in Level
           /\ Synchronized(d, s, row).status = row.status
           /\ Synchronized(d, s, row).decision = row.decision
           /\ Synchronized(d, s, row).sla = row.sla
<1>1. s[2] \in Users
  BY DEF Stages
<1>2. Resolve(d, s[2]) \in Users
  BY <1>1 DEF Resolve
<1> QED
  BY <1>2 DEF Synchronized, Level

\* The bulk reconciliation keeps the table well formed and every status.
LEMMA SynchronizedRows ==
    ASSUME TypeOK, NEW d \in [Users -> Users \cup {NoUser}], NEW U, NEW r \in Reports
    PROVE  /\ SynchronizedFor(d, U, r) \in [Stages -> Level]
           /\ \A s \in Stages :
                 /\ SynchronizedFor(d, U, r)[s].status = levels[r][s].status
                 /\ SynchronizedFor(d, U, r)[s].decision = levels[r][s].decision
<1>1. \A s \in Stages : levels[r][s] \in Level
  BY DEF TypeOK
<1>2. \A s \in Stages :
         /\ Synchronized(d, s, levels[r][s]) \in Level
         /\ Synchronized(d, s, levels[r][s]).status = levels[r][s].status
         /\ Synchronized(d, s, levels[r][s]).decision = levels[r][s].decision
  BY <1>1, SynchronizedRow
<1> QED
  BY <1>1, <1>2 DEF SynchronizedFor

\* So does the sweep: it moves tasks and deadlines, it decides nothing.
LEMMA SweptRows ==
    ASSUME TypeOK, NEW r \in Reports
    PROVE  /\ Swept(r) \in [Stages -> Level]
           /\ \A s \in Stages :
                 /\ Swept(r)[s].status = levels[r][s].status
                 /\ Swept(r)[s].decision = levels[r][s].decision
<1> DEFINE synced == SynchronizedFor(delegate, Users, r)
<1>1. /\ synced \in [Stages -> Level]
      /\ \A s \in Stages : /\ synced[s].status = levels[r][s].status
                           /\ synced[s].decision = levels[r][s].decision
  <2>1. delegate \in [Users -> Users \cup {NoUser}]
    BY DEF TypeOK
  <2> QED
    BY <2>1, SynchronizedRows
<1>2. org.superior \in [Users -> Users \cup {NoUser}]
  BY DEF TypeOK
<1>3. ASSUME NEW s \in Stages
      PROVE  /\ Escalated(s, synced[s]) \in Level
             /\ Escalated(s, synced[s]).status = synced[s].status
             /\ Escalated(s, synced[s]).decision = synced[s].decision
  <2>1. s[2] \in Users /\ synced[s] \in Level
    BY <1>1 DEF Stages
  <2> HIDE DEF synced
  <2> QED
    BY <1>2, <2>1 DEF Escalated, Level, SlaStatus
<1>4. Swept(r) = [s \in Stages |->
                    IF status[r] = "submitted" /\ Overdue(synced[s])
                    THEN Escalated(s, synced[s]) ELSE synced[s]]
  BY DEF Swept
<1> HIDE DEF synced
<1> QED
  BY <1>1, <1>3, <1>4

\* The rows a decision leaves behind.
LEMMA DecidedRow ==
    ASSUME TypeOK, NEW r \in Reports, NEW s \in Stages,
           NEW as \in {"approved", "reject", "send_back"}
    PROVE  /\ Decided(r, s, as) \in Level
           /\ Decided(r, s, as).status = as
           /\ Decided(r, s, as).decision = content[r]
<1>1. levels[r][s] \in Level /\ content[r] \in 0..(MaxEdits + 1)
  BY DEF TypeOK
<1>2. PendingLevel(r, s) \in Level
  BY <1>1, SynchronizedRow DEF PendingLevel, TypeOK
<1> QED
  BY <1>1, <1>2 DEF Decided, Level, LevelStatus

LEMMA ActivatedRow ==
    ASSUME TypeOK, NEW r \in Reports, NEW t \in Stages
    PROVE  /\ Activated(t, levels[r][t]) \in Level
           /\ Activated(t, levels[r][t]).status = "pending"
           /\ Activated(t, levels[r][t]).decision = levels[r][t].decision
<1>1. levels[r][t] \in Level
  BY DEF TypeOK
<1>2. Resolve(delegate, t[2]) \in Users
  BY DEF Resolve, Stages, TypeOK
<1> QED
  BY <1>1, <1>2 DEF Activated, Level, LevelStatus, SlaStatus

LEMMA CancelledRow ==
    ASSUME NEW row \in Level
    PROVE  /\ CancelLive(row) \in Level
           /\ CancelLive(row).status = IF Live(row) THEN "cancelled" ELSE row.status
           /\ CancelLive(row).decision = row.decision
BY DEF CancelLive, Live, Level, LevelStatus

\* The rows of a new round: those of the selected approvers are opened, with
\* the first one pending, and no other row is open or approved.
LEMMA OpenedRow ==
    ASSUME TypeOK, NEW r \in Reports, NEW chain \in Chains(r), NEW s \in Stages
    PROVE  LET row == OpenedLevel(chain, s, levels[r][s]) IN
           /\ row \in Level
           /\ IF s[1] \in DOMAIN chain /\ chain[s[1]] = s[2]
              THEN row.status = IF s[1] = 1 THEN "pending" ELSE "waiting"
              ELSE row.status \in {"absent", "cancelled"}
<1>1. levels[r][s] \in Level
  BY DEF TypeOK
<1>2. Resolve(delegate, s[2]) \in Users
  BY DEF Resolve, Stages, TypeOK
<1>3. NoDecision \in 0..(MaxEdits + 1)
  BY DEF NoDecision
<1> QED
  BY <1>1, <1>2, <1>3 DEF OpenedLevel, Level, LevelStatus, SlaStatus

LEMMA ChainOfOrg ==
    ASSUME TypeOK, NEW r \in Reports
    PROVE  org.chain[r] \in Chains(r)
BY DEF TypeOK

LEMMA ChainDomain ==
    ASSUME NEW r \in Reports, NEW chain \in Chains(r)
    PROVE  /\ chain \in UNION { [1..n -> Users] : n \in 0..MaxLevel }
           /\ \E n \in 0..MaxLevel : DOMAIN chain = 1..n
           /\ \A i \in DOMAIN chain : chain[i] \in Users \ {Owner[r]}
BY DEF Chains

-----------------------------------------------------------------------------
(***************************************************************************)
(* Typing.                                                                 *)
(***************************************************************************)

\* Every column only ever holds what it may hold: in particular a task always
\* has an assignee, whatever the delegations and the hierarchy do.
THEOREM TypeCorrect == Spec => []TypeOK
<1>1. Init => TypeOK
  <2> SUFFICES ASSUME Init PROVE TypeOK
    OBVIOUS
  <2>1. \A s \in Stages : AbsentLevel(s[2]) \in Level
    BY DEF AbsentLevel, Stages, Level, LevelStatus, SlaStatus, NoDecision
  <2>2. <<>> \in UNION { [1..n -> Users] : n \in 0..MaxLevel }
    <3>1. <<>> \in [1..0 -> Users]
      OBVIOUS
    <3> QED
      BY <3>1
  <2>3. \A r \in Reports :
          [action |-> "none", by |-> Owner[r], actingFor |-> NoUser] \in Entry
    BY DEF Entry
  <2> QED
    <3>1. levels \in [Reports -> [Stages -> Level]]
      BY <2>1 DEF Init
    <3>2. route \in [Reports -> UNION { [1..n -> Users] : n \in 0..MaxLevel }]
      BY <2>2 DEF Init
    <3>3. entry \in [Reports -> Entry]
      BY <2>3 DEF Init
    <3>4. payment \in [Reports -> 0..(MaxEdits + 1)]
      BY DEF Init, NoPayment
    <3>7. /\ content \in [Reports -> 0..MaxEdits]
          /\ editing \in [Reports -> 0..MaxEdits]
          /\ \A r \in Reports : content[r] + editing[r] <= MaxEdits
          /\ submission \in [Reports -> Submission]
      BY DEF Init, Submission
    <3>5. status \in [Reports -> ReportStatus]
      BY DEF Init, ReportStatus
    <3>6. delegate \in [Users -> Users \cup {NoUser}] /\ org \in OrgCharts
      BY DEF Init
    <3> QED
      BY <3>1, <3>2, <3>3, <3>4, <3>5, <3>6, <3>7, Zenon DEF TypeOK
<1>2. TypeOK /\ [Next]_vars => TypeOK'
  <2> SUFFICES ASSUME TypeOK, [Next]_vars PROVE TypeOK'
    OBVIOUS
  <2>1. ASSUME NEW r \in Reports, CreateDraft(r) PROVE TypeOK'
    BY <2>1 DEF CreateDraft, TypeOK, ReportStatus
  <2>2. ASSUME NEW r \in Reports, EditReport(r) PROVE TypeOK'
    BY <2>2 DEF EditReport, MayEdit, TypeOK
  <2>19. ASSUME NEW r \in Reports, OpenItemEdit(r) PROVE TypeOK'
    BY <2>19 DEF OpenItemEdit, MayEdit, TypeOK
  <2>20. ASSUME NEW r \in Reports, CommitItemEdit(r) PROVE TypeOK'
    BY <2>20 DEF CommitItemEdit, TypeOK
  <2>21. ASSUME NEW r \in Reports, RollbackItemEdit(r) PROVE TypeOK'
    BY <2>21 DEF RollbackItemEdit, TypeOK
  <2>3. ASSUME NEW r \in Reports, SubmitReport(r) PROVE TypeOK'
    <3> DEFINE chain == org.chain[r]
    <3>1. chain \in Chains(r)
      BY ChainOfOrg
    <3>2. \A s \in Stages : OpenedLevel(chain, s, levels[r][s]) \in Level
      BY <3>1, OpenedRow
    <3>3. levels[r] \in [Stages -> Level]
      BY DEF TypeOK
    <3>4. InitWorkflow(r, chain) \in [Stages -> Level]
      BY <3>2, <3>3 DEF InitWorkflow
    <3>5. chain \in UNION { [1..n -> Users] : n \in 0..MaxLevel }
      BY <3>1, ChainDomain
    <3>6. [content |-> content[r], open |-> editing[r]] \in Submission
      BY DEF TypeOK, Submission
    <3> QED
      BY <2>3, <3>4, <3>5, <3>6 DEF SubmitReport, TypeOK, ReportStatus
  <2>4. ASSUME NEW r \in Reports, WithdrawReport(r) PROVE TypeOK'
    <3>1. [s \in Stages |-> CancelLive(levels[r][s])] \in [Stages -> Level]
      BY CancelledRow DEF TypeOK
    <3> QED
      BY <2>4, <3>1 DEF WithdrawReport, TypeOK, ReportStatus
  <2>5. ASSUME NEW r \in Reports, NEW s \in Stages, DeadlinePasses(r, s) PROVE TypeOK'
    <3>1. levels[r][s] \in Level
      BY DEF TypeOK
    <3>2. Lapsed(levels[r][s]) \in Level
      BY <3>1 DEF Lapsed, Level, SlaStatus
    <3>3. levels' \in [Reports -> [Stages -> Level]]
      BY <2>5, <3>2 DEF DeadlinePasses, TypeOK
    <3> QED
      BY <2>5, <3>3 DEF DeadlinePasses, TypeOK
  <2>6. ASSUME NEW r \in Reports, NEW s \in Stages, NEW u \in Users, ActRefused(r, s, u)
        PROVE  TypeOK'
    <3>1. levels[r][s] \in Level /\ delegate \in [Users -> Users \cup {NoUser}]
      BY DEF TypeOK
    <3>2. PendingLevel(r, s) \in Level
      BY <3>1, SynchronizedRow DEF PendingLevel
    <3> QED
      BY <2>6, <3>2 DEF ActRefused, TypeOK
  <2>7. ASSUME NEW r \in Reports, NEW s \in Stages, NEW u \in Users, ApproveLevel(r, s, u)
        PROVE  TypeOK'
    <3>1. PICK t \in NextLevels(r) :
            levels' = [levels EXCEPT ![r] = [@ EXCEPT ![s] = Decided(r, s, "approved"),
                                                      ![t] = Activated(t, levels[r][t])]]
      BY <2>7 DEF ApproveLevel
    <3>2. t \in Stages
      BY DEF NextLevels
    <3>3. Decided(r, s, "approved") \in Level /\ Activated(t, levels[r][t]) \in Level
      BY <3>2, DecidedRow, ActivatedRow
    <3>4. levels' \in [Reports -> [Stages -> Level]]
      BY <3>1, <3>2, <3>3 DEF TypeOK
    <3>5. entry' \in [Reports -> Entry]
      BY <2>7 DEF ApproveLevel, RecordDecision, TypeOK, Entry, Stages, Decisions
    <3> QED
      BY <2>7, <3>4, <3>5 DEF ApproveLevel, TypeOK
  <2>8. ASSUME NEW r \in Reports, NEW s \in Stages, NEW u \in Users, ApproveReport(r, s, u)
        PROVE  TypeOK'
    <3>1. Decided(r, s, "approved") \in Level
      BY DecidedRow
    <3>2. levels' \in [Reports -> [Stages -> Level]]
      BY <2>8, <3>1 DEF ApproveReport, TypeOK
    <3>3. entry' \in [Reports -> Entry]
      BY <2>8 DEF ApproveReport, RecordDecision, TypeOK, Entry, Stages, Decisions
    <3>4. payment' \in [Reports -> 0..(MaxEdits + 1)]
      BY <2>8 DEF ApproveReport, EnsurePendingPayment, TypeOK
    <3> QED
      BY <2>8, <3>2, <3>3, <3>4 DEF ApproveReport, TypeOK, ReportStatus
  <2>9. ASSUME NEW r \in Reports, NEW s \in Stages, NEW u \in Users,
               NEW action \in {"reject", "send_back"}, TurnDown(r, s, u, action)
        PROVE  TypeOK'
    <3>1. Decided(r, s, action) \in Level
      BY DecidedRow
    <3>2. \A t \in Stages : CancelLive(levels[r][t]) \in Level
      BY CancelledRow DEF TypeOK
    <3>3. levels' \in [Reports -> [Stages -> Level]]
      BY <2>9, <3>1, <3>2 DEF TurnDown, TypeOK
    <3>4. entry' \in [Reports -> Entry]
      BY <2>9 DEF TurnDown, RecordDecision, TypeOK, Entry, Stages, Decisions
    <3> QED
      BY <2>9, <3>3, <3>4 DEF TurnDown, TypeOK, ReportStatus
  <2>10. ASSUME NEW d \in [Users -> Users \cup {NoUser}], NEW U, SynchronizeAll(d, U)
         PROVE  levels' \in [Reports -> [Stages -> Level]]
    BY <2>10, SynchronizedRows DEF SynchronizeAll
  <2>11. ASSUME NEW u \in Users, ViewQueue(u) PROVE TypeOK'
    BY <2>10, <2>11 DEF ViewQueue, TypeOK
  <2>12. ASSUME NEW u \in Users, DeactivateDelegation(u) PROVE TypeOK'
    BY <2>10, <2>12 DEF DeactivateDelegation, TypeOK
  <2>13. ASSUME NEW u \in Users, WindowEnds(u) PROVE TypeOK'
    BY <2>13 DEF WindowEnds, TypeOK
  <2>14. ASSUME NEW p \in DelegationPairs, CreateDelegation(p[1], p[2]) PROVE TypeOK'
    <3>1. p[1] \in Users /\ p[2] \in Users
      OBVIOUS
    <3>2. delegate' \in [Users -> Users \cup {NoUser}]
      BY <2>14, <3>1 DEF CreateDelegation, TypeOK
    <3>3. levels' \in [Reports -> [Stages -> Level]]
      BY <2>10, <2>14, <3>2 DEF CreateDelegation
    <3> QED
      BY <2>14, <3>2, <3>3 DEF CreateDelegation, TypeOK
  <2>15. ASSUME NEW p \in DelegationPairs, WindowOpens(p[1], p[2]) PROVE TypeOK'
    <3>1. p[1] \in Users /\ p[2] \in Users
      OBVIOUS
    <3> QED
      BY <2>15, <3>1 DEF WindowOpens, TypeOK
  <2>16. ASSUME ProcessOverdueApprovals PROVE TypeOK'
    <3>1. levels' \in [Reports -> [Stages -> Level]]
      BY <2>16, SweptRows DEF ProcessOverdueApprovals
    <3> QED
      BY <2>16, <3>1 DEF ProcessOverdueApprovals, TypeOK
  <2>17. ASSUME NEW o \in OrgCharts, ChangeOrg(o) PROVE TypeOK'
    BY <2>17 DEF ChangeOrg, TypeOK
  <2>18. CASE UNCHANGED vars
    BY <2>18 DEF vars, TypeOK
  <2> QED
    BY <2>1, <2>2, <2>3, <2>4, <2>5, <2>6, <2>7, <2>8, <2>9, <2>11, <2>12, <2>13,
       <2>14, <2>15, <2>16, <2>17, <2>18, <2>19, <2>20, <2>21
    DEF Next, ReportNext, DecisionNext, DelegationNext
<1> QED
  BY <1>1, <1>2, PTL DEF Spec

-----------------------------------------------------------------------------
(***************************************************************************)
(* The round: tasks in order, approval complete.                           *)
(***************************************************************************)

\* Nobody selected for a report is its owner, and nobody is selected twice.
RouteSelected == \A r \in Reports : route[r] \in Chains(r)

\* Every item edit that may still change a claim under review was open when it
\* was submitted, and has been counted then.
OpenEditsCounted ==
    \A r \in Reports : status[r] \in {"submitted", "approved_pending_payment"} =>
        /\ submission[r].content <= content[r]
        /\ content[r] + editing[r] <= submission[r].content + submission[r].open

\* An approval is only complete because the tasks are passed on in order, and
\* the tasks are in order because a round starts with no task of another one
\* open: the five are inductive together, none of them is alone.
RoundInv ==
    /\ RouteSelected
    /\ OpenEditsCounted
    /\ StagesInOrder
    /\ NoTaskOutsideReview
    /\ PaymentMatchesApproval

\* A step that moves tasks between people and lets time pass, but makes no
\* decision and starts or ends no round.
Quiet ==
    /\ UNCHANGED <<status, content, editing, route, submission, entry, payment>>
    /\ \A r \in Reports, s \in Stages :
          /\ levels'[r][s].status = levels[r][s].status
          /\ levels'[r][s].decision = levels[r][s].decision

\* The last approver of a route has a stage of his own.
LEMMA LastStageExists ==
    ASSUME NEW r \in Reports, route[r] \in Chains(r), DOMAIN route[r] # {}
    PROVE  LastStage(r) \in Stages
<1>1. PICK n \in 0..MaxLevel : route[r] \in [1..n -> Users \ {Owner[r]}]
  BY DEF Chains
<1>2. Len(route[r]) = n /\ n \in 1..n /\ n \in 1..MaxLevel
  BY <1>1
<1>3. route[r][n] \in Users
  BY <1>1, <1>2
<1> QED
  BY <1>2, <1>3 DEF LastStage, Stages

\* What is said of a claim that is to be paid.
PaidAsApproved(r) ==
    /\ DOMAIN route[r] # {}
    /\ \A s \in Stages : OnRoute(r, s) => Approved(r, s)
    /\ payment[r] = levels[r][LastStage(r)].decision
    /\ ClaimHolds(r)

\* It holds as long as the decisions of the stages, the submission, the
\* content and the payment row stay.
LEMMA PaidStays ==
    ASSUME RouteSelected, NEW r \in Reports, PaidAsApproved(r),
           route'[r] = route[r], submission'[r] = submission[r],
           content'[r] = content[r], payment'[r] = payment[r],
           \A s \in Stages : /\ levels'[r][s].status = levels[r][s].status
                             /\ levels'[r][s].decision = levels[r][s].decision
    PROVE  PaidAsApproved(r)'
<1>1. LastStage(r) \in Stages
  BY LastStageExists DEF RouteSelected, PaidAsApproved
<1>2. LastStage(r)' = LastStage(r)
  BY DEF LastStage
<1>3. \A s \in Stages : /\ OnRoute(r, s)' <=> OnRoute(r, s)
                        /\ Approved(r, s)' <=> Approved(r, s)
  BY DEF OnRoute, Approved
<1>4. ClaimHolds(r)'
  BY DEF PaidAsApproved, ClaimHolds
<1>5. payment'[r] = levels'[r][LastStage(r)'].decision
  BY <1>1, <1>2 DEF PaidAsApproved
<1> QED
  BY <1>3, <1>4, <1>5 DEF PaidAsApproved

LEMMA QuietKeepsRound == RoundInv /\ Quiet => RoundInv'
<1> SUFFICES ASSUME RoundInv, Quiet PROVE RoundInv'
  OBVIOUS
<1>1. \A r \in Reports, s \in Stages :
        /\ levels'[r][s].status = levels[r][s].status
        /\ levels'[r][s].decision = levels[r][s].decision
  BY DEF Quiet
<1>2. /\ status' = status /\ content' = content /\ editing' = editing
      /\ route' = route /\ submission' = submission /\ payment' = payment
  BY DEF Quiet
<1>3. RouteSelected'
  BY <1>2 DEF RoundInv, RouteSelected, Chains
<1>4. StagesInOrder'
  BY <1>1, <1>2 DEF RoundInv, StagesInOrder, OnRoute, Approved, ClaimHolds
<1>5. NoTaskOutsideReview'
  BY <1>1, <1>2 DEF RoundInv, NoTaskOutsideReview, Live
<1>6. PaymentMatchesApproval'
  <2>1. \A r \in Reports : PaidAsApproved(r) => PaidAsApproved(r)'
    BY <1>1, <1>2, PaidStays DEF RoundInv
  <2> QED
    BY <1>2, <2>1 DEF RoundInv, PaymentMatchesApproval, PaidAsApproved, NoPayment
<1>7. OpenEditsCounted'
  BY <1>2 DEF RoundInv, OpenEditsCounted
<1> QED
  BY <1>3, <1>4, <1>5, <1>6, <1>7 DEF RoundInv

\* Delegations, queues, deadlines, the sweep and reorganisations are quiet.
LEMMA QuietSteps ==
    ASSUME TypeOK,
           \/ DelegationNext
           \/ ProcessOverdueApprovals
           \/ \E o \in OrgCharts : ChangeOrg(o)
           \/ \E r \in Reports, s \in Stages : DeadlinePasses(r, s)
           \/ \E r \in Reports, s \in Stages, u \in Users : ActRefused(r, s, u)
           \/ UNCHANGED vars
    PROVE  Quiet
<1>1. ASSUME NEW d \in [Users -> Users \cup {NoUser}], NEW U, SynchronizeAll(d, U)
      PROVE  \A r \in Reports, s \in Stages :
                /\ levels'[r][s].status = levels[r][s].status
                /\ levels'[r][s].decision = levels[r][s].decision
  BY <1>1, SynchronizedRows DEF SynchronizeAll
<1>2. delegate \in [Users -> Users \cup {NoUser}]
  BY DEF TypeOK
<1>3. ASSUME NEW u \in Users, ViewQueue(u) PROVE Quiet
  BY <1>1, <1>2, <1>3 DEF ViewQueue, Quiet
<1>4. ASSUME NEW u \in Users, DeactivateDelegation(u) PROVE Quiet
  BY <1>1, <1>2, <1>4 DEF DeactivateDelegation, Quiet
<1>5. ASSUME NEW u \in Users, WindowEnds(u) PROVE Quiet
  BY <1>5 DEF WindowEnds, Quiet
<1>6. ASSUME NEW p \in DelegationPairs, CreateDelegation(p[1], p[2]) PROVE Quiet
  <2>1. p[1] \in Users /\ p[2] \in Users
    OBVIOUS
  <2>2. delegate' \in [Users -> Users \cup {NoUser}]
    BY <1>2, <1>6, <2>1 DEF CreateDelegation
  <2>3. SynchronizeAll(delegate', {p[1]})
    BY <1>6 DEF CreateDelegation
  <2> QED
    BY <1>1, <1>6, <2>2, <2>3 DEF CreateDelegation, Quiet
<1>7. ASSUME NEW p \in DelegationPairs, WindowOpens(p[1], p[2]) PROVE Quiet
  BY <1>7 DEF WindowOpens, Quiet
<1>8. ASSUME ProcessOverdueApprovals PROVE Quiet
  BY <1>8, SweptRows DEF ProcessOverdueApprovals, Quiet
<1>9. ASSUME NEW o \in OrgCharts, ChangeOrg(o) PROVE Quiet
  BY <1>9 DEF ChangeOrg, Quiet
<1>10. ASSUME NEW r \in Reports, NEW s \in Stages, DeadlinePasses(r, s) PROVE Quiet
  <2>1. levels[r][s] \in Level
    BY DEF TypeOK
  <2>2. /\ Lapsed(levels[r][s]).status = levels[r][s].status
        /\ Lapsed(levels[r][s]).decision = levels[r][s].decision
    BY <2>1 DEF Lapsed, Level
  <2> QED
    BY <1>10, <2>2 DEF DeadlinePasses, Quiet, TypeOK
<1>11. ASSUME NEW r \in Reports, NEW s \in Stages, NEW u \in Users, ActRefused(r, s, u)
       PROVE  Quiet
  <2>1. levels[r][s] \in Level
    BY DEF TypeOK
  <2>2. /\ PendingLevel(r, s).status = levels[r][s].status
        /\ PendingLevel(r, s).decision = levels[r][s].decision
    BY <1>2, <2>1, SynchronizedRow DEF PendingLevel
  <2> QED
    BY <1>11, <2>2 DEF ActRefused, Quiet, TypeOK
<1>12. CASE UNCHANGED vars
  BY <1>12 DEF vars, Quiet
<1> QED
  BY <1>3, <1>4, <1>5, <1>6, <1>7, <1>8, <1>9, <1>10, <1>11, <1>12 DEF DelegationNext

\* The steps on one report that touch neither its tasks nor its review.
LEMMA EditsKeepRound ==
    ASSUME TypeOK, RoundInv, NEW r \in Reports,
           CreateDraft(r) \/ EditReport(r) \/ OpenItemEdit(r)
    PROVE  RoundInv'
<1>1. status[r] \in {"none"} \cup EDITABLE_STATUSES /\ status'[r] \in EDITABLE_STATUSES
  BY DEF CreateDraft, EditReport, OpenItemEdit, EDITABLE_STATUSES, TypeOK
<1>2. /\ UNCHANGED <<levels, route, submission, payment>>
      /\ \A q \in Reports \ {r} :
            status'[q] = status[q] /\ content'[q] = content[q] /\ editing'[q] = editing[q]
  BY DEF CreateDraft, EditReport, OpenItemEdit, TypeOK
<1>3. RouteSelected'
  BY <1>2 DEF RoundInv, RouteSelected, Chains
<1>4. StagesInOrder'
  BY <1>1, <1>2 DEF RoundInv, StagesInOrder, OnRoute, Approved, ClaimHolds, EDITABLE_STATUSES
<1>5. NoTaskOutsideReview'
  BY <1>1, <1>2 DEF RoundInv, NoTaskOutsideReview, Live, EDITABLE_STATUSES
<1>6. PaymentMatchesApproval'
  BY <1>1, <1>2 DEF RoundInv, PaymentMatchesApproval, OnRoute, Approved, ClaimHolds,
                    LastStage, EDITABLE_STATUSES
<1>7. OpenEditsCounted'
  BY <1>1, <1>2 DEF RoundInv, OpenEditsCounted, EDITABLE_STATUSES
<1> QED
  BY <1>3, <1>4, <1>5, <1>6, <1>7 DEF RoundInv

\* An item edit that ends, at whatever moment: what has been approved lies
\* between the submission and the claim as it is, which can only move up to
\* what the edits counted at the submission make of it.
LEMMA ItemEditsKeepRound ==
    ASSUME TypeOK, RoundInv, NEW r \in Reports, CommitItemEdit(r) \/ RollbackItemEdit(r)
    PROVE  RoundInv'
<1>1. /\ UNCHANGED <<status, levels, route, submission, payment>>
      /\ \A q \in Reports \ {r} : content'[q] = content[q] /\ editing'[q] = editing[q]
      /\ content'[r] \in {content[r], content[r] + 1}
      /\ content'[r] + editing'[r] <= content[r] + editing[r]
      /\ content[r] <= content'[r]
      /\ 0 <= editing'[r]
      /\ editing'[r] \in Nat
  BY DEF CommitItemEdit, RollbackItemEdit, TypeOK
<1>2. \A q \in Reports : /\ content[q] \in Nat /\ editing[q] \in Nat
                         /\ content'[q] \in Nat /\ editing'[q] \in Nat
                         /\ submission[q].content \in Nat /\ submission[q].open \in Nat
                         /\ content[q] <= content'[q]
                         /\ content'[q] + editing'[q] <= content[q] + editing[q]
  <2>1. \A q \in Reports : /\ content[q] \in Nat /\ editing[q] \in Nat
                           /\ submission[q].content \in Nat /\ submission[q].open \in Nat
    BY DEF TypeOK, Submission
  <2>2. ASSUME NEW q \in Reports \ {r}
        PROVE  content'[q] = content[q] /\ editing'[q] = editing[q]
    BY <1>1
  <2>3. /\ content'[r] \in Nat
        /\ content[r] <= content'[r]
        /\ content'[r] + editing'[r] <= content[r] + editing[r]
    BY <1>1, <2>1
  <2> QED
    BY <1>1, <2>1, <2>2, <2>3
<1>3. RouteSelected'
  BY <1>1 DEF RoundInv, RouteSelected, Chains
<1>4. OpenEditsCounted'
  BY <1>1, <1>2 DEF RoundInv, OpenEditsCounted
<1>5. \A q \in Reports : status[q] \in {"submitted", "approved_pending_payment"} => ClaimHolds(q)'
  BY <1>1, <1>2, <1>4 DEF OpenEditsCounted, ClaimHolds
<1>6. \A q \in Reports, s \in Stages : Approved(q, s) => Approved(q, s)'
  BY <1>1, <1>2 DEF Approved
<1>7. StagesInOrder'
  <2>1. \A q \in Reports, s \in Stages : OnRoute(q, s)' <=> OnRoute(q, s)
    BY <1>1 DEF OnRoute
  <2> QED
    BY <1>1, <1>5, <1>6, <2>1 DEF RoundInv, StagesInOrder
<1>8. NoTaskOutsideReview'
  BY <1>1 DEF RoundInv, NoTaskOutsideReview, Live
<1>9. PaymentMatchesApproval'
  <2>1. \A q \in Reports, s \in Stages : OnRoute(q, s)' <=> OnRoute(q, s)
    BY <1>1 DEF OnRoute
  <2>2. \A q \in Reports : LastStage(q)' = LastStage(q)
    BY <1>1 DEF LastStage
  <2> QED
    BY <1>1, <1>5, <1>6, <2>1, <2>2 DEF RoundInv, PaymentMatchesApproval, NoPayment
<1> QED
  BY <1>3, <1>4, <1>7, <1>8, <1>9 DEF RoundInv

\* A submission starts a round on the route it selects, and leaves no task of
\* an earlier one.
LEMMA SubmitKeepsRound ==
    ASSUME TypeOK, RoundInv, NEW r \in Reports, SubmitReport(r)
    PROVE  RoundInv'
<1> DEFINE chain == org.chain[r]
<1>1. chain \in Chains(r) /\ DOMAIN chain # {}
  BY ChainOfOrg DEF SubmitReport
<1>2. /\ status[r] \in EDITABLE_STATUSES
      /\ status' = [status EXCEPT ![r] = "submitted"]
      /\ levels' = [levels EXCEPT ![r] = InitWorkflow(r, chain)]
      /\ route' = [route EXCEPT ![r] = chain]
      /\ submission' = [submission EXCEPT
                          ![r] = [content |-> content[r], open |-> editing[r]]]
      /\ content' = content
      /\ editing' = editing
      /\ payment' = payment
  BY DEF SubmitReport
<1> HIDE DEF chain
<1>3. \A s \in Stages : ~Live(levels[r][s])
  BY <1>2 DEF RoundInv, NoTaskOutsideReview, EDITABLE_STATUSES
<1>4. \A s \in Stages : levels'[r][s] = OpenedLevel(chain, s, levels[r][s])
  BY <1>2, <1>3 DEF InitWorkflow, TypeOK
<1>5. \A q \in Reports \ {r} :
        /\ status'[q] = status[q] /\ levels'[q] = levels[q]
        /\ route'[q] = route[q] /\ submission'[q] = submission[q]
  BY <1>2 DEF TypeOK
<1>6. /\ status'[r] = "submitted" /\ route'[r] = chain
      /\ submission'[r].content = content[r] /\ submission'[r].open = editing[r]
  BY <1>2 DEF TypeOK
<1>11. OpenEditsCounted'
  BY <1>2, <1>5, <1>6 DEF RoundInv, OpenEditsCounted, TypeOK
<1>7. RouteSelected'
  BY <1>1, <1>5, <1>6 DEF RoundInv, RouteSelected, Chains
<1>8. StagesInOrder'
  <2>1. \E n \in 0..MaxLevel : DOMAIN chain = 1..n
    BY <1>1, ChainDomain
  <2>2. 1 \in DOMAIN chain /\ \A i \in DOMAIN chain : i >= 1
    BY <1>1, <2>1
  <2>3. ASSUME NEW s \in Stages
        PROVE  IF OnRoute(r, s)'
               THEN /\ ~(s[1] < 1)
                    /\ s[1] = 1 => levels'[r][s].status = "pending"
                    /\ s[1] > 1 => levels'[r][s].status = "waiting"
               ELSE levels'[r][s].status \in {"absent", "cancelled"}
    <3>1. OnRoute(r, s)' <=> s[1] \in DOMAIN chain /\ chain[s[1]] = s[2]
      BY <1>6 DEF OnRoute
    <3>2. IF s[1] \in DOMAIN chain /\ chain[s[1]] = s[2]
          THEN levels'[r][s].status = IF s[1] = 1 THEN "pending" ELSE "waiting"
          ELSE levels'[r][s].status \in {"absent", "cancelled"}
      BY <1>1, <1>4, OpenedRow
    <3>3. s[1] \in Nat /\ (s[1] \in DOMAIN chain => s[1] >= 1)
      BY <2>2 DEF Stages
    <3> QED
      BY <3>1, <3>2, <3>3
  <2>5. ClaimHolds(r)'
    BY <1>2, <1>6 DEF ClaimHolds, TypeOK
  <2>4. ASSUME NEW q \in Reports \ {r}, status'[q] = "submitted"
        PROVE  /\ ClaimHolds(q)'
               /\ \E n \in DOMAIN route'[q] : \A s \in Stages :
                  IF OnRoute(q, s)'
                  THEN /\ s[1] < n => Approved(q, s)'
                       /\ s[1] = n => levels'[q][s].status = "pending"
                       /\ s[1] > n => levels'[q][s].status = "waiting"
                  ELSE levels'[q][s].status \in {"absent", "cancelled"}
    BY <1>2, <1>5, <2>4 DEF RoundInv, StagesInOrder, OnRoute, Approved, ClaimHolds
  <2> QED
    BY <1>6, <2>2, <2>3, <2>4, <2>5 DEF StagesInOrder
<1>9. NoTaskOutsideReview'
  BY <1>5, <1>6 DEF RoundInv, NoTaskOutsideReview, Live
<1>10. PaymentMatchesApproval'
  <2>1. \A q \in Reports \ {r} : PaidAsApproved(q) => PaidAsApproved(q)'
    BY <1>2, <1>5, PaidStays DEF RoundInv
  <2> QED
    BY <1>2, <1>5, <1>6, <2>1 DEF RoundInv, PaymentMatchesApproval, PaidAsApproved,
                                  NoPayment, EDITABLE_STATUSES
<1> QED
  BY <1>7, <1>8, <1>9, <1>10, <1>11 DEF RoundInv

\* A round that ends without approval, because the owner withdraws the report
\* or the approver turns it down, leaves no open task and no payment.
LEMMA EndOfRound ==
    ASSUME TypeOK, RoundInv, NEW r \in Reports,
           status[r] = "submitted",
           status'[r] \notin {"submitted", "approved_pending_payment"},
           UNCHANGED <<content, editing, route, submission, payment>>,
           \A q \in Reports \ {r} : status'[q] = status[q] /\ levels'[q] = levels[q],
           \A s \in Stages : ~Live(levels'[r][s])
    PROVE  RoundInv'
<1>1. RouteSelected'
  BY DEF RoundInv, RouteSelected, Chains
<1>2. StagesInOrder'
  BY DEF RoundInv, StagesInOrder, OnRoute, Approved, ClaimHolds
<1>3. NoTaskOutsideReview'
  BY DEF RoundInv, NoTaskOutsideReview, Live
<1>4. PaymentMatchesApproval'
  <2>1. \A q \in Reports \ {r} : PaidAsApproved(q) => PaidAsApproved(q)'
    BY PaidStays DEF RoundInv
  <2> QED
    BY <2>1 DEF RoundInv, PaymentMatchesApproval, PaidAsApproved, NoPayment
<1>5. OpenEditsCounted'
  BY DEF RoundInv, OpenEditsCounted
<1> QED
  BY <1>1, <1>2, <1>3, <1>4, <1>5 DEF RoundInv

LEMMA WithdrawKeepsRound ==
    ASSUME TypeOK, RoundInv, NEW r \in Reports, WithdrawReport(r)
    PROVE  RoundInv'
<1>1. \A s \in Stages : levels'[r][s] = CancelLive(levels[r][s]) /\ levels[r][s] \in Level
  BY DEF WithdrawReport, TypeOK
<1>2. \A s \in Stages : ~Live(levels'[r][s])
  BY <1>1, CancelledRow DEF Live
<1>3. /\ status[r] = "submitted"
      /\ status'[r] = "draft"
      /\ UNCHANGED <<content, editing, route, submission, payment>>
      /\ \A q \in Reports \ {r} : status'[q] = status[q] /\ levels'[q] = levels[q]
  BY DEF WithdrawReport, TypeOK
<1> QED
  BY <1>2, <1>3, EndOfRound

LEMMA TurnDownKeepsRound ==
    ASSUME TypeOK, RoundInv, NEW r \in Reports, NEW s \in Stages, NEW u \in Users,
           NEW action \in {"reject", "send_back"}, TurnDown(r, s, u, action)
    PROVE  RoundInv'
<1>1. \A t \in Stages : /\ levels'[r][t] = IF t = s THEN Decided(r, s, action)
                                           ELSE CancelLive(levels[r][t])
                        /\ levels[r][t] \in Level
  BY DEF TurnDown, TypeOK
<1>2. \A t \in Stages : ~Live(levels'[r][t])
  BY <1>1, CancelledRow, DecidedRow DEF Live
<1>3. /\ status[r] = "submitted"
      /\ status'[r] \in {"rejected", "sent_back"}
      /\ UNCHANGED <<content, editing, route, submission, payment>>
      /\ \A q \in Reports \ {r} : status'[q] = status[q] /\ levels'[q] = levels[q]
  BY DEF TurnDown, Actionable, TypeOK
<1> QED
  BY <1>2, <1>3, EndOfRound

\* The position of the one pending task of a submitted report.
LEMMA PendingPosition ==
    ASSUME TypeOK, RoundInv, NEW r \in Reports, status[r] = "submitted",
           NEW s \in Stages, levels[r][s].status = "pending"
    PROVE  /\ OnRoute(r, s)
           /\ \A t \in Stages :
                 IF OnRoute(r, t)
                 THEN /\ t[1] < s[1] => Approved(r, t)
                      /\ t[1] = s[1] => t = s
                      /\ t[1] > s[1] => levels[r][t].status = "waiting"
                 ELSE levels[r][t].status \in {"absent", "cancelled"}
<1>1. PICK n \in DOMAIN route[r] : \A t \in Stages :
            IF OnRoute(r, t)
            THEN /\ t[1] < n => Approved(r, t)
                 /\ t[1] = n => levels[r][t].status = "pending"
                 /\ t[1] > n => levels[r][t].status = "waiting"
            ELSE levels[r][t].status \in {"absent", "cancelled"}
  BY DEF RoundInv, StagesInOrder
<1>2. OnRoute(r, s)
  BY <1>1
<1>3. route[r] \in Chains(r)
  BY DEF RoundInv, RouteSelected
<1>4. n \in Nat /\ \A t \in Stages : t[1] \in Nat
  BY <1>3, ChainDomain DEF Stages
<1>5. s[1] = n
  BY <1>1, <1>2, <1>4 DEF Approved
<1>6. \A t \in Stages : OnRoute(r, t) /\ t[1] = s[1] => t = s
  BY <1>2 DEF OnRoute, Stages
<1> QED
  BY <1>1, <1>2, <1>5, <1>6

\* A decision made now is a decision on the claim under review.
LEMMA NowIsReviewed ==
    ASSUME TypeOK, RoundInv, NEW r \in Reports, status[r] = "submitted"
    PROVE  content[r] \in submission[r].content .. content[r]
<1>1. submission[r].content <= content[r]
  BY DEF RoundInv, OpenEditsCounted
<1> QED
  BY <1>1 DEF TypeOK, Submission

\* An approval passes the report on to the next stage of its route.
LEMMA ApproveLevelKeepsRound ==
    ASSUME TypeOK, RoundInv, NEW r \in Reports, NEW s \in Stages, NEW u \in Users,
           ApproveLevel(r, s, u)
    PROVE  RoundInv'
<1>1. PICK t \in NextLevels(r) :
        levels' = [levels EXCEPT ![r] = [@ EXCEPT ![s] = Decided(r, s, "approved"),
                                                  ![t] = Activated(t, levels[r][t])]]
  BY DEF ApproveLevel
<1>2. /\ status[r] = "submitted"
      /\ levels[r][s].status = "pending"
      /\ UNCHANGED <<status, content, editing, route, submission, payment>>
  BY DEF ApproveLevel, Actionable
<1>3. /\ t \in Stages
      /\ levels[r][t].status = "waiting"
      /\ \A q \in Stages : levels[r][q].status = "waiting" => t[1] <= q[1]
  BY DEF NextLevels
<1>4. /\ OnRoute(r, s)
      /\ \A q \in Stages :
            IF OnRoute(r, q)
            THEN /\ q[1] < s[1] => Approved(r, q)
                 /\ q[1] = s[1] => q = s
                 /\ q[1] > s[1] => levels[r][q].status = "waiting"
            ELSE levels[r][q].status \in {"absent", "cancelled"}
  BY <1>2, PendingPosition
<1>5. \A q \in Stages : q[1] \in Nat
  BY DEF Stages
<1>6. OnRoute(r, t) /\ t # s /\ t[1] > s[1]
  BY <1>2, <1>3, <1>4, <1>5 DEF Approved
<1>7. \A q \in Stages : OnRoute(r, q) /\ q[1] = t[1] => q = t
  BY <1>3, <1>6 DEF OnRoute, Stages
<1>8. \A q \in Stages : levels'[r][q] = IF q = t THEN Activated(t, levels[r][t])
                                       ELSE IF q = s THEN Decided(r, s, "approved")
                                       ELSE levels[r][q]
  BY <1>1, <1>3, <1>6 DEF TypeOK
<1>9. \A p \in Reports \ {r} : levels'[p] = levels[p]
  BY <1>1 DEF TypeOK
<1>10. /\ Decided(r, s, "approved").status = "approved"
       /\ Decided(r, s, "approved").decision \in submission[r].content .. content[r]
  BY <1>2, DecidedRow, NowIsReviewed
<1>11. Activated(t, levels[r][t]).status = "pending"
  BY <1>3, ActivatedRow
<1>12. \A q \in Stages :
          IF OnRoute(r, q)
          THEN /\ q[1] < t[1] =>
                    /\ levels'[r][q].status = "approved"
                    /\ levels'[r][q].decision \in submission[r].content .. content[r]
               /\ q[1] = t[1] => levels'[r][q].status = "pending"
               /\ q[1] > t[1] => levels'[r][q].status = "waiting"
          ELSE levels'[r][q].status \in {"absent", "cancelled"}
  <2> TAKE q \in Stages
  <2>1. CASE ~OnRoute(r, q)
    BY <1>4, <1>6, <1>8, <2>1
  <2>2. CASE OnRoute(r, q) /\ q[1] < t[1]
    <3>1. levels[r][q].status # "waiting" /\ ~(q[1] > s[1])
      BY <1>3, <1>4, <1>5, <2>2
    <3>2. q = s \/ Approved(r, q)
      BY <1>4, <1>5, <2>2, <3>1
    <3>3. q # t /\ ~(q[1] = t[1]) /\ ~(q[1] > t[1])
      BY <1>5, <1>3, <2>2
    <3> QED
      BY <1>8, <1>10, <2>2, <3>2, <3>3 DEF Approved
  <2>3. CASE OnRoute(r, q) /\ q[1] = t[1]
    <3>1. q = t /\ ~(q[1] < t[1]) /\ ~(q[1] > t[1])
      BY <1>3, <1>5, <1>7, <2>3
    <3> QED
      BY <1>8, <1>11, <2>3, <3>1
  <2>4. CASE OnRoute(r, q) /\ q[1] > t[1]
    <3>1. q # t /\ q # s /\ q[1] > s[1] /\ ~(q[1] < t[1]) /\ ~(q[1] = t[1])
      BY <1>3, <1>5, <1>6, <2>4
    <3> QED
      BY <1>4, <1>8, <2>4, <3>1
  <2> QED
    BY <1>3, <1>5, <2>1, <2>2, <2>3, <2>4
<1>13. StagesInOrder'
  <2>1. t[1] \in DOMAIN route[r]
    BY <1>6 DEF OnRoute
  <2>2. ASSUME NEW p \in Reports \ {r}, status[p] = "submitted"
        PROVE  /\ ClaimHolds(p)'
               /\ \E n \in DOMAIN route[p] : \A q \in Stages :
                  IF OnRoute(p, q)
                  THEN /\ q[1] < n => Approved(p, q)'
                       /\ q[1] = n => levels'[p][q].status = "pending"
                       /\ q[1] > n => levels'[p][q].status = "waiting"
                  ELSE levels'[p][q].status \in {"absent", "cancelled"}
    BY <1>2, <1>9, <2>2 DEF RoundInv, StagesInOrder, Approved, ClaimHolds
  <2>3. \A p \in Reports, q \in Stages : OnRoute(p, q)' <=> OnRoute(p, q)
    BY <1>2 DEF OnRoute
  <2>4. \A q \in Stages :
           Approved(r, q)' <=>
              /\ levels'[r][q].status = "approved"
              /\ levels'[r][q].decision \in submission[r].content .. content[r]
    BY <1>2 DEF Approved
  <2>5. ClaimHolds(r)'
    BY <1>2 DEF RoundInv, StagesInOrder, ClaimHolds
  <2> QED
    BY <1>2, <1>12, <2>1, <2>2, <2>3, <2>4, <2>5 DEF StagesInOrder
<1>14. RouteSelected'
  BY <1>2 DEF RoundInv, RouteSelected, Chains
<1>15. NoTaskOutsideReview'
  BY <1>2, <1>9 DEF RoundInv, NoTaskOutsideReview, Live
<1>16. PaymentMatchesApproval'
  BY <1>2, <1>9 DEF RoundInv, PaymentMatchesApproval, OnRoute, Approved, ClaimHolds, LastStage
<1>17. OpenEditsCounted'
  BY <1>2 DEF RoundInv, OpenEditsCounted
<1> QED
  BY <1>13, <1>14, <1>15, <1>16, <1>17 DEF RoundInv

\* While a task of the route waits, the one after the pending task is next.
LEMMA WaitingHasNext ==
    ASSUME TypeOK, RoundInv, NEW r \in Reports, status[r] = "submitted",
           NEW s \in Stages, levels[r][s].status = "pending", NextLevels(r) = {}
    PROVE  \A q \in Stages : levels[r][q].status # "waiting"
<1> SUFFICES ASSUME NEW q \in Stages, levels[r][q].status = "waiting"
             PROVE  FALSE
  OBVIOUS
<1>1. /\ OnRoute(r, s)
      /\ \A t \in Stages :
            IF OnRoute(r, t)
            THEN /\ t[1] < s[1] => Approved(r, t)
                 /\ t[1] = s[1] => t = s
                 /\ t[1] > s[1] => levels[r][t].status = "waiting"
            ELSE levels[r][t].status \in {"absent", "cancelled"}
  BY PendingPosition
<1>2. \A t \in Stages : t[1] \in 1..MaxLevel /\ t[1] \in Nat
  BY DEF Stages
<1>3. \A t \in Stages : levels[r][t].status = "waiting" => OnRoute(r, t) /\ s[1] + 1 <= t[1]
  BY <1>1, <1>2 DEF Approved
<1>4. route[r] \in Chains(r)
  BY DEF RoundInv, RouteSelected
<1>5. PICK n \in 0..MaxLevel : DOMAIN route[r] = 1..n
  BY <1>4, ChainDomain
<1>6. s[1] + 1 \in DOMAIN route[r]
  BY <1>2, <1>3, <1>5 DEF OnRoute
<1> DEFINE t == <<s[1] + 1, route[r][s[1] + 1]>>
<1>7. t \in Stages
  BY <1>4, <1>5, <1>6, ChainDomain DEF Stages
<1>8. OnRoute(r, t) /\ t[1] > s[1]
  BY <1>2, <1>6 DEF OnRoute
<1>9. t \in NextLevels(r)
  BY <1>1, <1>3, <1>7, <1>8 DEF NextLevels
<1> QED
  BY <1>9

\* With no task waiting, the pending one is that of the last approver.
LEMMA PendingIsLast ==
    ASSUME TypeOK, RoundInv, NEW r \in Reports, status[r] = "submitted",
           NEW s \in Stages, levels[r][s].status = "pending", NextLevels(r) = {}
    PROVE  s = LastStage(r)
<1>1. /\ OnRoute(r, s)
      /\ \A t \in Stages : OnRoute(r, t) /\ t[1] > s[1] => levels[r][t].status = "waiting"
  BY PendingPosition
<1>2. \A t \in Stages : levels[r][t].status # "waiting"
  BY WaitingHasNext
<1>3. route[r] \in Chains(r)
  BY DEF RoundInv, RouteSelected
<1>4. PICK n \in 0..MaxLevel : route[r] \in [1..n -> Users \ {Owner[r]}]
  BY <1>3 DEF Chains
<1>5. s[1] \in 1..n /\ Len(route[r]) = n /\ DOMAIN route[r] = 1..n
  BY <1>1, <1>4 DEF OnRoute
<1> DEFINE t == <<n, route[r][n]>>
<1>6. n \in 1..n /\ n \in 1..MaxLevel
  BY <1>5
<1>7. t \in Stages /\ OnRoute(r, t)
  BY <1>4, <1>5, <1>6 DEF Stages, OnRoute
<1>8. ~(n > s[1])
  BY <1>1, <1>2, <1>7
<1>9. s[1] = n
  BY <1>5, <1>8
<1> QED
  BY <1>1, <1>5, <1>9 DEF LastStage, OnRoute, Stages

\* The last approval completes the round, and pays what was approved.
LEMMA ApproveReportKeepsRound ==
    ASSUME TypeOK, RoundInv, NEW r \in Reports, NEW s \in Stages, NEW u \in Users,
           ApproveReport(r, s, u)
    PROVE  RoundInv'
<1>1. /\ status[r] = "submitted"
      /\ levels[r][s].status = "pending"
      /\ NextLevels(r) = {}
      /\ levels' = [levels EXCEPT ![r] = [@ EXCEPT ![s] = Decided(r, s, "approved")]]
      /\ status' = [status EXCEPT ![r] = "approved_pending_payment"]
      /\ payment' = EnsurePendingPayment(r)
      /\ UNCHANGED <<content, editing, route, submission>>
  BY DEF ApproveReport, Actionable
<1>2. /\ OnRoute(r, s)
      /\ \A q \in Stages :
            IF OnRoute(r, q)
            THEN /\ q[1] < s[1] => Approved(r, q)
                 /\ q[1] = s[1] => q = s
                 /\ q[1] > s[1] => levels[r][q].status = "waiting"
            ELSE levels[r][q].status \in {"absent", "cancelled"}
  BY <1>1, PendingPosition
<1>3. \A q \in Stages : q[1] \in Nat
  BY DEF Stages
<1>4. \A q \in Stages : levels[r][q].status # "waiting"
  BY <1>1, WaitingHasNext
<1>5. \A q \in Stages : levels'[r][q] = IF q = s THEN Decided(r, s, "approved") ELSE levels[r][q]
  BY <1>1 DEF TypeOK
<1>6. \A p \in Reports \ {r} :
        levels'[p] = levels[p] /\ status'[p] = status[p] /\ payment'[p] = payment[p]
  BY <1>1 DEF TypeOK, EnsurePendingPayment
<1>7. /\ Decided(r, s, "approved").status = "approved"
      /\ Decided(r, s, "approved").decision = content[r]
      /\ content[r] \in submission[r].content .. content[r]
  BY <1>1, DecidedRow, NowIsReviewed
<1>8. payment[r] = NoPayment
  BY <1>1 DEF RoundInv, PaymentMatchesApproval
<1>9. status'[r] = "approved_pending_payment" /\ payment'[r] = content[r]
  BY <1>1, <1>8 DEF TypeOK, EnsurePendingPayment
<1>10. \A q \in Stages : IF OnRoute(r, q)
                         THEN /\ levels'[r][q].status = "approved"
                              /\ levels'[r][q].decision \in submission[r].content .. content[r]
                         ELSE levels'[r][q].status \in {"absent", "cancelled"}
  <2> TAKE q \in Stages
  <2>1. OnRoute(r, q) => q = s \/ Approved(r, q)
    BY <1>2, <1>3, <1>4
  <2> QED
    BY <1>2, <1>5, <1>7, <2>1 DEF Approved
<1>11. RouteSelected'
  BY <1>1 DEF RoundInv, RouteSelected, Chains
<1>12. StagesInOrder'
  BY <1>1, <1>6, <1>9 DEF RoundInv, StagesInOrder, OnRoute, Approved, ClaimHolds
<1>13. NoTaskOutsideReview'
  BY <1>6, <1>9, <1>10 DEF RoundInv, NoTaskOutsideReview, Live
<1>14. PaymentMatchesApproval'
  <2>1. DOMAIN route[r] # {}
    BY <1>2 DEF OnRoute
  <2>2. \A q \in Stages : OnRoute(r, q)' => Approved(r, q)'
    BY <1>1, <1>10 DEF OnRoute, Approved
  <2>3. ASSUME NEW p \in Reports \ {r}
        PROVE  IF status'[p] = "approved_pending_payment"
               THEN PaidAsApproved(p)'
               ELSE payment'[p] = NoPayment
    <3>1. PaidAsApproved(p) => PaidAsApproved(p)'
      BY <1>1, <1>6, PaidStays DEF RoundInv
    <3> QED
      BY <1>6, <3>1 DEF RoundInv, PaymentMatchesApproval, PaidAsApproved, NoPayment
  <2>4. ClaimHolds(r)'
    BY <1>1 DEF RoundInv, StagesInOrder, ClaimHolds
  <2>5. LastStage(r)' = s
    BY <1>1, PendingIsLast DEF LastStage
  <2>6. payment'[r] = levels'[r][LastStage(r)'].decision
    BY <1>5, <1>7, <1>9, <2>5
  <2> QED
    BY <1>1, <1>9, <2>1, <2>2, <2>3, <2>4, <2>6 DEF PaymentMatchesApproval, PaidAsApproved,
                                                    NoPayment
<1>15. OpenEditsCounted'
  BY <1>1, <1>6 DEF RoundInv, OpenEditsCounted
<1> QED
  BY <1>11, <1>12, <1>13, <1>14, <1>15 DEF RoundInv

LEMMA RoundInductive == Spec => []RoundInv
<1>1. Init => RoundInv
  <2> SUFFICES ASSUME Init PROVE RoundInv
    OBVIOUS
  <2>1. \A r \in Reports : <<>> \in Chains(r)
    <3> TAKE r \in Reports
    <3>1. <<>> \in [1..0 -> Users \ {Owner[r]}]
      OBVIOUS
    <3> QED
      BY <3>1 DEF Chains
  <2>2. /\ RouteSelected /\ OpenEditsCounted
        /\ StagesInOrder /\ NoTaskOutsideReview /\ PaymentMatchesApproval
    BY <2>1 DEF Init, RouteSelected, OpenEditsCounted, StagesInOrder, NoTaskOutsideReview,
                PaymentMatchesApproval, AbsentLevel, Live
  <2> QED
    BY <2>2 DEF RoundInv
<1>2. TypeOK /\ RoundInv /\ [Next]_vars => RoundInv'
  <2> SUFFICES ASSUME TypeOK, RoundInv, [Next]_vars PROVE RoundInv'
    OBVIOUS
  <2>1. CASE \/ DelegationNext
             \/ ProcessOverdueApprovals
             \/ \E o \in OrgCharts : ChangeOrg(o)
             \/ \E r \in Reports, s \in Stages : DeadlinePasses(r, s)
             \/ \E r \in Reports, s \in Stages, u \in Users : ActRefused(r, s, u)
             \/ UNCHANGED vars
    BY <2>1, QuietSteps, QuietKeepsRound
  <2>2. ASSUME NEW r \in Reports,
               \/ CreateDraft(r) \/ EditReport(r) \/ SubmitReport(r) \/ WithdrawReport(r)
               \/ OpenItemEdit(r) \/ CommitItemEdit(r) \/ RollbackItemEdit(r)
        PROVE  RoundInv'
    BY <2>2, EditsKeepRound, ItemEditsKeepRound, SubmitKeepsRound, WithdrawKeepsRound
  <2>3. ASSUME NEW r \in Reports, NEW s \in Stages, NEW u \in Users,
               \/ ApproveLevel(r, s, u)
               \/ ApproveReport(r, s, u)
               \/ \E action \in {"reject", "send_back"} : TurnDown(r, s, u, action)
        PROVE  RoundInv'
    BY <2>3, ApproveLevelKeepsRound, ApproveReportKeepsRound, TurnDownKeepsRound
  <2> QED
    BY <2>1, <2>2, <2>3 DEF Next, ReportNext, DecisionNext
<1> QED
  BY <1>1, <1>2, TypeCorrect, PTL DEF Spec

\* Approvals come in the order of the route, at any moment one task is open, and
\* what the approvers see of one round differs at most by the item edits that
\* were open when the report was submitted.
THEOREM OrderedReview == Spec => []StagesInOrder
<1>1. RoundInv => StagesInOrder
  BY DEF RoundInv
<1> QED
  BY <1>1, RoundInductive, PTL

\* While the owner may edit a report, nobody can decide on it.
THEOREM NoOpenTasks == Spec => []NoTaskOutsideReview
<1>1. RoundInv => NoTaskOutsideReview
  BY DEF RoundInv
<1> QED
  BY <1>1, RoundInductive, PTL

\* What is paid is what the last approver decided on, and every other one of the
\* route has approved in the same round: the same content, but for item edits
\* that were open when the report was submitted.
THEOREM ApprovalComplete == Spec => []PaymentMatchesApproval
<1>1. RoundInv => PaymentMatchesApproval
  BY DEF RoundInv
<1> QED
  BY <1>1, RoundInductive, PTL

-----------------------------------------------------------------------------
(***************************************************************************)
(* Who decides.                                                            *)
(***************************************************************************)

\* A decision by the owner is recorded as made for somebody else, because no
\* open task was ever meant for the owner.
THEOREM OwnerActsForOthers == Spec => []OwnerNeverDecidesForHimself
<1>1. Init => OwnerNeverDecidesForHimself
  BY DEF Init, OwnerNeverDecidesForHimself
<1>2. TypeOK /\ RoundInv /\ OwnerNeverDecidesForHimself /\ [Next]_vars
        => OwnerNeverDecidesForHimself'
  <2> SUFFICES ASSUME TypeOK, RoundInv, OwnerNeverDecidesForHimself, [Next]_vars
               PROVE  OwnerNeverDecidesForHimself'
    OBVIOUS
  <2>1. ASSUME NEW r \in Reports, NEW s \in Stages, NEW u \in Users, NEW action,
               Actionable(r, s, u), RecordDecision(r, s, u, action)
        PROVE  OwnerNeverDecidesForHimself'
    <3>1. OnRoute(r, s)
      BY <2>1, PendingPosition DEF Actionable
    <3>2. s[2] \in Users /\ s[2] # Owner[r]
      BY <3>1, ChainDomain DEF RoundInv, RouteSelected, OnRoute
    <3>3. /\ \A q \in Reports \ {r} : entry'[q] = entry[q]
          /\ entry'[r].by = u
          /\ entry'[r].actingFor = IF s[2] # u THEN s[2] ELSE NoUser
      BY <2>1 DEF RecordDecision, TypeOK
    <3> QED
      BY <3>2, <3>3 DEF OwnerNeverDecidesForHimself
  <2>2. ASSUME entry' = entry
        PROVE  OwnerNeverDecidesForHimself'
    BY <2>2 DEF OwnerNeverDecidesForHimself
  <2>3. CASE DelegationNext
    BY <2>2, <2>3 DEF DelegationNext, ViewQueue, DeactivateDelegation, WindowEnds,
                      CreateDelegation, WindowOpens
  <2>4. CASE \/ ProcessOverdueApprovals
             \/ \E o \in OrgCharts : ChangeOrg(o)
             \/ UNCHANGED vars
    BY <2>2, <2>4 DEF ProcessOverdueApprovals, ChangeOrg, vars
  <2>5. ASSUME NEW r \in Reports, ReportNext(r)
        PROVE  OwnerNeverDecidesForHimself'
    <3>1. entry' = entry
      BY <2>5 DEF ReportNext, CreateDraft, EditReport, OpenItemEdit, CommitItemEdit,
                  RollbackItemEdit, SubmitReport, WithdrawReport, DeadlinePasses
    <3> QED
      BY <2>2, <3>1
  <2>6. ASSUME NEW r \in Reports, DecisionNext(r)
        PROVE  OwnerNeverDecidesForHimself'
    <3>1. PICK s \in Stages, u \in Users :
            \/ ActRefused(r, s, u)
            \/ ApproveLevel(r, s, u)
            \/ ApproveReport(r, s, u)
            \/ \E action \in {"reject", "send_back"} : TurnDown(r, s, u, action)
      BY <2>6 DEF DecisionNext
    <3>2. CASE ActRefused(r, s, u)
      BY <2>2, <3>2 DEF ActRefused
    <3>3. CASE ApproveLevel(r, s, u) \/ ApproveReport(r, s, u)
      BY <2>1, <3>3 DEF ApproveLevel, ApproveReport
    <3>4. ASSUME NEW action \in {"reject", "send_back"}, TurnDown(r, s, u, action)
          PROVE  OwnerNeverDecidesForHimself'
      BY <2>1, <3>4 DEF TurnDown
    <3> QED
      BY <3>1, <3>2, <3>3, <3>4
  <2> QED
    BY <2>3, <2>4, <2>5, <2>6 DEF Next
<1> QED
  BY <1>1, <1>2, TypeCorrect, RoundInductive, PTL DEF Spec

-----------------------------------------------------------------------------
(***************************************************************************)
(* Whose task it is.                                                       *)
(***************************************************************************)

\* Neither a reconciliation nor the sweep touches an escalated row.
LEMMA EscalatedRowStays ==
    ASSUME NEW r \in Reports, NEW s \in Stages, levels[r][s].sla = "escalated", NEW d, NEW U
    PROVE  /\ Synchronized(d, s, levels[r][s]) = levels[r][s]
           /\ SynchronizedFor(d, U, r)[s] = levels[r][s]
           /\ Swept(r)[s] = levels[r][s]
<1>1. Synchronized(d, s, levels[r][s]) = levels[r][s]
  BY DEF Synchronized, Follows
<1>2. SynchronizedFor(d, U, r)[s] = levels[r][s]
  BY <1>1 DEF SynchronizedFor
<1>3. SynchronizedFor(delegate, Users, r)[s] = levels[r][s]
  BY DEF SynchronizedFor, Synchronized, Follows
<1>4. ~Overdue(levels[r][s])
  BY DEF Overdue
<1> QED
  BY <1>1, <1>2, <1>3, <1>4 DEF Swept

\* A submission opens no task while one is open, and closes or opens rows
\* without a decision.
LEMMA SubmittedRow ==
    ASSUME TypeOK, NEW r \in Reports, SubmitReport(r), NEW q \in Reports, NEW s \in Stages
    PROVE  /\ levels[q][s].status = "pending" => levels'[q][s] = levels[q][s]
           /\ levels'[q][s].decision \in {levels[q][s].decision, NoDecision}
<1>1. levels' = [levels EXCEPT ![r] = InitWorkflow(r, org.chain[r])]
  BY DEF SubmitReport
<1>2. CASE \E t \in Stages : Live(levels[r][t])
  BY <1>1, <1>2 DEF InitWorkflow, TypeOK
<1>3. CASE ~ \E t \in Stages : Live(levels[r][t])
  <2>1. InitWorkflow(r, org.chain[r])
          = [t \in Stages |-> OpenedLevel(org.chain[r], t, levels[r][t])]
    BY <1>3 DEF InitWorkflow
  <2>2. levels[r][s].status # "pending" /\ levels[r][s] \in Level
    BY <1>3 DEF Live, TypeOK
  <2>3. OpenedLevel(org.chain[r], s, levels[r][s]).decision
          \in {levels[r][s].decision, NoDecision}
    BY <2>2 DEF OpenedLevel, Level
  <2> QED
    BY <1>1, <2>1, <2>2, <2>3 DEF TypeOK
<1> QED
  BY <1>2, <1>3

LEMMA WithdrawnRow ==
    ASSUME TypeOK, NEW r \in Reports, WithdrawReport(r), NEW q \in Reports, NEW s \in Stages
    PROVE  /\ levels'[q][s].status = "pending" => levels'[q][s] = levels[q][s]
           /\ levels'[q][s].decision = levels[q][s].decision
<1>1. levels[q][s] \in Level
  BY DEF TypeOK
<1>2. levels'[q][s] = IF q = r THEN CancelLive(levels[q][s]) ELSE levels[q][s]
  BY DEF WithdrawReport, TypeOK
<1>3. /\ CancelLive(levels[q][s]).status # "pending"
      /\ CancelLive(levels[q][s]).decision = levels[q][s].decision
  BY <1>1, CancelledRow DEF Live
<1> QED
  BY <1>2, <1>3

\* What the three decisions do to the rows of a report.
Deciding(r, s, u) ==
    \/ ApproveLevel(r, s, u)
    \/ ApproveReport(r, s, u)
    \/ \E action \in {"reject", "send_back"} : TurnDown(r, s, u, action)

LEMMA DecidingRows ==
    ASSUME TypeOK, NEW r \in Reports, NEW s \in Stages, NEW u \in Users, Deciding(r, s, u),
           NEW q \in Reports, NEW t \in Stages
    PROVE  /\ <<q, t>> # <<r, s>> => levels'[q][t].decision = levels[q][t].decision
           /\ levels[q][t].status = "pending" /\ levels'[q][t].status = "pending"
                => levels'[q][t] = levels[q][t]
           /\ Actionable(r, s, u)
           /\ entry'[r].by = u
<1>1. Actionable(r, s, u)
  BY DEF Deciding, ApproveLevel, ApproveReport, TurnDown
<1>2. \E action : RecordDecision(r, s, u, action)
  BY DEF Deciding, ApproveLevel, ApproveReport, TurnDown
<1>3. entry'[r].by = u
  BY <1>2 DEF RecordDecision, TypeOK
<1>4. levels[r] \in [Stages -> Level] /\ levels[q] \in [Stages -> Level]
  BY DEF TypeOK
<1>5. CASE ApproveLevel(r, s, u)
  <2>1. PICK n \in NextLevels(r) :
          levels' = [levels EXCEPT ![r] = [@ EXCEPT ![s] = Decided(r, s, "approved"),
                                                    ![n] = Activated(n, levels[r][n])]]
    BY <1>5 DEF ApproveLevel
  <2>2. n \in Stages /\ levels[r][n].status = "waiting"
    BY <2>1 DEF NextLevels
  <2>3. n # s
    BY <1>1, <2>2 DEF Actionable
  <2>4. /\ levels'[r][s] = Decided(r, s, "approved")
        /\ levels'[r][n] = Activated(n, levels[r][n])
        /\ \A m \in Stages : m # s /\ m # n => levels'[r][m] = levels[r][m]
        /\ q # r => levels'[q] = levels[q]
    BY <1>4, <2>1, <2>2, <2>3 DEF TypeOK
  <2>5. /\ levels'[r][s].status = "approved"
        /\ levels'[r][n].decision = levels[r][n].decision
    BY <2>2, <2>4, DecidedRow, ActivatedRow
  <2> QED
    BY <1>1, <1>3, <2>2, <2>4, <2>5
<1>6. CASE ApproveReport(r, s, u)
  <2>1. /\ levels'[r][s] = Decided(r, s, "approved")
        /\ \A m \in Stages : m # s => levels'[r][m] = levels[r][m]
        /\ q # r => levels'[q] = levels[q]
    BY <1>4, <1>6 DEF ApproveReport, TypeOK
  <2>2. levels'[r][s].status = "approved"
    BY <2>1, DecidedRow
  <2> QED
    BY <1>1, <1>3, <2>1, <2>2
<1>7. ASSUME NEW action \in {"reject", "send_back"}, TurnDown(r, s, u, action)
      PROVE  /\ <<q, t>> # <<r, s>> => levels'[q][t].decision = levels[q][t].decision
             /\ levels[q][t].status = "pending" /\ levels'[q][t].status = "pending"
                  => levels'[q][t] = levels[q][t]
  <2>1. /\ levels'[r][s] = Decided(r, s, action)
        /\ \A m \in Stages : m # s => levels'[r][m] = CancelLive(levels[r][m])
        /\ q # r => levels'[q] = levels[q]
    BY <1>4, <1>7 DEF TurnDown, TypeOK
  <2>2. levels'[r][s].status # "pending"
    BY <2>1, DecidedRow
  <2>3. \A m \in Stages : m # s => /\ levels'[r][m].decision = levels[r][m].decision
                                   /\ levels'[r][m].status # "pending"
    BY <1>4, <2>1, CancelledRow DEF Live
  <2> QED
    BY <2>1, <2>2, <2>3
<1> QED
  BY <1>1, <1>3, <1>5, <1>6, <1>7 DEF Deciding

\* An escalated task is never pulled back by a delegation.
THEOREM EscalationsStay == Spec => EscalationSticks
<1> DEFINE Sticks == \A r \in Reports, s \in Stages :
                        /\ levels[r][s].status = "pending"
                        /\ levels[r][s].sla = "escalated"
                        /\ levels'[r][s].status = "pending"
                        => levels'[r][s].approver = levels[r][s].approver
<1>1. TypeOK /\ [Next]_vars => [Sticks]_vars
  <2> SUFFICES ASSUME TypeOK, Next, NEW q \in Reports, NEW t \in Stages,
                      levels[q][t].status = "pending", levels[q][t].sla = "escalated",
                      levels'[q][t].status = "pending"
               PROVE  levels'[q][t] = levels[q][t]
    OBVIOUS
  <2>1. ASSUME NEW d, NEW U, SynchronizeAll(d, U) PROVE levels'[q][t] = levels[q][t]
    BY <2>1, EscalatedRowStays DEF SynchronizeAll
  <2>2. CASE DelegationNext
    BY <2>1, <2>2 DEF DelegationNext, ViewQueue, DeactivateDelegation, WindowEnds,
                      CreateDelegation, WindowOpens
  <2>3. CASE ProcessOverdueApprovals
    BY <2>3, EscalatedRowStays DEF ProcessOverdueApprovals
  <2>4. CASE \E o \in OrgCharts : ChangeOrg(o)
    BY <2>4 DEF ChangeOrg
  <2>5. ASSUME NEW r \in Reports, ReportNext(r) PROVE levels'[q][t] = levels[q][t]
    <3>1. CASE \/ CreateDraft(r) \/ EditReport(r)
               \/ OpenItemEdit(r) \/ CommitItemEdit(r) \/ RollbackItemEdit(r)
      BY <3>1 DEF CreateDraft, EditReport, OpenItemEdit, CommitItemEdit, RollbackItemEdit
    <3>2. CASE SubmitReport(r) \/ WithdrawReport(r)
      BY <3>2, SubmittedRow, WithdrawnRow
    <3>3. ASSUME NEW s \in Stages, DeadlinePasses(r, s) PROVE levels'[q][t] = levels[q][t]
      BY <3>3 DEF DeadlinePasses, TypeOK
    <3> QED
      BY <2>5, <3>1, <3>2, <3>3 DEF ReportNext
  <2>6. ASSUME NEW r \in Reports, DecisionNext(r) PROVE levels'[q][t] = levels[q][t]
    <3>1. ASSUME NEW s \in Stages, NEW u \in Users, ActRefused(r, s, u)
          PROVE  levels'[q][t] = levels[q][t]
      <4>1. /\ levels'[r][s] = PendingLevel(r, s)
            /\ \A m \in Stages : m # s => levels'[r][m] = levels[r][m]
            /\ \A p \in Reports : p # r => levels'[p] = levels[p]
        BY <3>1 DEF ActRefused, TypeOK
      <4>2. q = r /\ t = s => PendingLevel(r, s) = levels[q][t]
        BY DEF PendingLevel, Synchronized, Follows
      <4> QED
        BY <4>1, <4>2
    <3> QED
      BY <2>6, <3>1, DecidingRows DEF DecisionNext, Deciding
  <2> QED
    BY <2>2, <2>3, <2>4, <2>5, <2>6 DEF Next
<1> QED
  BY <1>1, TypeCorrect, PTL DEF Spec, EscalationSticks

\* Whoever decides is the one the task belongs to when the decision is made.
THEOREM AssigneeDecides == Spec => DecidedByCurrentAssignee
<1> DEFINE ByAssignee == \A r \in Reports, s \in Stages :
             levels[r][s].decision = NoDecision /\ levels'[r][s].decision # NoDecision =>
                 entry'[r].by = IF levels[r][s].sla = "escalated" THEN levels[r][s].approver
                                ELSE Resolve(delegate, s[2])
<1>1. TypeOK /\ [Next]_vars => [ByAssignee]_vars
  <2> SUFFICES ASSUME TypeOK, Next, NEW q \in Reports, NEW t \in Stages,
                      levels[q][t].decision = NoDecision,
                      levels'[q][t].decision # NoDecision
               PROVE  entry'[q].by = IF levels[q][t].sla = "escalated"
                                     THEN levels[q][t].approver ELSE Resolve(delegate, t[2])
    OBVIOUS
  <2>1. ~Quiet
    BY DEF Quiet
  <2>2. ASSUME NEW r \in Reports PROVE ~ReportNext(r)
    <3>1. ~ \/ CreateDraft(r) \/ EditReport(r)
            \/ OpenItemEdit(r) \/ CommitItemEdit(r) \/ RollbackItemEdit(r)
      BY DEF CreateDraft, EditReport, OpenItemEdit, CommitItemEdit, RollbackItemEdit
    <3>2. ~(SubmitReport(r) \/ WithdrawReport(r))
      BY SubmittedRow, WithdrawnRow
    <3> QED
      BY <2>1, <3>1, <3>2, QuietSteps DEF ReportNext
  <2>3. PICK r \in Reports, s \in Stages, u \in Users : Deciding(r, s, u)
    BY <2>1, <2>2, QuietSteps DEF Next, DecisionNext, Deciding
  <2>4. r = q /\ s = t
    BY <2>3, DecidingRows
  <2>5. Actionable(q, t, u) /\ entry'[q].by = u
    BY <2>3, <2>4, DecidingRows
  <2>6. levels[q][t] \in Level /\ Resolve(delegate, t[2]) = Resolve(delegate, t[2])
    BY DEF TypeOK
  <2>7. PendingLevel(q, t).approver = IF levels[q][t].sla = "escalated"
                                      THEN levels[q][t].approver ELSE Resolve(delegate, t[2])
    BY <2>5, <2>6 DEF PendingLevel, Synchronized, Follows, Actionable, Level
  <2> QED
    BY <2>5, <2>7 DEF Actionable
<1> QED
  BY <1>1, TypeCorrect, PTL DEF Spec, DecidedByCurrentAssignee

=============================================================================
