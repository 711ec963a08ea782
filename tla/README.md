# A model of the reimbursement approval tool

TLA+ modules, TLC configurations and machine-checked proofs for the backend of
the Presidio reimbursement approval tool and the services it calls (`src/` of
this repository; paths below are relative to `src/backend/app` unless they start
with another directory). Every module is translated from the source; comments,
docstrings and tests only supply statements to compare the code with.

## 1. The system

A FastAPI backend on PostgreSQL (SQLite in the tests), a React client, a worker
that the platform starts every five minutes, and three auxiliary services for
AI advice. All state is in databases and an object store; what runs concurrently
are requests, background tasks of the API after a response, and runs of the
worker, each with a SQLAlchemy session of its own.

Four facts about these sessions decide most of what can go wrong:

* `core/database.py:27` makes them with `autoflush=False`: a query does not see
  what the same session has changed but not flushed. The tests build
  their own sessions with autoflush on and do not see this.
* Many tables have a version column (`models/base.py:37`). An UPDATE the ORM
  flushes compares it, and a mismatch rolls the transaction back; a bulk
  `update()` neither compares nor raises it, and an object whose columns end up
  unchanged is not written at all.
* Users, roles, departments and access requests have no version, and nothing
  locks them: a check of other rows can be out of date at the commit.
* `session.get` answers from the identity map until a commit expires it.

| part | state | operations | what makes it correct |
|---|---|---|---|
| reports (`report_service`) | report row: status, total, policy | create, edit, submit, withdraw | only editable in draft or sent back; the submitted claim is the one that was checked |
| items (`item_service`) | item rows | add, update, delete, each recomputes the total | the total is the sum; no lost edit |
| approvals (`approval_service`) | task rows per level and approver, history | init, approve, reject, send back, queue, sweep | one actionable task, in order, for the right person; approved means approved by all |
| delegations (`delegation_service`) | delegation windows | create, deactivate, expire | tasks follow the delegation, escalated tasks do not |
| payments (`payment_service`) | payment and batch rows, files | create at approval, batch, export, download, paid, failed | what is paid is what was approved, once |
| routing rules (`workflow_service`) | rules with conditions and chains | save, change, archive, restore; route a report | a report finds distinct people who may approve |
| people (`user_service`, `department_service`, `org_chart_service`) | users with roles, managers, departments | create, update, deactivate, close | an administrator remains; no cycle of managers |
| policies (`policy_service`, `validation_service`) | versions with windows and rules | create, edit, activate; evaluate | one version in force; a claim keeps the rules it was checked with |
| accounts (`oauth_access_service`, `access_request_service`, `supabase_provisioning_service`) | users' subjects, requests, invitations | sign in, ask, approve, reject, invite | an account belongs to one person |
| documents (`storage_service`, receipt and policy services) | attachment rows, bytes, index, digests | upload, delete, index, analyse | rows and bytes agree; the assistant knows the current document |
| notifications, mail (`notification_*_service`) | notification rows with leases | notify, claim, send, mark | at least once, bounded, a sent mail stays sent |
| outbox (`integration_outbox_service`, `ai_review_client`) | event rows with leases, report's job id | enqueue, claim, deliver, commit, fail | at least once, bounded, filed under the right review |
| AI review service (`ai_review_service/`) | review jobs, dispositions | enqueue, claim, complete, retry, recover | a job settles; its result is grounded and final |
| worker (`worker.py`) | none | sweep, mails, outbox in this order | each runs again and again |
| comments, analytics, presentation, audit, authentication, frontend, deployment | | append, read | no protocol of their own |

The submit route runs the report service, the approval service and the outbox's
enqueue in one transaction; the approve routes do the same with a decision, the
payment and a disposition. Handlers leave mail and events as rows, and the
worker (for mail also a background task of the API) delivers them later. Routing
reads people and rules; validation reads policies and catalogues.
`PROJECT.json` lists the hazards of this code line by line, with the properties
that watch them.

## 2. The modules

Two ways of modelling a request occur. Where rows are locked or versions compared, **one
action is one committed transaction** (Payments, ApprovalRouting, and ApprovalWorkflow
except for the edits of items) and a refused one is no step. Where they are not, a
request is taken apart: completely, where the order of its own reads and flushes matters
(ReportItems, EmailDelivery, IntegrationOutbox, AiReviewJobs, Documents); otherwise
there is **one slow request** at a time (OrgAdmin, PolicyVersions, Accounts), which
reads, lets any number of others commit, and then writes the columns it had decided to
change. One slow request shows every overlap of two; overlaps of three requests that
each break the same rule are beyond it, as section 4 repeats.

The edit of an item is such a request in every module that has it. `update_item`
and `delete_item` sum before they flush, find the old total, and so leave the
report row and its version alone: a request that found the report editable may
commit after a submission that overlapped it. ReportItems models why;
ApprovalWorkflow and PolicyVersions open the edit in one action, while the report is
editable, and commit or give it up in another, whatever has happened since.

Where overlapping requests do break a rule, the property says exactly which: a
history variable (`overlaps`, `overlapped`, `superseded`, `slipped`, `late`,
`joined`, `unsure`, `stray`, `unindexed`, `demoted`, `submission`, the `behind` of a
claim) records that the named
case has happened, and the property holds in all others. Operators commented "Fault:" are
plausible mistakes; the definition after each is the code's.

### ApprovalWorkflow

The life of reports from draft to final approval.

| state | code |
|---|---|
| `status`, `content` | the report row; `content` counts changes of the claim |
| `editing` | requests that have found the report editable and have not yet committed the change of an item |
| `levels[r][<<n, u>>]` | the `approval_levels` row of level `n` whose original approver is `u`; `init_workflow` reuses rows by that pair. `approver` is the current assignee, `sla` merges `due_at`, `reminder_sent_at` and `escalated_at`, `decision` is the content that was decided on |
| `entry` | the last human entry of the approval history |
| `payment` | the content for which the payment row was created |
| `delegate[u]` | the delegate that `active_approval_delegation` finds for `u` now |
| `org` | what the code reads of managers, roles and rules: an approver chain per report and a manager to escalate to per user. `ChangeOrg` swaps it |
| `route` | history: the chain of the current round |
| `submission` | history: the content at the last submission, and how many item edits were open then |

The handlers are `CreateDraft`, `EditReport` (which writes the report row, and so
compares its version), `OpenItemEdit` with `CommitItemEdit` or `RollbackItemEdit`
(which need not), `SubmitReport` (with
`InitWorkflow`), `WithdrawReport`, `ApproveLevel`, `ApproveReport`, `TurnDown`,
`ActRefused` (a refused actor's reconciliation of the task is committed),
`ViewQueue`, `CreateDelegation`, `DeactivateDelegation`,
`ProcessOverdueApprovals`; `WindowOpens`, `WindowEnds`, `DeadlinePasses` and
`ChangeOrg` are time and administrators. `UniqueAssignments` is the unique
constraint on level and assignee, which closed rows also fill; every action that
assigns has it as a guard, as the database does. `EnforcesLength` says whether
the database keeps to `varchar(20)`: with it, `ApproveReport` is refused.
During a review the content changes only by item edits that were open at the
submission (`ClaimHolds`). StagesInOrder and PaymentMatchesApproval name that case:
an approval is one of the submitted content or of what those edits had made of it,
and the payment is the last approver's.
Left out: audit rows, who is told, the delegation's id on a
task, the sweep's filter on deleted employees, and submissions that are
refused for policy or missing items.

### ReportItems

The items of one report as overlapping transactions. `OpenItem` and
`OpenReport` are a handler's reads, `RecomputeTotal` the sum it asks the
database for, a `Commit...` its flush and commit, `Rollback` any refusal. The
`stale` marks of a transaction stand for versions that have moved since it read
them (`"report"`, `"item"`), for the unique line number (`"line"`), and for the
items it has summed (`"sum"`, which the code does not look at and no guard
uses). `SumSeen` is where the missing autoflush shows: `add_item` flushes before
it sums, `update_item` and `delete_item` do not. A report sent back counts as a
draft; the policy flags written to other items are left out (they can only make
more transactions fail); a free slot stands for a new row.

### Payments and Reimbursement

Payments: the row of the last approval, the batch finance makes of several rows of
one currency, its export and repeated downloads, and the outcome. The handlers
lock what they change. `files` is a history of the distinct contents a batch
was downloaded with; the layout of CSV, XLSX and PDF is left out. A claim can be
edited and returned as long as it has no payment. Removing an employee between
batch and export is not an operation: no code path sets `users.is_deleted`.

Reimbursement is the abstract specification: a claim is approved with an amount,
handed to the payment rail at most once with that amount, and settled. The
refinement forgets batches and files (`ClaimState`, `Instructions`); creating a
batch and downloading it again are stutters, an export is one `Instruct`.

### OrgAdmin and ApprovalRouting

OrgAdmin: users with status, roles, manager and department, departments, and the
requests `CreateUser`, `UpdateUser` (a set of columns), `DeactivateUser`,
`CloseDepartment`, `SignInSuperAdmin`. `Above` is the walk of
`_validate_manager`, `Merged` the row after a slow request has written its own
columns over whatever others have committed. `TreesWith` counts in how many trees
`build_org_tree` shows a person: whoever is under no root gets a tree, each member of a
cycle and everybody below it (`Leftover`).

ApprovalRouting EXTENDS it with the routing rules and `Route`, the translation of
`_approvers_for_report`: manager levels, named users and roles, the first matching rule,
the fallback to the first manager, the owner and repetitions removed. Rules are
checked against the people of the day they are saved, and used later; restoring
one checks nothing. `Superior` is the walk over the managers and `Unique` the loop
that removes repetitions, each a function defined by recursion over its steps.
That routes are sound justifies the chains ApprovalWorkflow assumes.

### PolicyVersions

Versions with windows and rules, categories and vendors, and claims that note and
are validated against a version. Selection: `Newest` is any of those in force
with the last start (what draft items are flagged by), `Applied` the submission's
choice. `Violations` is `validate_report`, line by line. An activation is a bulk
update of the others (`Cleared`) plus a versioned one of its own row;
`claim[c].rules` remembers the rules a claim was checked with, `lifted` the
archived categories whose limits were not looked up. `OpenItems`, `CommitItems` and
`GiveUpItems` are the item handlers; `claim[c].edits` is the one edit that may be
open at a time (edits that overlap each other are ReportItems'), and
`claim[c].behind` whether it was open at the submission and has been committed since,
which is the case `SubmittedWithinLimits` excuses.

### Accounts

Sign-in with an OAuth token (`SignIn`, `SignInRenamed`, `SignInFirst`), requests
for access, and accounts made by administrators: validate, invite, create, revoke
on failure. The provider is external: verification, a change of address, tokens
that still carry the old one. `signedIn` records who was let in as whom.

### Documents

Uploads for items and for one policy: the check of the owner, the bytes, the
commit, the clean-up, and for policies the index of the assistant. The commit may
fail, or succeed without an answer (`LoseCommitAnswer`); the store may fail with
or without the bytes; the process may die. `AnalyzeReceipt` counts a digest and
its answer may be lost. The index replaces a document in one transaction, as the
SQLite and the PostgreSQL store do. `AppwritePolicyStore`, which the configuration
allows for local use and tests only, deletes the rows before it creates them again and
is not modelled.

### EmailDelivery

Rows of the notifications table and processes that deliver them, with a step
wherever another process can run: SELECT, UPDATE and commit of the claim,
connect, load, send, mark; a crash anywhere. Tokens are named by the attempt
that drew them. The WHERE of the UPDATE is `StillClaimable`: the row is as the
SELECT found it, because a row that has been claimed or marked since carries a
later time. `hand[w].copy` is the identity map: `_mark_delivery` compares the
token with it and the flush compares its version.

### IntegrationOutbox

The `requested` and `human_disposition` events of one report over its rounds, the AI
service's jobs as far as the outbox sees them, and workers. A claim is one step. The
UPDATE repeats the SELECT's conditions on status, due time and lease with the SELECT's
clock, though not the one on `attempt_count`: a row that somebody has claimed or failed
in between carries a later lease or due time and is refused, any other is as it was
selected. This takes a worker to spend less than a lease (60 s) between the two; if it
took longer, a row could be claimed once more than `_MAX_ATTEMPTS`. Loading the row and
the report, the call, and the commit are separate. `Fail` is the except branch: it reads
the row afresh and writes it whoever holds it. One disposition per round; a withdrawal
or send-back before the next `Submit` is understood.

### AiReviewJobs

The service on the other side: jobs, the background tasks with their set of active
ids and their semaphore, the process request, the provider that is asked a second
time and then replaced by the deterministic summary, retries, crash and restart.
`Claim` is `repository.claim` together with the test of its answer, which a job
that is being processed by somebody else passes too. `Backend` says whether a stored row
can be read back; the evaluator is the difference between citing facts and inventing.

## 3. The runs

| run | instance | shows |
|---|---|---|
| `MCApprovalWorkflow` | 1 report, owner and 2 approvers, 2 levels, 1 edit, 2 org charts (one approver; two in the other order with the owner as the upper one's manager), delegations both ways | order of tasks, payment matches approval, who decides, escalated tasks stay |
| `MCApprovalFair` | 2 reports, 1 level, fair sweep, steady organisation | every overdue task is escalated or reminded of; assignments follow windows that nobody announces |
| `MCReportItems` | 2 items, 2 sessions, amounts 1 and 2 | the reviewed total is the sum and is what is paid; no lost edit |
| `MCPayments` | 3 claims, 2 batches, 2 amounts, 2 currencies | a batch stays what it was, downloads agree, Reimbursement is implemented |
| `MCOrgAdmin` | 3 people, 2 departments, 3 role lists, 2 commits of which one may be slow | what remains true of administrators, managers, departments and the chart, and which overlaps break it |
| `MCApprovalRouting` | 3 people, 2 rules, 4 chains, 3 commits | routes are sound while people change after their rule was saved; refusals have a reason |
| `MCPolicyVersions` | 2 versions, 3 windows, 2 rule sets (none, and two rules that cap different things), 1 claim with 2 baskets of 2 items (one within every cap, one over the day's and its category's) and one open item edit, 2 days, 3 commits | frozen rules, limits respected, no gap, schedules kept |
| `MCAccounts` | 2 accounts, 2 subjects, 2 addresses (one the super administrator's), 3 tokens | one subject per account, decisions stand, invitations match accounts |
| `MCDocuments` | 3 uploads, 1 item and a policy, 2 contents | rows and bytes, receipts under review, the current document, one original |
| `MCEmailDelivery` | 1 mail, 2 processes, 3 attempts | sent means accepted, a live lease holds, every mail settles |
| `MCIntegrationOutbox` | 1 round (2 events), 2 workers, 2 attempts | processed means taken, every event settles |
| `MCAiReviewJobs` | 2 events, 2 tasks, 1 process request, 2 attempts, 1 crash, SQLite | one worker per job, grounded and final results, every job settles |

**Bounds.** Two levels give first, middle and last decisions and a waiting task; the
second chart reverses the approvers, so that resubmissions meet rows of an earlier round
at the same and at another level; three people are owner, approver and a second approver
who can be delegate, manager and former approver. One mail suffices because rows meet
only in the order in which a process gets to them; three attempts let a first claim, its
takeover and a takeover of that overlap. Two sessions are the smallest overlap, and each
version check is between two. Three claims in two batches are a batch of two and one
left over. Three people are a manager, who is managed himself, and a report; two commits
are a slow request and the one it meets, which close a cycle of two (longer cycles take
a third commit and are covered by the proof `LinesEnd`); for policies there are three
commits, since only with a third can another activation supersede a version whose
renewed activation is under way. Three uploads let two documents be indexed in the wrong
order while a receipt is under way. One edit of a claim suffices, since it is the one
open at the submission that matters. Two windows overlap, one lies in the future, and
one is over. The proofs of section 4 cover any number for every invariant and action
property of these runs. Deadlock is checked except where the system may stop: every
report approved, every event settled, the bound on commits reached.

**Symmetry** is used for values that no operator tells apart, and only in runs whose
properties are invariants and action properties; the refinement of `MCPayments` is
one of them, since Reimbursement states no fairness.

**Fairness.** `ProcessOverdueApprovals` is weakly fair: the platform's cron
starts the worker every five minutes. Processes that deliver are weakly fair and
clocks advance (leases end, backoffs end); `ClaimRows` is strongly fair: without it
every process could die between SELECT and commit for ever. In AiReviewJobs the
coroutines go on and the service is restarted; a task's claim is strongly fair,
because the semaphore it waits for is first come, first served. Nothing is assumed of
users, providers or crashes: a provider may refuse every time, a process may die
after every claim (each claim costs an attempt).

### Kept counterexamples

Statements of the repository that the code does not meet. TLC finds each of them
violated under the cfg named; `PROJECT.json` quotes the statement and the line. These
cfgs are not among the runs of `PROJECT.json`: start them by hand, as in section 6.

| cfg (module) | property | what happens |
|---|---|---|
| `MCPostgres` (MCApprovalWorkflow) | `LastApprovalTakesEffect` | the last approval's status has 24 characters, the column 20; PostgreSQL refuses it. All other runs set `EnforcesLength` to FALSE, as the tests' SQLite does |
| `MCPoisonedSweep` (MCApprovalWorkflow) | `OverdueTasksAreHandled` | the closed row of a former approver makes every sweep fail, and with it mails and outbox |
| `MCDeactivation` (MCApprovalWorkflow) | `DeactivationRestoresTasks` | ending a delegation does not return the tasks in its own transaction |
| `MCItemEdits` (MCReportItems) | `ItemsFrozenUnderReview` | an update or delete that overlaps a submission commits after it |
| `MCRepeatedTrees` (MCOrgAdmin) | `ComponentsShownOnce` | the org chart makes a tree for every member of a cycle of managers, and shows each of them several times |
| `MCStuckSending` (MCEmailDelivery) | `NoRowStuckSending` | a crash in the last attempt leaves a mail in `sending` |
| `MCStaleMark` (MCEmailDelivery) | `OnlyTheOwnerFinishes` | a worker that lost its lease still finishes the row, though never one that is sent (`SentIsFinal`, proved) |
| `MCJobRetained` (MCIntegrationOutbox) | `JobIsRetained` | a disposition moves to the review of a later round |
| `MCTwoReviewers` (MCAiReviewJobs) | `OneReviewer` | the process request reviews a job that a task is reviewing |
| `MCAiPostgres` (MCAiReviewJobs) | `EveryJobSettles` | rows stored as JSONB cannot be read back as text |
| `MCRepeatedAnalysis` (MCDocuments) | `RepeatIsNoDuplicate` | a receipt analysed twice is a duplicate of itself |
| `MCOldEvidence` (MCDocuments) | `EvidenceIsCurrent` | a replaced policy document goes on being evidence |

One more finding needs no counterexample: a superseded policy version can be
edited although claims keep it; `AppliedRulesFrozen` names that case.

## 4. The proofs

For all values of the constants that satisfy the named assumptions; sets of
workers, users, reports and events may have any finite size (any size, where no
assumption says otherwise).

* **ApprovalWorkflow_proofs.** `TypeCorrect`; `OrderedReview`, `NoOpenTasks` and
  `ApprovalComplete` from `RoundInv`, the conjunction of StagesInOrder,
  NoTaskOutsideReview and PaymentMatchesApproval with "the route is a chain the org
  charts allow" (`RouteSelected`) and with a count (`OpenEditsCounted`: item edits that
  are open now and changes since the submission are no more than the edits that
  were open then). None of them is inductive alone: the last approval is complete
  because the earlier levels have approved, and that the tasks are in order after
  a resubmission needs that no task was open before it. Steps that only move
  tasks between people are dealt with once (`QuietKeepsRound`).
  `OwnerActsForOthers` rests on the route being free of the owner.
  `EscalationsStay` and `AssigneeDecides` follow from what each handler does to
  one row (`DecidingRows`, `SubmittedRow`, `WithdrawnRow`, `EscalatedRowStays`).
  Assumption: a chain holds distinct users without the owner, which
  `ReportsGoToApprovers` below proves of the routing.
* **ItemsAndPolicy_proofs.** Of ReportItems: `TypeCorrect`, `TotalIsSum`, `PaysTheTotal`,
  `TotalFrozen`, `EditsAreSeen` from `ItemsInv`: as long as a version has not
  moved, what a transaction has read of the row is true, and two additions never
  share a slot. Of PolicyVersions: `PolicyTypesCorrect`, `ClaimsKeepTheirRules`,
  `SubmittedClaimsAreWithinLimits`, `RequestsLeaveNoGap` and `SchedulesAreKept` from
  `PolicyInv`, which adds to the properties what the slow request still knows
  (`SlowInv`: an edit that an activation has overtaken has been told so, an
  activation that was told nothing finds the window it has read) and which
  versions claims may keep (`FrozenInv`), and that an edit that is open during a review
  was noted by the submission (`BehindInv`). The limits rest on lemmas about totals
  over the lines of a claim: such a total exists, does not depend on the order, and
  does not grow when lines are left out (`SmallestSet` below).
* **Payments_proofs.** From `PaymentsInv`: a payment row exists only for a report
  that can no longer be edited, a row in a batch tells how far the batch has come,
  and an exported batch has one file, the one its rows still give. Then
  `BatchesMatchTheirRows`, `DownloadsAreEqual`, and `PaymentsImplementReimbursement`,
  step by step: every action maps to an abstract action or a stutter.
* **EmailDelivery_proofs.** `RecordedMailIsSent`, `SentStaysSent` and `LeaseHolds`
  from `DeliveryInv`: a copy is never newer than its row, and a copy of a sent
  row's version carries no token, so whatever an old worker flushes fails either on
  the token or on the version. `CopiesAreBounded` from `CopiesInv`, a count:
  accepted copies and workers that may still send are no more than the attempts
  charged to the row.
* **IntegrationOutbox_proofs.** `ProcessedEventsWereTaken` from `TakenInv` (whoever
  is about to record an event has had it taken, and so has whoever recorded it), and
  `DeliveriesAreBounded` from `CountInv`, the same count for events. The late
  failure that rewrites another worker's row changes the status only, never the
  attempts, which is why the bound survives it.
* **AiReviewJobs_proofs.** From `JobsInv`: what a job's status tells of its attempts
  and its result, and that the set of active ids has each job for one task.
  `WorkersDoNotMeet`, `ResultsAreGrounded`, `ResultsAreFinal`, `AttemptsAreBounded`;
  two coroutines may still meet on a job, and the second then writes over nothing
  that is completed.
* **OrgAndRouting_proofs.** Of OrgAdmin: four invariants on top of `OrgInv`, each a property with what
  the slow request relies on while nobody has committed a change of the kind its
  check depends on: `DepartmentInv`, `AdministratorInv`, `ManagerInv`, `LineInv`.
  `LinesEnd` reduces a new cycle to an old one or to the manager reporting to the
  person (`NoNewCycle`), `TheChartIsComplete` then shows that whoever is in no tree of
  a root is picked up by the second loop of `build_org_tree`. Of ApprovalRouting:
  `ReportsGoToApprovers` and `RefusalsAreExplained` from `RoutingInv`. Whom a
  person's manager column or a step of a kept rule names has an account and, as
  long as it is active, may approve or is among those who could (`Capable`); it
  stays so because accounts are never created twice nor reactivated, and whoever
  loses the role while active is remembered in `demoted` (`CapableStays`). The rest
  is about the algorithm: every manager the walk reaches is somebody's manager
  (`ManagersMayApprove`), steps and chains yield lists of such people
  (`RulesNameApprovers`), and the loop keeps everybody once (`UniqueIsASelection`).
  A refusal without a reason would need somebody who is his own manager, whose
  walk has no end (`OwnManagerIsCyclic`); the code raises an error for those.
* **AccountsAndDocuments_proofs.** Of Documents, from `DocumentsInv`: the phase of an upload tells what
  database and store know of its file, an upload under way for a report under review
  is a late one, and a content once called original has been counted. Of Accounts,
  from `AccountsInv`: `AccountTypes`, `AccountsAreBoundOnce`, `DecisionsAreFinal` and
  `InvitationsAndAccountsAgree`. Its parts say what a slow request may still rely on
  as long as the fact it read has not been overtaken: the account found has no
  subject, the request is pending, the address has no account, and the invited
  person has no token under another address. Somebody who has not accepted his
  invitation has neither token nor account (`FreshInv`).

**Two statements the proofs corrected.** `RequestsLeaveNoGap` could not be proved
as the property first stood, which excused only the activation of a version whose
time is over. The step that failed is a renewed activation of an active version
that is superseded between its read and its write: the ORM finds nothing to change in
a row it read as active, while the bulk update switches the others off. Two commits
are too few to see it, with three TLC shows it, and `NoGap` now names the case.
`InvitationsAndAccountsAgree` failed where somebody who had the invited address
before signs in with an earlier token and takes the account to his present
address, and where the invited person changes his address while the account is
being created. `InvitationsMatchAccounts` names both.

**Data.** The library's induction theorems cannot be instantiated here. Where a
definition recurses over numbers or finite sets and only its range or a bound is
needed, the proofs take a least counterexample instead (`LeastNumber`, from the
well-foundedness of `<`, and `SmallestSet`, which takes a set of least cardinality):
that a function defined step by step exists and stays in a set (`Iterates`, `UpTo`),
and what totals are bounded by.

Only model-checked: liveness (`OverdueTasksAreHandled`, `AssignmentsSettle`,
`EveryMailSettles`, `EveryEventSettles`, `EveryJobSettles`), which the prover does
not reach, and the counterexamples of section 3. Every invariant and action property
of a run is a theorem.

What one slow request cannot show, in the model and so in the proofs: three
requests of which two are slow, such as two slow demotions neither of which
overlaps a third party's write. The excuses in the properties name pairs for that
reason; what a pair can break, more requests can break too.

## 5. Not modelled, and why

* Windows of delegations as dates: ApprovalWorkflow has the delegate that a user's
  tasks resolve to now, and lets it change as windows open and end. Which of two
  overlapping windows wins, if two creations slip past the check for overlaps, is a
  choice.
* The worker's sequence of tasks: each is modelled alone. Since an exception of the
  first keeps the others from running, `MCPoisonedSweep` concerns them all.
* Comments, audit, presentation and analytics append or read in one transaction.
* Authentication and rate limits: token checks per request and counters in memory.
* Names, codes, addresses and layouts; OCR, redaction, retrieval and prompts of the
  advisory services: pure functions of one request that unit tests reach.
* The AI service with several replicas on PostgreSQL: as the code stands a replica
  cannot read a row (`MCAiPostgres`); what replicas would do to each other can be
  modelled once it can.
* The frontend keeps nothing the server relies on; what it may send is what the
  actions allow at any time. Of migrations and deployment the models take the length
  of a column and the schedule of the worker.

Next in line: a composition of sweep, mail and outbox as one worker; Delegations with
windows, refined to `delegate`; a common abstract specification of EmailDelivery and
IntegrationOutbox (a queue that delivers at least once and at most so many times).

## 6. Running

    tlc -config MCApprovalWorkflow.cfg MCApprovalWorkflow
    tlapm ApprovalWorkflow_proofs.tla

The cfg of a run has its name; `MCApprovalFair` uses the module
`MCApprovalWorkflow`, and the counterexamples the module their table names. Runs take
seconds up to a minute or two with two workers, proofs up to a few minutes a module.
