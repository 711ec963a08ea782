------------------------- MODULE IntegrationOutbox -------------------------
(***************************************************************************)
(* The hand-off of one report's review rounds to the advisory AI service.  *)
(* Each submission leaves a review request in the outbox, each decision a  *)
(* disposition, in the transaction that makes it; workers deliver them     *)
(* later, under leases, and may die at any point.  A disposition is filed  *)
(* under the review job that the report refers to when it is delivered.    *)
(*                                                                         *)
(* Sources: backend/app/services/integration_outbox_service.py,            *)
(* ai_review_client.py; ai_review_service for what the other side does.    *)
(***************************************************************************)
EXTENDS Naturals, FiniteSets

CONSTANTS
    Workers,        \* runs of the worker
    NoWorker,       \* NULL in locked_by
    MaxAttempts,    \* _MAX_ATTEMPTS
    MaxRounds       \* bound: submissions of the report

ASSUME OutboxAssumption ==
    /\ MaxAttempts \in Nat \ {0}
    /\ MaxRounds \in Nat \ {0}
    /\ IsFiniteSet(Workers)
    /\ NoWorker \notin Workers

VARIABLES
    round,      \* submissions of the report so far
    row,        \* the integration_outbox table
    reportJob,  \* expense_reports.ai_review_job_id
    job,        \* the review job of each round at the AI service
    filed,      \* the dispositions the AI service has recorded
    pc,         \* what each worker does
    batch,      \* its claims that it has not tried yet
    hand,       \* the event it delivers, and its copies of the rows
    taken       \* history: how often the service took each event

vars == <<round, row, reportJob, job, filed, pc, batch, hand, taken>>

-----------------------------------------------------------------------------
Rounds == 1..MaxRounds

\* A review job is named by the round that asked for it: the service answers
\* a repeated request for the same event with the job it already has.
NoJob == 0
Jobs == {NoJob} \cup Rounds

Events == {"request", "disposition"} \X Rounds

Row ==
    [ status   : {"absent", "pending", "processing", "retry", "failed", "processed"},
      attempts : 0..MaxAttempts,
      owner    : {NoWorker} \cup Workers,       \* locked_by
      lease    : {"none", "live", "expired"},   \* locked_until
      due      : BOOLEAN,                       \* available_at has passed
      jobId    : Jobs,                          \* job_id in a disposition's payload
      version  : Nat ]

NoHand == [outcome |-> "none"]
Hand ==
    [ event     : Events,
      copy      : Row,
      reportJob : Jobs,
      outcome   : {"loaded", "taken", "raised"} ]

NoRow ==
    [status |-> "absent", attempts |-> 0, owner |-> NoWorker, lease |-> "none",
     due |-> FALSE, jobId |-> NoJob, version |-> 0]

Enqueued(id) ==
    [status |-> "pending", attempts |-> 0, owner |-> NoWorker, lease |-> "none",
     due |-> TRUE, jobId |-> id, version |-> 0]

-----------------------------------------------------------------------------
(***************************************************************************)
(* The handlers that leave an event.                                       *)
(***************************************************************************)

\* The submit route; a report is withdrawn or sent back before it is
\* submitted again, and keeps its old job id.
Submit ==
    /\ round < MaxRounds
    /\ round' = round + 1
    /\ row' = [row EXCEPT ![<<"request", round + 1>>] = Enqueued(NoJob)]
    /\ UNCHANGED <<reportJob, job, filed, pc, batch, hand, taken>>

\* A decision on the current round.
Decide ==
    /\ round > 0
    /\ row[<<"disposition", round>>].status = "absent"
    /\ row' = [row EXCEPT ![<<"disposition", round>>] = Enqueued(reportJob)]
    /\ UNCHANGED <<round, reportJob, job, filed, pc, batch, hand, taken>>

-----------------------------------------------------------------------------
(***************************************************************************)
(* The worker.                                                             *)
(***************************************************************************)

\* Fault: an abandoned claim is never taken over.
ClaimableOnce(r) ==
    /\ r.attempts < MaxAttempts
    /\ r.due
    /\ r.status \in {"pending", "retry"}

\* Fault: the number of attempts has no limit.
ClaimableForever(r) ==
    /\ r.due
    /\ \/ r.status \in {"pending", "retry"}
       \/ r.status = "processing" /\ r.lease = "expired"

Claimable(r) ==
    /\ r.attempts < MaxAttempts
    /\ r.due
    /\ \/ r.status \in {"pending", "retry"}
       \/ r.status = "processing" /\ r.lease = "expired"

\* Fault: an attempt counts when it fails, not when it starts.
ClaimedUncounted(r, w) ==
    [r EXCEPT !.status = "processing", !.owner = w, !.lease = "live"]

Claimed(r, w) ==
    [status |-> "processing", attempts |-> r.attempts + 1, owner |-> w, lease |-> "live",
     due |-> r.due, jobId |-> r.jobId, version |-> r.version]

\* _claim: some of the rows, as other workers claim at the same time and the
\* batch is limited.  The UPDATE of a row repeats what the SELECT asks of its
\* status, its due time and its lease, at the moment of the SELECT, but not of
\* its attempts.  It is one step with the SELECT here: who has claimed or
\* failed the row in between has put its lease or its due time after that
\* moment, so the row is as it was selected and its attempts are too.  That
\* takes a worker to spend less than a lease (_LEASE_SECONDS) in _claim.
Claim(w) ==
    /\ pc[w] = "idle"
    /\ \E S \in SUBSET { e \in Events : Claimable(row[e]) } :
          /\ S # {}
          /\ row' = [e \in Events |-> IF e \in S THEN Claimed(row[e], w) ELSE row[e]]
          /\ batch' = [batch EXCEPT ![w] = S]
    /\ pc' = [pc EXCEPT ![w] = "delivering"]
    /\ UNCHANGED <<round, reportJob, job, filed, hand, taken>>

\* The next claim: its row is read again, and left alone if it has changed
\* hands; the report is read before the request is made.
Load(w) ==
    /\ pc[w] = "delivering"
    /\ hand[w] = NoHand
    /\ \E e \in batch[w] :
          /\ batch' = [batch EXCEPT ![w] = @ \ {e}]
          /\ hand' = IF row[e].owner = w
                     THEN [hand EXCEPT ![w] = [event |-> e, copy |-> row[e],
                                               reportJob |-> reportJob,
                                               outcome |-> "loaded"]]
                     ELSE hand
    /\ UNCHANGED <<round, row, reportJob, job, filed, pc, taken>>

Outcome(w, o) == hand' = [hand EXCEPT ![w] = [@ EXCEPT !.outcome = o]]

\* POST /v1/review-jobs; the answer may be lost on the way back.
RequestReview(w) ==
    LET k == hand[w].event[2] IN
    /\ hand[w].outcome = "loaded"
    /\ hand[w].event[1] = "request"
    /\ job' = [job EXCEPT ![k] = IF @ = "none" THEN "queued" ELSE @]
    /\ taken' = [taken EXCEPT ![hand[w].event] = @ + 1]
    /\ \E o \in {"taken", "raised"} : Outcome(w, o)
    /\ UNCHANGED <<round, row, reportJob, filed, pc, batch>>

\* The report's job, or the one the payload names.
JobOf(h) == IF h.reportJob # NoJob THEN h.reportJob ELSE h.copy.jobId

\* POST .../dispositions, once the job has been completed.
FileDisposition(w) ==
    LET h == hand[w] IN
    /\ h.outcome = "loaded"
    /\ h.event[1] = "disposition"
    /\ JobOf(h) # NoJob
    /\ job[JobOf(h)] = "completed"
    /\ filed' = filed \cup {[round |-> h.event[2], job |-> JobOf(h)]}
    /\ taken' = [taken EXCEPT ![h.event] = @ + 1]
    /\ \E o \in {"taken", "raised"} : Outcome(w, o)
    /\ UNCHANGED <<round, row, reportJob, job, pc, batch>>

\* The service cannot be reached, or its review is not known or not complete.
Refused(w) ==
    /\ hand[w].outcome = "loaded"
    /\ Outcome(w, "raised")
    /\ UNCHANGED <<round, row, reportJob, job, filed, pc, batch, taken>>

Processed(r, id) ==
    [status |-> "processed", attempts |-> r.attempts, owner |-> NoWorker, lease |-> "none",
     due |-> r.due, jobId |-> id, version |-> r.version + 1]

Current(h) == h.copy.version = row[h.event].version

\* Fault: the outcome is not looked at.
CommitsAlways(h) == h.outcome \in {"taken", "raised"} /\ Current(h)

Commits(h) == h.outcome = "taken" /\ Current(h)

\* The commit of a delivery, with the report's new job id.
Commit(w) ==
    LET h == hand[w]
        e == h.event IN
    /\ Commits(h)
    /\ row' = [row EXCEPT ![e] =
                 Processed(@, IF e[1] = "disposition" THEN JobOf(h) ELSE NoJob)]
    /\ reportJob' = IF e[1] = "request" THEN e[2] ELSE reportJob
    /\ hand' = [hand EXCEPT ![w] = NoHand]
    /\ UNCHANGED <<round, job, filed, pc, batch, taken>>

Failed(r) ==
    [status |-> IF r.attempts >= MaxAttempts THEN "failed" ELSE "retry",
     attempts |-> r.attempts, owner |-> NoWorker, lease |-> "none",
     due |-> FALSE, jobId |-> r.jobId, version |-> r.version + 1]

\* The except branch: the call raised, or the commit did because somebody else
\* has changed the outbox row or, under a request, the report.  The row is read
\* afresh and written whoever holds it now.
Fail(w) ==
    LET h == hand[w] IN
    /\ \/ h.outcome = "raised"
       \/ h.outcome = "taken" /\ (~Current(h) \/ h.event[1] = "request")
    /\ row' = [row EXCEPT ![h.event] = Failed(@)]
    /\ hand' = [hand EXCEPT ![w] = NoHand]
    /\ UNCHANGED <<round, reportJob, job, filed, pc, batch, taken>>

Stop(w) ==
    /\ pc' = [pc EXCEPT ![w] = "idle"]
    /\ batch' = [batch EXCEPT ![w] = {}]
    /\ hand' = [hand EXCEPT ![w] = NoHand]
    /\ UNCHANGED <<round, row, reportJob, job, filed, taken>>

Finish(w) == pc[w] = "delivering" /\ hand[w] = NoHand /\ batch[w] = {} /\ Stop(w)

Crash(w) == pc[w] = "delivering" /\ Stop(w)

-----------------------------------------------------------------------------
(***************************************************************************)
(* Time and the AI service.                                                *)
(***************************************************************************)
LeaseExpires(e) ==
    /\ row[e].lease = "live"
    /\ row' = [row EXCEPT ![e] = [@ EXCEPT !.lease = "expired"]]
    /\ UNCHANGED <<round, reportJob, job, filed, pc, batch, hand, taken>>

BackoffEnds(e) ==
    /\ row[e].status = "retry"
    /\ ~row[e].due
    /\ row' = [row EXCEPT ![e] = [@ EXCEPT !.due = TRUE]]
    /\ UNCHANGED <<round, reportJob, job, filed, pc, batch, hand, taken>>

JobEnds(k, how) ==
    /\ job[k] = "queued"
    /\ job' = [job EXCEPT ![k] = how]
    /\ UNCHANGED <<round, row, reportJob, filed, pc, batch, hand, taken>>

Init ==
    /\ round = 0
    /\ row = [e \in Events |-> NoRow]
    /\ reportJob = NoJob
    /\ job = [k \in Rounds |-> "none"]
    /\ filed = {}
    /\ pc = [w \in Workers |-> "idle"]
    /\ batch = [w \in Workers |-> {}]
    /\ hand = [w \in Workers |-> NoHand]
    /\ taken = [e \in Events |-> 0]

WorkerNext(w) ==
    \/ Claim(w) \/ Load(w)
    \/ RequestReview(w) \/ FileDisposition(w) \/ Refused(w)
    \/ Commit(w) \/ Fail(w) \/ Finish(w)

Next ==
    \/ Submit \/ Decide
    \/ \E w \in Workers : WorkerNext(w) \/ Crash(w)
    \/ \E e \in Events : LeaseExpires(e) \/ BackoffEnds(e)
    \/ \E k \in Rounds, how \in {"completed", "failed"} : JobEnds(k, how)

Spec == Init /\ [][Next]_vars

\* The scheduler starts the worker again and again; clocks advance.
FairSpec ==
    /\ Spec
    /\ \A w \in Workers : WF_vars(WorkerNext(w))
    /\ \A e \in Events : WF_vars(LeaseExpires(e)) /\ WF_vars(BackoffEnds(e))

-----------------------------------------------------------------------------
(***************************************************************************)
(* Correctness.                                                            *)
(***************************************************************************)

\* The columns and the state of the workers have their types.
TypeOK ==
    /\ round \in 0..MaxRounds
    /\ row \in [Events -> Row]
    /\ reportJob \in Jobs
    /\ job \in [Rounds -> {"none", "queued", "completed", "failed"}]
    /\ filed \subseteq [round : Rounds, job : Rounds]
    /\ pc \in [Workers -> {"idle", "delivering"}]
    /\ batch \in [Workers -> SUBSET Events]
    /\ hand \in [Workers -> {NoHand} \cup Hand]
    /\ taken \in [Events -> Nat]

\* What the outbox calls processed has reached the service, and the report
\* refers to no review the service does not have.
ProcessedWasTaken ==
    /\ \A e \in Events : row[e].status = "processed" => taken[e] > 0
    /\ reportJob # NoJob => job[reportJob] # "none"

\* Lost answers, takeovers and late failures repeat an event, but never beyond
\* the attempts that were counted for it.
TakenWithinAttempts ==
    \A e \in Events : taken[e] <= row[e].attempts

\* An event is filed for good or has used up its attempts in the end, even if
\* a late failure puts a processed event back into the queue for a while.
EveryEventSettles ==
    \A e \in Events :
        <>[](row[e].status \in {"absent", "processed"} \/ row[e].attempts = MaxAttempts)

\* build_human_disposition_event: the worker resolves the job "from the report
\* at delivery time and retains this field once known".
JobIsRetained ==
    [][\A k \in Rounds :
          LET id == row[<<"disposition", k>>].jobId IN
          id # NoJob => row'[<<"disposition", k>>].jobId = id]_vars

=============================================================================
