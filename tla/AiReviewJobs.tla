---------------------------- MODULE AiReviewJobs ----------------------------
(***************************************************************************)
(* AiReviewJobs: the AI review service, from the events it accepts to the  *)
(* advisory results it keeps.                                              *)
(*                                                                         *)
(* Sources: ai_review_service/api.py, worker.py, service.py,               *)
(* persistence.py and the retry loop of providers.py.  The service is one  *)
(* process with one event loop: what it does between two awaits is one     *)
(* step.  Jobs are in its database and survive a crash; background tasks,  *)
(* the worker's set of active jobs and its semaphore do not.               *)
(***************************************************************************)
EXTENDS Naturals, FiniteSets, Functions

CONSTANTS
    Backend,            \* persistence_backend: "sqlite" or "postgresql"
    Events,             \* event ids the core system sends, again and again
    Workers,            \* bound: background tasks at one time
    Calls,              \* bound: requests for /process at one time
    MaxAttempts,        \* job_max_attempts
    ProviderAttempts,   \* provider_max_attempts
    Concurrency,        \* local_worker_max_concurrency
    MaxCrashes,         \* bound
    MaxDispositions     \* bound: human dispositions of one job

ASSUME JobsAssumption ==
    /\ Backend \in {"sqlite", "postgresql"}
    /\ {MaxAttempts, ProviderAttempts, Concurrency} \subseteq Nat \ {0}
    /\ {MaxCrashes, MaxDispositions} \subseteq Nat
    /\ IsFiniteSet(Events)
    /\ IsFiniteSet(Workers)
    /\ Cardinality(Events) <= Cardinality(Workers)
    /\ Workers \cap Calls = {}

VARIABLES
    job,            \* ai_review_jobs
    dispositions,   \* ai_review_dispositions: how many of each job
    task,           \* coroutines of the process: background tasks and requests
    up,             \* the process runs
    crashes,        \* history: the number of crashes
    joined          \* history: jobs two coroutines have reviewed at a time

vars == <<job, dispositions, task, up, crashes, joined>>

-----------------------------------------------------------------------------
Tasks == Workers \cup Calls

Status == {"queued", "processing", "completed", "retry_pending", "failed"}

\* What a completed review says: the provider's words or the deterministic
\* ones, and whether all it cites is in the evaluation.
Results == [by : {"provider", "rules"}, grounded : BOOLEAN]

NoResult == [by |-> "nobody"]

NoJob == [status |-> "absent"]

Job == [status : Status, attempts : 0..MaxAttempts, result : Results \cup {NoResult}]

Exists(e) == job[e] # NoJob

\* A JSONB column arrives as a dict, which model_validate_json refuses.
Readable == Backend = "sqlite"

Idle == [at |-> "idle"]

Task(at, e, asked) == [at |-> at, event |-> e, asked |-> asked]

\* The worker's set of active job ids.
Active(e) ==
    \E t \in Workers : task[t] # Idle /\ task[t].at # "scheduled" /\ task[t].event = e

\* Worker tasks hold the semaphore while they review and while they sleep.
Holding == { t \in Workers : task[t].at \in {"asking", "sleeping"} }

Reviewing(e) == { t \in Tasks : task[t].at = "asking" /\ task[t].event = e }

-----------------------------------------------------------------------------
(***************************************************************************)
(* Requests.                                                               *)
(***************************************************************************)

\* An event that is known already gets its job again, and another task.
Enqueue(e, t) ==
    /\ up
    /\ Exists(e) => Readable
    /\ t \in Workers
    /\ task[t] = Idle
    /\ job' = IF Exists(e) THEN job
              ELSE [job EXCEPT ![e] = [status |-> "queued", attempts |-> 0, result |-> NoResult]]
    /\ task' = [task EXCEPT ![t] = Task("scheduled", e, 0)]
    /\ UNCHANGED <<dispositions, up, crashes, joined>>

RequestProcess(e, t) ==
    /\ up
    /\ Exists(e)
    /\ t \in Calls
    /\ task[t] = Idle
    /\ task' = [task EXCEPT ![t] = Task("ready", e, 0)]
    /\ UNCHANGED <<job, dispositions, up, crashes, joined>>

RecordDisposition(e) ==
    /\ up
    /\ Readable
    /\ Exists(e)
    /\ job[e].status = "completed"
    /\ job[e].result # NoResult
    /\ dispositions[e] < MaxDispositions
    /\ dispositions' = [dispositions EXCEPT ![e] = @ + 1]
    /\ UNCHANGED <<job, task, up, crashes, joined>>

-----------------------------------------------------------------------------
(***************************************************************************)
(* A review.                                                               *)
(***************************************************************************)

\* Fault: the set of active jobs is not looked at.
AlwaysFree(e) == TRUE

Free(e) == ~ Active(e)

\* LocalReviewWorker.process: one task for each job, the others return.
Begin(t) ==
    /\ task[t].at = "scheduled"
    /\ task' = [task EXCEPT ![t] =
                  IF Free(task[t].event) THEN [task[t] EXCEPT !.at = "ready"] ELSE Idle]
    /\ UNCHANGED <<job, dispositions, up, crashes, joined>>

MayRun(t) ==
    \/ t \in Calls
    \/ task[t].at = "sleeping"
    \/ Cardinality(Holding) < Concurrency

\* claim, and the test of its answer in ExpenseReviewService.process: a job
\* that another coroutine is processing passes for one that was claimed.
Claim(t) ==
    /\ task[t].at \in {"ready", "sleeping"}
    /\ MayRun(t)
    /\ LET e == task[t].event
       IN  IF ~ Readable \/ job[e].status \in {"completed", "failed"}
           THEN /\ task' = [task EXCEPT ![t] = Idle]
                /\ UNCHANGED <<job, joined>>
           ELSE /\ task' = [task EXCEPT ![t] = Task("asking", e, 0)]
                /\ job' = IF job[e].status = "processing" THEN job
                          ELSE [job EXCEPT ![e].status = "processing", ![e].attempts = @ + 1]
                /\ joined' = IF Reviewing(e) = {} THEN joined ELSE joined \cup {e}
    /\ UNCHANGED <<dispositions, up, crashes>>

\* Fault: a job can be completed from any status.
CompletableAlways(e) == TRUE

\* complete refuses a job that is not being processed, and so does the
\* retry_or_fail that answers the refusal: the coroutine ends with an error.
Completable(e) == job[e].status = "processing"

Complete(t, result) ==
    /\ task' = [task EXCEPT ![t] = Idle]
    /\ job' = IF Completable(task[t].event)
              THEN [job EXCEPT ![task[t].event].status = "completed",
                               ![task[t].event].result = result]
              ELSE job
    /\ UNCHANGED <<dispositions, up, crashes, joined>>

\* Fault: a job whose last attempt has failed is tried again.
RetriedAlways(e) == "retry_pending"

\* Fault: the failure of a review is not recorded.
LeftProcessing(e) == "processing"

\* retry_or_fail, recover_pending_jobs.
AfterFailure(e) == IF job[e].attempts < MaxAttempts THEN "retry_pending" ELSE "failed"

\* Fault: citations of the provider are not compared with the evaluation.
TakenAsGiven(cites) == TRUE

\* _validate_citations.
Grounded(cites) == cites = "facts"

\* The provider answers; what it cites is from the evaluation or invented.
Answer(t, cites) ==
    /\ task[t].at = "asking"
    /\ Grounded(cites)
    /\ Complete(t, [by |-> "provider", grounded |-> cites = "facts"])

\* It fails, is late or invents, and is asked again.
AskAgain(t) ==
    /\ task[t].at = "asking"
    /\ task[t].asked + 1 < ProviderAttempts
    /\ task' = [task EXCEPT ![t].asked = @ + 1]
    /\ UNCHANGED <<job, dispositions, up, crashes, joined>>

\* It has had its attempts: the deterministic summary.
FallBack(t) ==
    /\ task[t].at = "asking"
    /\ task[t].asked + 1 = ProviderAttempts
    /\ Complete(t, [by |-> "rules", grounded |-> TRUE])

\* Any other exception.  A worker task sleeps and tries again as long as the
\* job is pending, a request answers; a job that has gone on without this
\* coroutine makes it end with an error.
Fail(t) ==
    /\ task[t].at = "asking"
    /\ LET e == task[t].event
       IN  IF job[e].status = "processing"
           THEN /\ job' = [job EXCEPT ![e].status = AfterFailure(e)]
                /\ task' = [task EXCEPT ![t] =
                              IF t \in Workers /\ AfterFailure(e) = "retry_pending"
                              THEN Task("sleeping", e, 0) ELSE Idle]
           ELSE /\ task' = [task EXCEPT ![t] = Idle]
                /\ UNCHANGED job
    /\ UNCHANGED <<dispositions, up, crashes, joined>>

-----------------------------------------------------------------------------
(***************************************************************************)
(* The process.                                                            *)
(***************************************************************************)
Crash ==
    /\ up
    /\ crashes < MaxCrashes
    /\ up' = FALSE
    /\ crashes' = crashes + 1
    /\ task' = [t \in Tasks |-> Idle]
    /\ UNCHANGED <<job, dispositions, joined>>

\* lifespan: jobs a crash has interrupted have used the attempt; a task for
\* each job that is pending.  A job that cannot be read ends the start.
Restart ==
    /\ ~ up
    /\ Readable \/ \A e \in Events : ~ Exists(e)
    /\ up' = TRUE
    /\ job' = [e \in Events |->
                 IF Exists(e) /\ job[e].status = "processing"
                 THEN [job[e] EXCEPT !.status = AfterFailure(e)] ELSE job[e]]
    /\ LET pending == { e \in Events : job'[e] # NoJob
                                        /\ job'[e].status \in {"queued", "retry_pending"} }
       IN  \E given \in Injection(pending, Workers) :
             task' = [t \in Tasks |->
                        IF t \in Range(given)
                        THEN Task("scheduled", CHOOSE e \in pending : given[e] = t, 0)
                        ELSE Idle]
    /\ UNCHANGED <<dispositions, crashes, joined>>

-----------------------------------------------------------------------------
Init ==
    /\ job = [e \in Events |-> NoJob]
    /\ dispositions = [e \in Events |-> 0]
    /\ task = [t \in Tasks |-> Idle]
    /\ up = TRUE
    /\ crashes = 0
    /\ joined = {}

Proceed(t) ==
    \/ \E cites \in {"facts", "inventions"} : Answer(t, cites)
    \/ AskAgain(t)
    \/ FallBack(t)
    \/ Fail(t)

Next ==
    \/ \E e \in Events, t \in Tasks : Enqueue(e, t) \/ RequestProcess(e, t)
    \/ \E e \in Events : RecordDisposition(e)
    \/ \E t \in Tasks : Begin(t) \/ Claim(t) \/ Proceed(t)
    \/ Crash
    \/ Restart

\* The event loop runs every coroutine that can go on, the semaphore serves
\* its waiters in order, the platform restarts the container.
Fairness ==
    /\ \A t \in Tasks : WF_vars(Begin(t)) /\ SF_vars(Claim(t)) /\ WF_vars(Proceed(t))
    /\ WF_vars(Restart)

Spec == Init /\ [][Next]_vars

FairSpec == Spec /\ Fairness

-----------------------------------------------------------------------------
(***************************************************************************)
(* Correctness.                                                            *)
(***************************************************************************)

\* The job rows and the coroutines of the worker keep their types.
TypeOK ==
    /\ job \in [Events -> {NoJob} \cup Job]
    /\ dispositions \in [Events -> 0..MaxDispositions]
    /\ task \in [Tasks -> {Idle} \cup [at : {"scheduled", "ready", "asking", "sleeping"},
                                      event : Events, asked : 0..ProviderAttempts]]
    /\ up \in BOOLEAN
    /\ crashes \in 0..MaxCrashes
    /\ joined \subseteq Events

\* worker.py, "prevents duplicate event delivery from running the same job
\* twice": of the background tasks, one at most reviews a job.
OneWorkerPerJob ==
    \A e \in Events : Cardinality(Reviewing(e) \cap Workers) <= 1

\* complete, record_disposition: the result people have decided on stays,
\* whatever else was reviewing the job.
ResultIsFinal ==
    [][ \A e \in Events : Exists(e) /\ job[e].status = "completed" => job'[e] = job[e] ]_vars

\* providers.py: a completed review, and one that people have disposed of,
\* cites only what the rules have found.
ResultIsGrounded ==
    \A e \in Events : dispositions[e] > 0 \/ (Exists(e) /\ job[e].status = "completed") =>
        job[e].result # NoResult /\ job[e].result.grounded

\* "Drive a queued job to a terminal state": every accepted event is reviewed
\* or given up, through crashes and restarts, except that a job two coroutines
\* have reviewed at once may be left pending.
EveryJobSettles ==
    \A e \in Events :
        Exists(e) ~> (job[e].status \in {"completed", "failed"} \/ e \in joined)

\* job_max_attempts: an accepted event is tried no more often, crashes included.
AttemptsBounded == \A e \in Events : Exists(e) => job[e].attempts <= MaxAttempts

\* postgres_persistence.py, worker.py: a job is not processed twice at a time.
OneReviewer == \A e \in Events : Cardinality(Reviewing(e)) <= 1

=============================================================================
