------------------------- MODULE AiReviewJobs_proofs -------------------------
(***************************************************************************)
(* Proofs about AiReviewJobs.  Two coroutines may review one job, and the  *)
(* second then writes over nothing, because a job is completed only while  *)
(* it is processed and nothing brings a completed job back; the attempts   *)
(* are bounded because a pending job has one left.                         *)
(***************************************************************************)
EXTENDS AiReviewJobs, FiniteSetTheorems, TLAPS

\* What the status of a job tells of its attempts and of its result.
JobInv(e) ==
    /\ dispositions[e] > 0 => job[e].status = "completed"
    /\ job[e].status = "queued" => job[e].attempts = 0
    /\ job[e].status = "retry_pending" => job[e].attempts < MaxAttempts
    /\ job[e].status = "completed" => job[e].result # NoResult /\ job[e].result.grounded

\* Worker t is past the test of the active jobs.
Working(t) == task[t].at \in {"ready", "asking", "sleeping"}

\* The worker's set of active jobs has each job for one of its tasks.
WorkersInv ==
    \A s, t \in Workers :
        Working(s) /\ Working(t) /\ task[s].event = task[t].event => s = t

\* A coroutine has the job of its event.
HasJob == \A t \in Tasks : task[t].at # "idle" => Exists(task[t].event)

JobsInv ==
    /\ TypeOK
    /\ \A e \in Events : JobInv(e)
    /\ WorkersInv
    /\ HasJob

-----------------------------------------------------------------------------
(***************************************************************************)
(* Facts about one job or one coroutine.                                   *)
(***************************************************************************)
Coroutine == [at : {"scheduled", "ready", "asking", "sleeping"},
              event : Events, asked : 0..ProviderAttempts]

\* A job that exists is a row of the table.
LEMMA Rows ==
    ASSUME TypeOK, NEW e \in Events
    PROVE  /\ Exists(e) <=> job[e] \in Job
           /\ Exists(e) <=> job[e].status # "absent"
  <1>1. job[e] = NoJob \/ job[e] \in Job
    BY DEF TypeOK
  <1>2. job[e] \in Job => job[e].status \in Status
    BY DEF Job
  <1> QED BY <1>1, <1>2 DEF Exists, NoJob, Status

\* A coroutine that is under way has a job.
LEMMA Coroutines ==
    ASSUME TypeOK, NEW t \in Tasks
    PROVE  /\ task[t] = Idle <=> task[t].at = "idle"
           /\ task[t].at # "idle" => task[t] \in Coroutine
  <1>1. task[t] = Idle \/ task[t] \in Coroutine
    BY DEF TypeOK, Coroutine
  <1>2. task[t] \in Coroutine => task[t].at \in {"scheduled", "ready", "asking", "sleeping"}
    BY DEF Coroutine
  <1> QED BY <1>1, <1>2 DEF Idle

\* The constants that bound a coroutine are numbers.
LEMMA Bounds ==
    /\ MaxAttempts \in Nat /\ MaxAttempts > 0
    /\ ProviderAttempts \in Nat /\ ProviderAttempts > 0
    /\ MaxDispositions \in Nat /\ MaxCrashes \in Nat
  BY JobsAssumption

-----------------------------------------------------------------------------
(***************************************************************************)
(* Steps that change one coroutine and at most one job.                    *)
(***************************************************************************)

\* A coroutine that ends, goes on, or is the first to pass the test of the
\* active jobs leaves at most one worker for each job.
LEMMA CoroutineStep ==
    ASSUME JobsInv, NEW t \in Tasks, NEW c \in {Idle} \cup Coroutine,
           task' = [task EXCEPT ![t] = c],
           \/ c.at \in {"idle", "scheduled"}
           \/ /\ Working(t) /\ task[t] \in Coroutine
              /\ c.event = task[t].event
           \/ \A s \in Workers : s # t /\ Working(s) => task[s].event # c.event
           \/ t \notin Workers,
           \A d \in Events : Exists(d) => Exists(d)',
           c.at = "idle" \/ job'[c.event] # NoJob
    PROVE  /\ task' \in [Tasks -> {Idle} \cup Coroutine]
           /\ WorkersInv'
           /\ HasJob'
  <1>1. task \in [Tasks -> {Idle} \cup Coroutine]
    BY DEF JobsInv, TypeOK, Coroutine
  <1>2. task' \in [Tasks -> {Idle} \cup Coroutine]
    BY <1>1
  <1>3. /\ task'[t] = c
        /\ \A s \in Tasks \ {t} : task'[s] = task[s]
    BY <1>1
  <1>4. Workers \subseteq Tasks
    BY DEF Tasks
  <1>5. ASSUME NEW s \in Workers, s # t, Working(s), t \in Workers, Working(t)',
               task'[t].event = task[s].event
        PROVE  FALSE
    <2>1. c.at \in {"ready", "asking", "sleeping"} /\ c.event = task[s].event
      BY <1>3, <1>5 DEF Working
    <2> QED BY <1>5, <2>1 DEF JobsInv, WorkersInv
  <1>6. ASSUME NEW s \in Workers, NEW u \in Workers,
               Working(s)', Working(u)', task'[s].event = task'[u].event
        PROVE  s = u
    <2>1. CASE s # t /\ u # t
      BY <1>3, <1>4, <1>6, <2>1 DEF JobsInv, WorkersInv, Working
    <2>2. CASE s = t /\ u # t
      BY <1>3, <1>4, <1>5, <1>6, <2>2 DEF Working
    <2>3. CASE s # t /\ u = t
      BY <1>3, <1>4, <1>5, <1>6, <2>3 DEF Working
    <2> QED BY <2>1, <2>2, <2>3
  <1>7. ASSUME NEW s \in Tasks, task'[s].at # "idle" PROVE job'[task'[s].event] # NoJob
    <2>1. CASE s = t
      BY <1>3, <1>7, <2>1
    <2>2. CASE s # t
      <3>1. task'[s] = task[s] /\ task[s].event \in Events /\ Exists(task[s].event)
        BY <1>3, <1>7, <2>2, Coroutines DEF JobsInv, Coroutine, HasJob
      <3> QED BY <1>7, <3>1 DEF Exists
    <2> QED BY <2>1, <2>2
  <1> QED BY <1>2, <1>6, <1>7 DEF WorkersInv, HasJob, Exists

\* A job that is written with what its new status allows stays right.
LEMMA JobStep ==
    ASSUME JobsInv, NEW e \in Events, NEW j \in Job,
           job' = [job EXCEPT ![e] = j],
           dispositions' = dispositions,
           dispositions[e] > 0 => j.status = "completed",
           j.status = "queued" => j.attempts = 0,
           j.status = "retry_pending" => j.attempts < MaxAttempts,
           j.status = "completed" => j.result # NoResult /\ j.result.grounded
    PROVE  /\ job' \in [Events -> {NoJob} \cup Job]
           /\ \A d \in Events : JobInv(d)'
           /\ \A d \in Events : Exists(d) => Exists(d)'
           /\ Exists(e)'
  <1>1. job \in [Events -> {NoJob} \cup Job]
    BY DEF JobsInv, TypeOK
  <1>2. /\ job'[e] = j
        /\ \A d \in Events \ {e} : job'[d] = job[d]
    BY <1>1
  <1>3. ASSUME NEW d \in Events PROVE JobInv(d)'
    BY <1>2 DEF JobsInv, JobInv
  <1>4. j # NoJob
    BY DEF Job, NoJob, Status
  <1> QED BY <1>1, <1>2, <1>3, <1>4 DEF Exists

LEMMA SameJobs ==
    ASSUME JobsInv, UNCHANGED <<job, dispositions>>
    PROVE  /\ job' \in [Events -> {NoJob} \cup Job]
           /\ \A d \in Events : JobInv(d)'
           /\ \A d \in Events : Exists(d) => Exists(d)'
  BY DEF JobsInv, TypeOK, JobInv, Exists

LEMMA EnqueueStep ==
    ASSUME JobsInv, NEW e \in Events, NEW t \in Tasks, Enqueue(e, t)
    PROVE  JobsInv'
  <1>1. TypeOK /\ UNCHANGED <<dispositions, up, crashes, joined>>
    BY DEF JobsInv, Enqueue
  <1>2. Task("scheduled", e, 0) \in Coroutine /\ Task("scheduled", e, 0).at = "scheduled"
    BY Bounds DEF Task, Coroutine
  <1>3. /\ job' \in [Events -> {NoJob} \cup Job]
        /\ \A d \in Events : JobInv(d)'
        /\ \A d \in Events : Exists(d) => Exists(d)'
        /\ Exists(e)'
    <2>1. CASE Exists(e)
      BY <1>1, <2>1, SameJobs DEF Enqueue
    <2>2. CASE ~ Exists(e)
      <3> DEFINE j == [status |-> "queued", attempts |-> 0, result |-> NoResult]
      <3>1. j \in Job
        BY Bounds DEF Job, Status
      <3>2. ~ dispositions[e] > 0
        BY <1>1, <2>2, Rows DEF JobsInv, JobInv
      <3> QED BY <1>1, <2>2, <3>1, <3>2, JobStep DEF Enqueue
    <2> QED BY <2>1, <2>2
  <1>4. Task("scheduled", e, 0).event = e /\ job'[e] # NoJob
    BY <1>3 DEF Task, Exists
  <1>5. task' \in [Tasks -> {Idle} \cup Coroutine] /\ WorkersInv' /\ HasJob'
    BY <1>2, <1>3, <1>4, CoroutineStep DEF Enqueue
  <1> QED BY <1>1, <1>3, <1>5 DEF JobsInv, TypeOK, Coroutine

LEMMA RequestStep ==
    ASSUME JobsInv, NEW e \in Events, NEW t \in Tasks, RequestProcess(e, t)
    PROVE  JobsInv'
  <1>1. TypeOK /\ UNCHANGED <<job, dispositions, up, crashes, joined>>
    BY DEF JobsInv, RequestProcess
  <1>2. Task("ready", e, 0) \in Coroutine
    BY Bounds DEF Task, Coroutine
  <1>3. t \notin Workers
    BY JobsAssumption DEF RequestProcess
  <1>4. /\ job' \in [Events -> {NoJob} \cup Job]
        /\ \A d \in Events : JobInv(d)'
        /\ \A d \in Events : Exists(d) => Exists(d)'
    BY <1>1, SameJobs
  <1>5. job'[e] # NoJob /\ Task("ready", e, 0).event = e
    BY <1>4 DEF RequestProcess, Task, Exists
  <1>6. task' \in [Tasks -> {Idle} \cup Coroutine] /\ WorkersInv' /\ HasJob'
    BY <1>2, <1>3, <1>4, <1>5, CoroutineStep DEF RequestProcess
  <1> QED BY <1>1, <1>4, <1>6 DEF JobsInv, TypeOK, Coroutine

LEMMA DispositionStep ==
    ASSUME JobsInv, NEW e \in Events, RecordDisposition(e)
    PROVE  JobsInv'
  <1>1. /\ TypeOK /\ UNCHANGED <<job, task, up, crashes, joined>>
        /\ job[e].status = "completed"
        /\ dispositions[e] < MaxDispositions
        /\ dispositions' = [dispositions EXCEPT ![e] = @ + 1]
    BY DEF JobsInv, RecordDisposition
  <1>2. TypeOK'
    BY <1>1, Bounds DEF TypeOK
  <1>3. ASSUME NEW d \in Events PROVE JobInv(d)'
    BY <1>1 DEF JobsInv, JobInv, TypeOK
  <1>4. WorkersInv' /\ HasJob'
    BY <1>1 DEF JobsInv, WorkersInv, Working, HasJob, Exists
  <1> QED BY <1>2, <1>3, <1>4 DEF JobsInv

LEMMA BeginStep ==
    ASSUME JobsInv, NEW t \in Tasks, Begin(t)
    PROVE  JobsInv'
  <1> DEFINE c == IF Free(task[t].event) THEN [task[t] EXCEPT !.at = "ready"] ELSE Idle
  <1>1. /\ TypeOK /\ UNCHANGED <<job, dispositions, up, crashes, joined>>
        /\ task[t].at = "scheduled"
        /\ task' = [task EXCEPT ![t] = c]
    BY DEF JobsInv, Begin
  <1>2. task[t] \in Coroutine
    BY <1>1, Coroutines
  <1>3. c \in {Idle} \cup Coroutine
    BY <1>2 DEF Coroutine
  <1>4. \/ c.at = "idle"
        \/ \A s \in Workers : s # t /\ Working(s) => task[s].event # c.event
    <2>1. CASE Free(task[t].event)
      <3>1. c.event = task[t].event
        BY <1>2, <2>1 DEF Coroutine
      <3>2. ASSUME NEW s \in Workers, Working(s), task[s].event = task[t].event PROVE FALSE
        <4>1. task[s] # Idle /\ task[s].at # "scheduled"
          BY <3>2 DEF Working, Idle
        <4> QED BY <2>1, <3>2, <4>1 DEF Free, Active
      <3> QED BY <3>1, <3>2
    <2>2. CASE ~ Free(task[t].event)
      BY <2>2 DEF Idle
    <2> QED BY <2>1, <2>2
  <1> HIDE DEF c
  <1>5. /\ job' \in [Events -> {NoJob} \cup Job]
        /\ \A d \in Events : JobInv(d)'
        /\ \A d \in Events : Exists(d) => Exists(d)'
    BY <1>1, SameJobs
  <1>6. c.at = "idle" \/ job'[c.event] # NoJob
    <2>1. task[t].event \in Events /\ Exists(task[t].event)
      BY <1>1, <1>2 DEF JobsInv, HasJob, Coroutine
    <2>2. c.event = task[t].event \/ c.at = "idle"
      BY <1>2 DEF c, Coroutine, Idle
    <2> QED BY <1>5, <2>1, <2>2 DEF Exists
  <1>7. task' \in [Tasks -> {Idle} \cup Coroutine] /\ WorkersInv' /\ HasJob'
    BY <1>1, <1>3, <1>4, <1>5, <1>6, CoroutineStep
  <1> QED BY <1>1, <1>5, <1>7 DEF JobsInv, TypeOK, Coroutine

-----------------------------------------------------------------------------
(***************************************************************************)
(* A review.                                                               *)
(***************************************************************************)

\* A coroutine that ends changes nothing that its worker set counts.
LEMMA EndStep ==
    ASSUME JobsInv, NEW t \in Tasks, task' = [task EXCEPT ![t] = Idle],
           \A d \in Events : Exists(d) => Exists(d)'
    PROVE  task' \in [Tasks -> {Idle} \cup Coroutine] /\ WorkersInv' /\ HasJob'
  BY CoroutineStep DEF Idle

LEMMA ClaimStep ==
    ASSUME JobsInv, NEW t \in Tasks, Claim(t)
    PROVE  JobsInv'
  <1> DEFINE e == task[t].event
             pass == Readable /\ job[e].status \notin {"completed", "failed"}
  <1>1. /\ TypeOK /\ UNCHANGED <<dispositions, up, crashes>>
        /\ task[t].at \in {"ready", "sleeping"}
    BY DEF JobsInv, Claim
  <1>2. task[t] \in Coroutine /\ Working(t) /\ e \in Events /\ Exists(e)
    <2>1. task[t] \in Coroutine
      BY <1>1, Coroutines
    <2> QED BY <1>1, <2>1 DEF Working, Coroutine, JobsInv, HasJob
  <1>3. CASE ~ pass
    <2>1. task' = [task EXCEPT ![t] = Idle] /\ UNCHANGED <<job, joined>>
      BY <1>3 DEF Claim
    <2> QED BY <1>1, <2>1, EndStep, SameJobs DEF JobsInv, TypeOK, Coroutine
  <1>4. CASE pass
    <2>1. /\ task' = [task EXCEPT ![t] = Task("asking", e, 0)]
          /\ job' = IF job[e].status = "processing" THEN job
                    ELSE [job EXCEPT ![e].status = "processing", ![e].attempts = @ + 1]
          /\ joined' = joined \/ joined' = joined \cup {e}
      BY <1>4 DEF Claim
    <2>2. Task("asking", e, 0) \in Coroutine /\ Task("asking", e, 0).event = e
      BY <1>2, Bounds DEF Task, Coroutine
    <2>3. /\ job' \in [Events -> {NoJob} \cup Job]
          /\ \A d \in Events : JobInv(d)'
          /\ \A d \in Events : Exists(d) => Exists(d)'
      <3>1. CASE job[e].status = "processing"
        BY <1>1, <2>1, <3>1, SameJobs
      <3>2. CASE job[e].status # "processing"
        <4> DEFINE j == [job[e] EXCEPT !.status = "processing", !.attempts = @ + 1]
        <4>1. job[e] \in Job
          BY <1>1, <1>2, Rows
        <4>2. JobInv(e) /\ job[e].status \in {"queued", "retry_pending"}
          BY <1>2, <1>4, <3>2, <4>1 DEF JobsInv, Job, Status
        <4>3. job[e].attempts < MaxAttempts /\ job[e].attempts \in 0..MaxAttempts
          BY <4>1, <4>2, Bounds DEF JobInv, Job
        <4>4. job[e].attempts + 1 \in 0..MaxAttempts
          BY <4>3, Bounds
        <4>5. j \in Job
          BY <4>1, <4>4 DEF Job, Status
        <4>6. ~ dispositions[e] > 0
          BY <4>2 DEF JobInv
        <4>7. job' = [job EXCEPT ![e] = j]
          BY <2>1, <3>2
        <4>8. j.status = "processing"
          BY <4>1 DEF Job
        <4> HIDE DEF j
        <4> QED BY <1>1, <1>2, <4>5, <4>6, <4>7, <4>8, JobStep
      <3> QED BY <3>1, <3>2
    <2>4. task' \in [Tasks -> {Idle} \cup Coroutine] /\ WorkersInv' /\ HasJob'
      BY <1>2, <2>1, <2>2, <2>3, CoroutineStep DEF Exists
    <2> QED BY <1>1, <1>2, <2>1, <2>3, <2>4 DEF JobsInv, TypeOK, Coroutine
  <1> QED BY <1>3, <1>4

\* The answer of the provider or of the rules ends the coroutine.
LEMMA CompleteStep ==
    ASSUME JobsInv, NEW t \in Tasks, task[t].at = "asking", NEW result \in Results,
           result.grounded, Complete(t, result)
    PROVE  JobsInv'
  <1> DEFINE e == task[t].event
  <1>1. /\ TypeOK /\ UNCHANGED <<dispositions, up, crashes, joined>>
        /\ task' = [task EXCEPT ![t] = Idle]
    BY DEF JobsInv, Complete
  <1>2. e \in Events /\ Exists(e)
    BY <1>1, Coroutines DEF Coroutine, JobsInv, HasJob
  <1>3. /\ job' \in [Events -> {NoJob} \cup Job]
        /\ \A d \in Events : JobInv(d)'
        /\ \A d \in Events : Exists(d) => Exists(d)'
    <2>1. CASE ~ Completable(e)
      BY <1>1, <2>1, SameJobs DEF Complete
    <2>2. CASE Completable(e)
      <3> DEFINE j == [job[e] EXCEPT !.status = "completed", !.result = result]
      <3>1. job[e] \in Job
        BY <1>1, <1>2, Rows
      <3>2. j \in Job
        BY <3>1 DEF Job, Status
      <3>3. job' = [job EXCEPT ![e] = j]
        BY <2>2 DEF Complete
      <3>4. result # NoResult
        BY DEF Results, NoResult
      <3>5. j.status = "completed" /\ j.result = result
        BY <3>1 DEF Job
      <3> HIDE DEF j
      <3> QED BY <1>1, <1>2, <3>2, <3>3, <3>4, <3>5, JobStep
    <2> QED BY <2>1, <2>2
  <1>4. task' \in [Tasks -> {Idle} \cup Coroutine] /\ WorkersInv' /\ HasJob'
    BY <1>1, <1>3, EndStep
  <1> QED BY <1>1, <1>3, <1>4 DEF JobsInv, TypeOK, Coroutine

\* A job that is tried again has an attempt left.
LEMMA FailureStatus ==
    ASSUME JobsInv, NEW e \in Events, Exists(e)
    PROVE  LET j == [job[e] EXCEPT !.status = AfterFailure(e)]
           IN  /\ j \in Job
               /\ j.status = AfterFailure(e)
               /\ AfterFailure(e) \in {"retry_pending", "failed"}
               /\ j.status = "retry_pending" => j.attempts < MaxAttempts
  <1>1. job[e] \in Job
    BY Rows DEF JobsInv
  <1>2. AfterFailure(e) \in {"retry_pending", "failed"}
    BY DEF AfterFailure
  <1>3. AfterFailure(e) = "retry_pending" => job[e].attempts < MaxAttempts
    BY DEF AfterFailure
  <1> QED BY <1>1, <1>2, <1>3 DEF Job, Status

LEMMA FailStep ==
    ASSUME JobsInv, NEW t \in Tasks, Fail(t)
    PROVE  JobsInv'
  <1> DEFINE e == task[t].event
             j == [job[e] EXCEPT !.status = AfterFailure(e)]
             c == IF t \in Workers /\ AfterFailure(e) = "retry_pending"
                  THEN Task("sleeping", e, 0) ELSE Idle
  <1>1. /\ TypeOK /\ UNCHANGED <<dispositions, up, crashes, joined>>
        /\ task[t].at = "asking"
    BY DEF JobsInv, Fail
  <1>2. task[t] \in Coroutine /\ e \in Events /\ Exists(e) /\ Working(t)
    BY <1>1, Coroutines DEF Coroutine, JobsInv, HasJob, Working
  <1>3. CASE job[e].status = "processing"
    <2>1. job' = [job EXCEPT ![e].status = AfterFailure(e)] /\ task' = [task EXCEPT ![t] = c]
      BY <1>3 DEF Fail
    <2>2. job' = [job EXCEPT ![e] = j]
      BY <2>1
    <2>3. /\ j \in Job
          /\ j.status \in {"retry_pending", "failed"}
          /\ j.status = "retry_pending" => j.attempts < MaxAttempts
      BY <1>2, FailureStatus
    <2>4. ~ dispositions[e] > 0
      BY <1>2, <1>3 DEF JobsInv, JobInv
    <2> HIDE DEF j
    <2>5. /\ job' \in [Events -> {NoJob} \cup Job]
          /\ \A d \in Events : JobInv(d)'
          /\ \A d \in Events : Exists(d) => Exists(d)'
      BY <1>1, <1>2, <2>2, <2>3, <2>4, JobStep
    <2>6. /\ c \in {Idle} \cup Coroutine
          /\ c.at = "idle" \/ c.event = e
      BY <1>2, Bounds DEF Task, Coroutine, Idle
    <2> HIDE DEF c
    <2>7. task' \in [Tasks -> {Idle} \cup Coroutine] /\ WorkersInv' /\ HasJob'
      BY <1>2, <2>1, <2>5, <2>6, CoroutineStep DEF Exists
    <2> QED BY <1>1, <2>5, <2>7 DEF JobsInv, TypeOK, Coroutine
  <1>4. CASE job[e].status # "processing"
    <2>1. task' = [task EXCEPT ![t] = Idle] /\ job' = job
      BY <1>4 DEF Fail
    <2> QED BY <1>1, <2>1, EndStep, SameJobs DEF JobsInv, TypeOK, Coroutine
  <1> QED BY <1>3, <1>4

LEMMA ProceedStep ==
    ASSUME JobsInv, NEW t \in Tasks, Proceed(t)
    PROVE  JobsInv'
  <1>1. ASSUME NEW cites \in {"facts", "inventions"}, Answer(t, cites) PROVE JobsInv'
    <2> DEFINE r == [by |-> "provider", grounded |-> cites = "facts"]
    <2>1. r \in Results /\ r.grounded /\ Complete(t, r) /\ task[t].at = "asking"
      BY <1>1 DEF Answer, Grounded, Results
    <2> HIDE DEF r
    <2> QED BY <2>1, CompleteStep
  <1>2. CASE AskAgain(t)
    <2> DEFINE c == [task[t] EXCEPT !.asked = @ + 1]
    <2>1. /\ TypeOK /\ UNCHANGED <<job, dispositions, up, crashes, joined>>
          /\ task[t].at = "asking"
          /\ task[t].asked + 1 < ProviderAttempts
          /\ task' = [task EXCEPT ![t] = c]
      BY <1>2 DEF JobsInv, AskAgain
    <2>2. task[t] \in Coroutine /\ Working(t)
      BY <2>1, Coroutines DEF Working
    <2>3. c \in Coroutine /\ c.event = task[t].event
      BY <2>1, <2>2, Bounds DEF Coroutine
    <2>4. task[t].event \in Events /\ Exists(task[t].event)
      BY <2>1, <2>2 DEF Coroutine, JobsInv, HasJob
    <2> HIDE DEF c
    <2>5. /\ job' \in [Events -> {NoJob} \cup Job]
          /\ \A d \in Events : JobInv(d)'
          /\ \A d \in Events : Exists(d) => Exists(d)'
      BY <2>1, SameJobs
    <2>6. task' \in [Tasks -> {Idle} \cup Coroutine] /\ WorkersInv' /\ HasJob'
      BY <2>1, <2>2, <2>3, <2>4, <2>5, CoroutineStep DEF Exists
    <2> QED BY <2>1, <2>5, <2>6 DEF JobsInv, TypeOK, Coroutine
  <1>3. CASE FallBack(t)
    <2> DEFINE r == [by |-> "rules", grounded |-> TRUE]
    <2>1. r \in Results /\ r.grounded /\ Complete(t, r) /\ task[t].at = "asking"
      BY <1>3 DEF FallBack, Results
    <2> HIDE DEF r
    <2> QED BY <2>1, CompleteStep
  <1> QED BY <1>1, <1>2, <1>3, FailStep DEF Proceed

-----------------------------------------------------------------------------
(***************************************************************************)
(* The process.                                                            *)
(***************************************************************************)
LEMMA CrashStep ==
    ASSUME JobsInv, Crash
    PROVE  JobsInv'
  <1>1. /\ TypeOK /\ UNCHANGED <<job, dispositions, joined>>
        /\ up' = FALSE
        /\ crashes' = crashes + 1 /\ crashes < MaxCrashes
        /\ task' = [t \in Tasks |-> Idle]
    BY DEF JobsInv, Crash
  <1>2. TypeOK'
    <2>1. crashes' \in 0..MaxCrashes
      BY <1>1, Bounds DEF TypeOK
    <2> QED BY <1>1, <2>1 DEF TypeOK
  <1>3. \A e \in Events : JobInv(e)'
    BY <1>1, SameJobs
  <1>4. WorkersInv' /\ HasJob'
    BY <1>1 DEF WorkersInv, HasJob, Working, Idle, Tasks
  <1> QED BY <1>2, <1>3, <1>4 DEF JobsInv

LEMMA RestartStep ==
    ASSUME JobsInv, Restart
    PROVE  JobsInv'
  <1> DEFINE pending == { e \in Events : job'[e] # NoJob
                                          /\ job'[e].status \in {"queued", "retry_pending"} }
  <1>1. /\ TypeOK /\ UNCHANGED <<dispositions, crashes, joined>>
        /\ up' = TRUE
        /\ job' = [e \in Events |->
                     IF Exists(e) /\ job[e].status = "processing"
                     THEN [job[e] EXCEPT !.status = AfterFailure(e)] ELSE job[e]]
    BY DEF JobsInv, Restart
  <1>2. PICK given \in [pending -> Workers] :
            task' = [t \in Tasks |->
                       IF t \in Range(given)
                       THEN Task("scheduled", CHOOSE e \in pending : given[e] = t, 0)
                       ELSE Idle]
    BY DEF Restart, Injection, IsInjective
  <1>3. ASSUME NEW e \in Events
        PROVE  /\ job'[e] \in {NoJob} \cup Job
               /\ JobInv(e)'
    <2>1. CASE Exists(e) /\ job[e].status = "processing"
      <3>1. /\ job'[e] \in Job
            /\ job'[e].status \in {"retry_pending", "failed"}
            /\ job'[e].status = "retry_pending" => job'[e].attempts < MaxAttempts
        BY <1>1, <2>1, FailureStatus
      <3>2. ~ dispositions[e] > 0
        BY <2>1 DEF JobsInv, JobInv
      <3> QED BY <1>1, <3>1, <3>2 DEF JobInv
    <2>2. CASE ~ (Exists(e) /\ job[e].status = "processing")
      <3>1. job'[e] = job[e]
        BY <1>1, <2>2
      <3> QED BY <1>1, <3>1 DEF JobsInv, JobInv, TypeOK
    <2> QED BY <2>1, <2>2
  <1>4. job' \in [Events -> {NoJob} \cup Job]
    <2>1. job' = [e \in Events |-> job'[e]]
      BY <1>1
    <2> QED BY <1>3, <2>1
  <1>5. ASSUME NEW t \in Tasks
        PROVE  \/ task'[t] = Idle
               \/ /\ task'[t] \in Coroutine
                  /\ task'[t].at = "scheduled"
                  /\ task'[t].event \in pending
    <2>1. CASE t \in Range(given)
      <3> DEFINE d == CHOOSE e \in pending : given[e] = t
      <3>1. \E e \in pending : given[e] = t
        BY <1>2, <2>1 DEF Range
      <3>2. d \in pending
        BY <3>1
      <3> HIDE DEF d
      <3>3. d \in Events
        BY <3>2
      <3>4. task'[t] = Task("scheduled", d, 0)
        BY <1>2, <2>1 DEF d
      <3> QED BY <3>2, <3>3, <3>4, Bounds DEF Task, Coroutine
    <2>2. CASE t \notin Range(given)
      BY <1>2, <2>2
    <2> QED BY <2>1, <2>2
  <1>6. TypeOK'
    <2>1. task' \in [Tasks -> {Idle} \cup Coroutine]
      <3>1. task' = [t \in Tasks |-> task'[t]]
        BY <1>2
      <3> QED BY <1>5, <3>1
    <2> QED BY <1>1, <1>4, <2>1 DEF TypeOK, Coroutine
  <1>7. WorkersInv'
    <2>1. ASSUME NEW t \in Workers PROVE task'[t].at \in {"idle", "scheduled"}
      BY <1>5 DEF Idle, Tasks
    <2> QED BY <2>1 DEF WorkersInv, Working
  <1>8. HasJob'
    BY <1>5 DEF HasJob, Exists, Idle
  <1> QED BY <1>3, <1>6, <1>7, <1>8 DEF JobsInv

-----------------------------------------------------------------------------
(***************************************************************************)
(* The invariant, and what it implies.                                     *)
(***************************************************************************)
LEMMA InitInv == Init => JobsInv
  <1> SUFFICES ASSUME Init PROVE JobsInv
    OBVIOUS
  <1>1. TypeOK
    BY Bounds DEF Init, TypeOK
  <1>2. \A e \in Events : JobInv(e)
    BY DEF Init, JobInv, NoJob
  <1>3. WorkersInv /\ HasJob
    BY DEF Init, WorkersInv, HasJob, Working, Idle, Tasks
  <1> QED BY <1>1, <1>2, <1>3 DEF JobsInv

LEMMA NextInv == JobsInv /\ [Next]_vars => JobsInv'
  <1> SUFFICES ASSUME JobsInv, [Next]_vars PROVE JobsInv'
    OBVIOUS
  <1>1. CASE Next
    BY <1>1, EnqueueStep, RequestStep, DispositionStep, BeginStep, ClaimStep, ProceedStep,
       CrashStep, RestartStep DEF Next
  <1>2. CASE UNCHANGED vars
    <2>1. TypeOK' /\ WorkersInv' /\ HasJob'
      BY <1>2 DEF vars, JobsInv, TypeOK, WorkersInv, HasJob, Working, Exists
    <2>2. \A e \in Events : JobInv(e)'
      BY <1>2, SameJobs DEF vars
    <2> QED BY <2>1, <2>2 DEF JobsInv
  <1> QED BY <1>1, <1>2

LEMMA JobsInvariant == Spec => []JobsInv
  BY InitInv, NextInv, PTL DEF Spec

\* Jobs, dispositions and coroutines are of their types.
THEOREM TypeCorrect == Spec => []TypeOK
  <1>1. JobsInv => TypeOK
    BY DEF JobsInv
  <1> QED BY <1>1, JobsInvariant, PTL

\* Crashes and coroutines that overlap included, a job is tried no more than
\* job_max_attempts times (claim, retry_or_fail, recover_pending_jobs).
THEOREM AttemptsAreBounded == Spec => []AttemptsBounded
  <1>1. JobsInv => AttemptsBounded
    <2> SUFFICES ASSUME JobsInv, NEW e \in Events, Exists(e)
                 PROVE  job[e].attempts <= MaxAttempts
      BY DEF AttemptsBounded
    <2>1. job[e].attempts \in 0..MaxAttempts
      BY Rows DEF JobsInv, Job
    <2> QED BY <2>1, Bounds
  <1> QED BY <1>1, JobsInvariant, PTL

\* For any number of events, tasks and requests, what is completed or decided
\* on cites the evaluation only (_validate_citations, complete).
THEOREM ResultsAreGrounded == Spec => []ResultIsGrounded
  <1>1. JobsInv => ResultIsGrounded
    BY DEF JobsInv, JobInv, ResultIsGrounded
  <1> QED BY <1>1, JobsInvariant, PTL

\* Of any number of background tasks one at most reviews a job (process of
\* the local worker).
THEOREM WorkersDoNotMeet == Spec => []OneWorkerPerJob
  <1>1. JobsInv => OneWorkerPerJob
    <2> SUFFICES ASSUME JobsInv, NEW e \in Events
                 PROVE  Cardinality(Reviewing(e) \cap Workers) <= 1
      BY DEF OneWorkerPerJob
    <2> DEFINE W == Reviewing(e) \cap Workers
    <2>1. \A s, t \in W : s = t
      BY DEF JobsInv, WorkersInv, Working, Reviewing
    <2> HIDE DEF W
    <2>2. W = {} \/ \E t \in W : W = {t}
      BY <2>1
    <2>3. Cardinality(W) \in {0, 1}
      BY <2>2, FS_EmptySet, FS_Singleton
    <2> QED BY <2>3 DEF W
  <1> QED BY <1>1, JobsInvariant, PTL

\* No step of any coroutine changes a job that is completed (complete, claim,
\* retry_or_fail).
THEOREM ResultsAreFinal == Spec => ResultIsFinal
  <1> DEFINE Final == \A e \in Events :
                         Exists(e) /\ job[e].status = "completed" => job'[e] = job[e]
  <1>1. JobsInv /\ [Next]_vars => [Final]_vars
    <2> SUFFICES ASSUME JobsInv, [Next]_vars, NEW e \in Events,
                        Exists(e), job[e].status = "completed"
                 PROVE  job'[e] = job[e]
      OBVIOUS
    <2>0. job \in [Events -> {NoJob} \cup Job]
      BY DEF JobsInv, TypeOK
    <2>1. ASSUME NEW d \in Events, NEW t \in Tasks, Enqueue(d, t) \/ RequestProcess(d, t)
          PROVE  job'[e] = job[e]
      BY <2>0, <2>1 DEF Enqueue, RequestProcess
    <2>2. ASSUME NEW t \in Tasks, Claim(t) PROVE job'[e] = job[e]
      <3>1. CASE task[t].event = e
        BY <2>2, <3>1 DEF Claim
      <3>2. CASE task[t].event # e
        BY <2>0, <2>2, <3>2 DEF Claim
      <3> QED BY <3>1, <3>2
    <2>3. ASSUME NEW t \in Tasks, NEW r, Complete(t, r) PROVE job'[e] = job[e]
      <3>1. CASE task[t].event = e
        BY <2>3, <3>1 DEF Complete, Completable
      <3>2. CASE task[t].event # e
        BY <2>0, <2>3, <3>2 DEF Complete
      <3> QED BY <3>1, <3>2
    <2>4. ASSUME NEW t \in Tasks, Fail(t) PROVE job'[e] = job[e]
      <3>1. CASE task[t].event = e
        BY <2>4, <3>1 DEF Fail
      <3>2. CASE task[t].event # e
        BY <2>0, <2>4, <3>2 DEF Fail
      <3> QED BY <3>1, <3>2
    <2>5. CASE Restart
      BY <2>5 DEF Restart
    <2>6. CASE \/ \E d \in Events : RecordDisposition(d)
               \/ \E t \in Tasks : Begin(t) \/ AskAgain(t)
               \/ Crash
               \/ UNCHANGED vars
      BY <2>6 DEF RecordDisposition, Begin, AskAgain, Crash, vars
    <2> QED BY <2>1, <2>2, <2>3, <2>4, <2>5, <2>6 DEF Next, Proceed, Answer, FallBack
  <1> QED BY <1>1, JobsInvariant, PTL DEF Spec, ResultIsFinal

=============================================================================
