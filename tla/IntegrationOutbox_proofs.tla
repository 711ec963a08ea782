---------------------- MODULE IntegrationOutbox_proofs ----------------------
(***************************************************************************)
(* What holds of IntegrationOutbox for any number of workers, rounds and   *)
(* attempts.                                                               *)
(***************************************************************************)
EXTENDS IntegrationOutbox, FiniteSetTheorems, TLAPS

-----------------------------------------------------------------------------
(***************************************************************************)
(* Types.                                                                  *)
(***************************************************************************)

LEMMA EventParts ==
    ASSUME NEW e \in Events
    PROVE  e[1] \in {"request", "disposition"} /\ e[2] \in Rounds
BY DEF Events

LEMMA RoundEvents ==
    ASSUME NEW k \in Rounds
    PROVE  /\ <<"request", k>> \in Events
           /\ <<"disposition", k>> \in Events
           /\ <<"request", k>>[2] = k
           /\ <<"disposition", k>>[2] = k
BY DEF Events

\* A claim, and the two ends of a delivery, keep a row in its type.
LEMMA ClaimedRow ==
    ASSUME NEW r \in Row, NEW w \in Workers, Claimable(r)
    PROVE  /\ Claimed(r, w) \in Row
           /\ Claimed(r, w).attempts = r.attempts + 1
           /\ Claimed(r, w).status = "processing"
BY OutboxAssumption DEF Row, Claimable, Claimed

LEMMA EndedRow ==
    ASSUME NEW r \in Row, NEW id \in Jobs
    PROVE  /\ Processed(r, id) \in Row
           /\ Processed(r, id).attempts = r.attempts
           /\ Processed(r, id).status = "processed"
           /\ Failed(r) \in Row
           /\ Failed(r).attempts = r.attempts
           /\ Failed(r).status \in {"failed", "retry"}
BY DEF Row, Processed, Failed

LEMMA EnqueuedRow ==
    ASSUME NEW id \in Jobs
    PROVE  /\ NoRow \in Row
           /\ Enqueued(id) \in Row
           /\ Enqueued(id).attempts = 0
           /\ Enqueued(id).status = "pending"
BY OutboxAssumption DEF Row, NoRow, Enqueued, Jobs, NoJob

LEMMA HandParts ==
    ASSUME TypeOK, NEW w \in Workers, hand[w] # NoHand
    PROVE  /\ hand[w] \in Hand
           /\ hand[w].event \in Events
           /\ hand[w].copy \in Row
           /\ JobOf(hand[w]) \in Jobs
           /\ row[hand[w].event] \in Row
<1>1. hand[w] \in Hand
    BY DEF TypeOK
<1>2. hand[w].event \in Events /\ hand[w].copy \in Row
    BY <1>1 DEF Hand
<1>3. JobOf(hand[w]) \in Jobs
    BY <1>1, <1>2 DEF Hand, Row, JobOf
<1> QED BY <1>1, <1>2, <1>3 DEF TypeOK

LEMMA OutcomeType ==
    ASSUME TypeOK, NEW w \in Workers, hand[w] # NoHand,
           NEW o \in {"taken", "raised"}, Outcome(w, o)
    PROVE  /\ hand' \in [Workers -> {NoHand} \cup Hand]
           /\ hand'[w].event = hand[w].event
           /\ hand'[w].outcome = o
           /\ \A v \in Workers : v # w => hand'[v] = hand[v]
<1>1. [hand[w] EXCEPT !.outcome = o] \in Hand
    BY HandParts DEF Hand
<1> QED BY <1>1, HandParts DEF Outcome, TypeOK, Hand

LEMMA InitTypes == Init => TypeOK
BY EnqueuedRow, OutboxAssumption DEF Init, TypeOK, Jobs, NoJob

LEMMA HandlerTypes ==
    ASSUME TypeOK, Submit \/ Decide
    PROVE  TypeOK'
<1>1. CASE Submit
    <2>1. round + 1 \in Rounds /\ round' \in 0..MaxRounds
        BY <1>1, OutboxAssumption DEF Submit, TypeOK, Rounds
    <2>2. Enqueued(NoJob) \in Row
        BY EnqueuedRow DEF Jobs
    <2> QED BY <1>1, <2>1, <2>2, RoundEvents DEF Submit, TypeOK
<1>2. CASE Decide
    <2>1. Enqueued(reportJob) \in Row
        BY EnqueuedRow DEF TypeOK
    <2> QED BY <1>2, <2>1 DEF Decide, TypeOK
<1> QED BY <1>1, <1>2

LEMMA WorkerTypes ==
    ASSUME TypeOK, NEW w \in Workers, WorkerNext(w) \/ Crash(w)
    PROVE  TypeOK'
<1> USE DEF TypeOK
<1>1. CASE Claim(w)
    <2>1. PICK S \in SUBSET { e \in Events : Claimable(row[e]) } :
              /\ row' = [e \in Events |-> IF e \in S THEN Claimed(row[e], w) ELSE row[e]]
              /\ batch' = [batch EXCEPT ![w] = S]
        BY <1>1 DEF Claim
    <2>2. row' \in [Events -> Row]
        BY <2>1, ClaimedRow
    <2> QED BY <1>1, <2>1, <2>2 DEF Claim
<1>2. CASE Load(w)
    <2>1. PICK e \in batch[w] :
              /\ batch' = [batch EXCEPT ![w] = @ \ {e}]
              /\ hand' = IF row[e].owner = w
                         THEN [hand EXCEPT ![w] = [event |-> e, copy |-> row[e],
                                                   reportJob |-> reportJob,
                                                   outcome |-> "loaded"]]
                         ELSE hand
        BY <1>2 DEF Load
    <2>2. [event |-> e, copy |-> row[e], reportJob |-> reportJob, outcome |-> "loaded"] \in Hand
        BY DEF Hand
    <2> QED BY <1>2, <2>1, <2>2 DEF Load
<1>3. CASE RequestReview(w)
    <2>1. hand[w] # NoHand
        BY <1>3 DEF RequestReview, NoHand
    <2>2. hand' \in [Workers -> {NoHand} \cup Hand]
        BY <1>3, <2>1, OutcomeType DEF RequestReview
    <2>3. hand[w].event[2] \in Rounds
        BY <2>1, HandParts, EventParts
    <2> QED BY <1>3, <2>1, <2>2, <2>3, HandParts DEF RequestReview
<1>4. CASE FileDisposition(w)
    <2>1. hand[w] # NoHand
        BY <1>4 DEF FileDisposition, NoHand
    <2>2. hand' \in [Workers -> {NoHand} \cup Hand]
        BY <1>4, <2>1, OutcomeType DEF FileDisposition
    <2>3. hand[w].event[2] \in Rounds /\ JobOf(hand[w]) \in Rounds
        BY <1>4, <2>1, HandParts, EventParts DEF FileDisposition, Jobs
    <2> QED BY <1>4, <2>1, <2>2, <2>3, HandParts DEF FileDisposition
<1>5. CASE Refused(w)
    <2>1. hand[w] # NoHand
        BY <1>5 DEF Refused, NoHand
    <2> QED BY <1>5, <2>1, OutcomeType DEF Refused
<1>6. CASE Commit(w)
    <2>1. hand[w] # NoHand
        BY <1>6 DEF Commit, Commits, NoHand
    <2>2. hand[w].event[2] \in Rounds
        BY <2>1, HandParts, EventParts
    <2> DEFINE id == IF hand[w].event[1] = "disposition" THEN JobOf(hand[w]) ELSE NoJob
    <2>3. id \in Jobs
        BY <2>1, HandParts DEF Jobs
    <2>4. Processed(row[hand[w].event], id) \in Row
        BY <2>1, <2>3, HandParts, EndedRow
    <2>5. row' \in [Events -> Row]
        BY <1>6, <2>4 DEF Commit
    <2> QED BY <1>6, <2>2, <2>5 DEF Commit, Jobs
<1>7. CASE Fail(w)
    <2>1. hand[w] # NoHand
        BY <1>7 DEF Fail, NoHand
    <2>2. Failed(row[hand[w].event]) \in Row
        BY <2>1, HandParts, EndedRow DEF Jobs
    <2> QED BY <1>7, <2>2 DEF Fail
<1>8. CASE Finish(w) \/ Crash(w)
    BY <1>8 DEF Finish, Crash, Stop
<1> QED BY <1>1, <1>2, <1>3, <1>4, <1>5, <1>6, <1>7, <1>8 DEF WorkerNext

\* What time changes, and what the service does by itself.
Passing(e) == LeaseExpires(e) \/ BackoffEnds(e)

LEMMA PassingTypes ==
    ASSUME TypeOK, NEW e \in Events, Passing(e)
    PROVE  /\ TypeOK'
           /\ \A f \in Events : /\ row'[f].status = row[f].status
                                /\ row'[f].attempts = row[f].attempts
<1>1. row[e] \in Row
    BY DEF TypeOK
<1>2. /\ [row[e] EXCEPT !.lease = "expired"] \in Row
      /\ [row[e] EXCEPT !.due = TRUE] \in Row
    BY <1>1 DEF Row
<1>3. TypeOK'
    BY <1>2 DEF Passing, LeaseExpires, BackoffEnds, TypeOK
<1>4. \A f \in Events : f # e => row'[f] = row[f]
    BY DEF Passing, LeaseExpires, BackoffEnds, TypeOK
<1>5. row'[e].status = row[e].status /\ row'[e].attempts = row[e].attempts
    BY <1>1 DEF Passing, LeaseExpires, BackoffEnds, TypeOK, Row
<1> QED BY <1>3, <1>4, <1>5

LEMMA JobTypes ==
    ASSUME TypeOK, NEW k \in Rounds, NEW how \in {"completed", "failed"}, JobEnds(k, how)
    PROVE  TypeOK'
BY DEF TypeOK, JobEnds

LEMMA TypesInductive == TypeOK /\ [Next]_vars => TypeOK'
<1> SUFFICES ASSUME TypeOK, [Next]_vars PROVE TypeOK'
    OBVIOUS
<1>1. CASE UNCHANGED vars
    BY <1>1 DEF TypeOK, vars
<1> QED BY <1>1, HandlerTypes, WorkerTypes, PassingTypes, JobTypes DEF Next, Passing

\* The outbox, the hands of the workers and the jobs keep their types: in
\* particular no claim goes beyond the last attempt.
THEOREM TypeCorrect == Spec => []TypeOK
BY InitTypes, TypesInductive, PTL DEF Spec

-----------------------------------------------------------------------------
(***************************************************************************)
(* What has been taken.  A row is only called processed by a delivery that *)
(* the service answered; a job the report refers to, or is about to refer  *)
(* to, exists at the service.                                              *)
(***************************************************************************)
TakenHand(h) ==
    h.outcome = "taken" =>
        /\ taken[h.event] > 0
        /\ h.event[1] = "request" => job[h.event[2]] # "none"

TakenInv ==
    /\ TypeOK
    /\ ProcessedWasTaken
    /\ \A w \in Workers : hand[w] # NoHand => TakenHand(hand[w])

LEMMA InitTaken == Init => TakenInv
BY InitTypes DEF Init, TakenInv, ProcessedWasTaken, NoRow, NoHand

\* The history only grows and jobs do not disappear.
LEMMA TakenKept ==
    ASSUME TakenInv, TypeOK',
           \A e \in Events : taken[e] > 0 => taken'[e] > 0,
           \A k \in Rounds : job[k] # "none" => job'[k] # "none",
           NEW w \in Workers, hand[w] # NoHand, hand'[w] = hand[w]
    PROVE  TakenHand(hand[w])'
<1>1. hand[w].event \in Events /\ hand[w].event[2] \in Rounds
    BY HandParts, EventParts DEF TakenInv
<1> QED BY <1>1 DEF TakenInv, TakenHand

LEMMA CallTaken ==
    ASSUME TakenInv, TypeOK', NEW w \in Workers, RequestReview(w) \/ FileDisposition(w)
    PROVE  TakenInv'
<1> DEFINE h == hand[w]
<1>1. h # NoHand /\ row' = row /\ reportJob' = reportJob
    BY DEF RequestReview, FileDisposition, NoHand
<1>2. h.event \in Events /\ h.event[2] \in Rounds
    BY <1>1, HandParts, EventParts DEF TakenInv
<1>3. taken' = [taken EXCEPT ![h.event] = @ + 1]
    BY DEF RequestReview, FileDisposition
<1>4. /\ taken'[h.event] > 0
      /\ \A e \in Events : taken[e] > 0 => taken'[e] > 0
    BY <1>2, <1>3 DEF TakenInv, TypeOK
<1>5. \A k \in Rounds : job[k] # "none" => job'[k] # "none"
    BY DEF RequestReview, FileDisposition, TakenInv, TypeOK
<1>6. h.event[1] = "request" => job'[h.event[2]] # "none"
    BY <1>2 DEF RequestReview, FileDisposition, TakenInv, TypeOK
<1>7. PICK o \in {"taken", "raised"} : Outcome(w, o)
    BY DEF RequestReview, FileDisposition
<1>8. hand'[w].event = h.event /\ \A v \in Workers : v # w => hand'[v] = hand[v]
    BY <1>1, <1>7, OutcomeType DEF TakenInv
<1>9. ASSUME NEW v \in Workers, hand'[v] # NoHand
      PROVE  TakenHand(hand[v])'
    <2>1. CASE v = w
        BY <1>4, <1>6, <1>8, <2>1 DEF TakenHand
    <2>2. CASE v # w
        BY <1>4, <1>5, <1>8, <1>9, <2>2, TakenKept
    <2> QED BY <2>1, <2>2
<1>10. ProcessedWasTaken'
    <2>1. reportJob # NoJob => reportJob \in Rounds
        BY DEF TakenInv, TypeOK, Jobs
    <2> QED BY <1>1, <1>4, <1>5, <2>1 DEF TakenInv, ProcessedWasTaken
<1> QED BY <1>9, <1>10 DEF TakenInv

LEMMA CommitTaken ==
    ASSUME TakenInv, TypeOK', NEW w \in Workers, Commit(w)
    PROVE  TakenInv'
<1> DEFINE h == hand[w]
<1>1. h # NoHand /\ h.outcome = "taken"
    BY DEF Commit, Commits, NoHand
<1>2. /\ h.event \in Events
      /\ taken[h.event] > 0
      /\ h.event[1] = "request" => job[h.event[2]] # "none"
    BY <1>1, HandParts DEF TakenInv, TakenHand
<1>3. /\ \A e \in Events : e # h.event => row'[e] = row[e]
      /\ reportJob' \in {reportJob, h.event[2]}
      /\ reportJob' # reportJob => h.event[1] = "request"
    BY DEF Commit, TakenInv, TypeOK
<1>4. /\ UNCHANGED <<job, taken>>
      /\ \A v \in Workers : hand'[v] # NoHand => hand'[v] = hand[v]
    BY DEF Commit, TakenInv, TypeOK
<1>5. ProcessedWasTaken'
    BY <1>2, <1>3, <1>4 DEF TakenInv, ProcessedWasTaken
<1>6. \A v \in Workers : hand'[v] # NoHand => TakenHand(hand[v])'
    BY <1>4, TakenKept
<1> QED BY <1>5, <1>6 DEF TakenInv

\* Every other step leaves the history, the report and the hands as they are,
\* or drops or loads a hand.
LEMMA OtherTaken ==
    ASSUME TakenInv, TypeOK', UNCHANGED <<reportJob, taken>>,
           \A k \in Rounds : job[k] # "none" => job'[k] # "none",
           \A e \in Events : row'[e].status = "processed" => row[e].status = "processed",
           \A w \in Workers : \/ hand'[w] = hand[w]
                              \/ hand'[w].outcome # "taken"
    PROVE  TakenInv'
<1>1. reportJob # NoJob => reportJob \in Rounds
    BY DEF TakenInv, TypeOK, Jobs
<1>2. ProcessedWasTaken'
    BY <1>1 DEF TakenInv, ProcessedWasTaken
<1>3. ASSUME NEW w \in Workers, hand'[w] # NoHand
      PROVE  TakenHand(hand[w])'
    <2>1. CASE hand'[w] = hand[w]
        BY <1>3, <2>1, TakenKept
    <2>2. CASE hand'[w].outcome # "taken"
        BY <2>2 DEF TakenHand
    <2> QED BY <2>1, <2>2
<1> QED BY <1>2, <1>3 DEF TakenInv

LEMMA TakenInductive == TakenInv /\ [Next]_vars => TakenInv'
<1> SUFFICES ASSUME TakenInv, [Next]_vars PROVE TakenInv'
    OBVIOUS
<1>1. TypeOK /\ TypeOK'
    BY TypesInductive DEF TakenInv
<1>2. CASE UNCHANGED vars
    BY <1>1, <1>2, OtherTaken DEF vars
<1>3. CASE Submit
    <2>1. \A e \in Events : row'[e].status = "processed" => row[e].status = "processed"
        BY <1>1, <1>3, EnqueuedRow DEF Submit, TypeOK, Jobs
    <2> QED BY <1>1, <1>3, <2>1, OtherTaken DEF Submit
<1>4. CASE Decide
    <2>1. \A e \in Events : row'[e].status = "processed" => row[e].status = "processed"
        BY <1>1, <1>4, EnqueuedRow DEF Decide, TypeOK
    <2> QED BY <1>1, <1>4, <2>1, OtherTaken DEF Decide
<1>5. ASSUME NEW w \in Workers, WorkerNext(w) \/ Crash(w)
      PROVE  TakenInv'
    <2>1. CASE Claim(w)
        <3>1. \A e \in Events : row'[e].status = "processed" => row[e].status = "processed"
            BY <1>1, <2>1, ClaimedRow DEF Claim, TypeOK
        <3> QED BY <1>1, <2>1, <3>1, OtherTaken DEF Claim
    <2>2. CASE Load(w)
        <3>1. \A v \in Workers : hand'[v] = hand[v] \/ hand'[v].outcome # "taken"
            BY <1>1, <2>2 DEF Load, TypeOK
        <3> QED BY <1>1, <2>2, <3>1, OtherTaken DEF Load
    <2>3. CASE RequestReview(w) \/ FileDisposition(w)
        BY <1>1, <2>3, CallTaken
    <2>4. CASE Refused(w)
        <3>1. hand[w] # NoHand
            BY <2>4 DEF Refused, NoHand
        <3>2. \A v \in Workers : hand'[v] = hand[v] \/ hand'[v].outcome # "taken"
            BY <1>1, <2>4, <3>1, OutcomeType DEF Refused
        <3> QED BY <1>1, <2>4, <3>2, OtherTaken DEF Refused
    <2>5. CASE Commit(w)
        BY <1>1, <2>5, CommitTaken
    <2>6. CASE Fail(w)
        <3>1. hand[w] # NoHand
            BY <2>6 DEF Fail, NoHand
        <3>2. \A e \in Events : row'[e].status = "processed" => row[e].status = "processed"
            BY <1>1, <2>6, <3>1, HandParts, EndedRow DEF Fail, TypeOK, Jobs
        <3>3. \A v \in Workers : hand'[v] = hand[v] \/ hand'[v].outcome # "taken"
            BY <1>1, <2>6 DEF Fail, TypeOK, NoHand
        <3> QED BY <1>1, <2>6, <3>2, <3>3, OtherTaken DEF Fail
    <2>7. CASE Finish(w) \/ Crash(w)
        <3>1. \A v \in Workers : hand'[v] = hand[v] \/ hand'[v].outcome # "taken"
            BY <1>1, <2>7 DEF Finish, Crash, Stop, TypeOK, NoHand
        <3> QED BY <1>1, <2>7, <3>1, OtherTaken DEF Finish, Crash, Stop
    <2> QED BY <1>5, <2>1, <2>2, <2>3, <2>4, <2>5, <2>6, <2>7 DEF WorkerNext
<1>6. ASSUME NEW e \in Events, Passing(e)
      PROVE  TakenInv'
    <2>1. \A f \in Events : row'[f].status = "processed" => row[f].status = "processed"
        BY <1>1, <1>6, PassingTypes
    <2> QED BY <1>1, <1>6, <2>1, OtherTaken DEF Passing, LeaseExpires, BackoffEnds
<1>7. ASSUME NEW k \in Rounds, NEW how \in {"completed", "failed"}, JobEnds(k, how)
      PROVE  TakenInv'
    BY <1>1, <1>7, OtherTaken DEF JobEnds, TypeOK
<1> QED BY <1>2, <1>3, <1>4, <1>5, <1>6, <1>7 DEF Next, Passing

\* What the outbox calls processed was taken by the service, and the report
\* never names a review that the service does not have.
THEOREM ProcessedEventsWereTaken == Spec => []ProcessedWasTaken
<1>1. TakenInv => ProcessedWasTaken
    BY DEF TakenInv
<1> QED BY <1>1, InitTaken, TakenInductive, PTL DEF Spec

-----------------------------------------------------------------------------
(***************************************************************************)
(* How often an event is delivered.  Every attempt that was counted is     *)
(* either still ahead of a worker or has reached the service at most once. *)
(***************************************************************************)
Unsent(e) ==
    { w \in Workers :
        \/ e \in batch[w]
        \/ hand[w].outcome = "loaded" /\ hand[w].event = e }

\* Rows that were never enqueued have no attempts and nobody works on them.
RowsExist ==
    /\ \A e \in Events : row[e].status = "absent" => row[e].attempts = 0
    /\ \A e \in Events : e[2] > round => row[e].status = "absent"
    /\ \A w \in Workers : \A e \in batch[w] : row[e].status # "absent"
    /\ \A w \in Workers : hand[w] # NoHand => row[hand[w].event].status # "absent"

\* A worker has nothing left over from an earlier run, and does not hold an
\* event that is still in its batch.
WorkersAreTidy ==
    \A w \in Workers :
        /\ pc[w] = "idle" => batch[w] = {} /\ hand[w] = NoHand
        /\ hand[w] # NoHand => hand[w].event \notin batch[w]

CountInv ==
    /\ TypeOK
    /\ RowsExist
    /\ WorkersAreTidy
    /\ \A e \in Events : taken[e] + Cardinality(Unsent(e)) <= row[e].attempts

LEMMA UnsentIsFinite ==
    ASSUME NEW e \in Events
    PROVE  IsFiniteSet(Unsent(e)) /\ Cardinality(Unsent(e)) \in Nat
<1>1. Unsent(e) \in SUBSET Workers
    BY DEF Unsent
<1> QED BY <1>1, OutboxAssumption, FS_Subset, FS_CardinalityType

LEMMA UnsentIsFiniteNext ==
    ASSUME NEW e \in Events
    PROVE  IsFiniteSet(Unsent(e)') /\ Cardinality(Unsent(e)') \in Nat
<1>1. Unsent(e)' \in SUBSET Workers
    BY DEF Unsent
<1> QED BY <1>1, OutboxAssumption, FS_Subset, FS_CardinalityType

LEMMA InitCount == Init => CountInv
<1> SUFFICES ASSUME Init PROVE CountInv
    OBVIOUS
<1>1. \A e \in Events : Unsent(e) = {}
    BY DEF Init, Unsent, NoHand
<1>2. \A e \in Events : row[e] = NoRow /\ taken[e] = 0
    BY DEF Init
<1>3. \A e \in Events : taken[e] + Cardinality(Unsent(e)) <= row[e].attempts
    BY <1>1, <1>2, FS_EmptySet DEF NoRow
<1>4. RowsExist
    BY <1>2 DEF Init, RowsExist, NoRow
<1>5. WorkersAreTidy
    BY DEF Init, WorkersAreTidy
<1> QED BY <1>3, <1>4, <1>5, InitTypes DEF CountInv

\* A step that claims nothing and delivers nothing: fewer claims are left, or
\* as many.
LEMMA CountKept ==
    ASSUME CountInv, taken' = taken, NEW e \in Events,
           row'[e].attempts = row[e].attempts,
           Unsent(e)' \subseteq Unsent(e)
    PROVE  (taken[e] + Cardinality(Unsent(e)) <= row[e].attempts)'
<1>1. Cardinality(Unsent(e)') <= Cardinality(Unsent(e))
    BY UnsentIsFinite, FS_Subset
<1>2. taken[e] \in Nat /\ row[e].attempts \in Nat
    BY DEF CountInv, TypeOK, Row
<1>3. taken[e] + Cardinality(Unsent(e)) <= row[e].attempts
    BY DEF CountInv
<1> QED BY <1>1, <1>2, <1>3, UnsentIsFinite, UnsentIsFiniteNext

\* Steps that do not touch the batches and hands, and change only columns a
\* claim does not look at.
LEMMA ColumnsCount ==
    ASSUME CountInv, TypeOK', UNCHANGED <<round, pc, batch, hand, taken>>,
           \A e \in Events : /\ row'[e].attempts = row[e].attempts
                             /\ row'[e].status = row[e].status
    PROVE  CountInv'
<1>1. \A e \in Events : Unsent(e)' = Unsent(e)
    BY DEF Unsent
<1>2. \A e \in Events : (taken[e] + Cardinality(Unsent(e)) <= row[e].attempts)'
    BY <1>1, CountKept
<1>3. \A w \in Workers : hand[w] # NoHand => hand[w].event \in Events
    BY HandParts DEF CountInv
<1>4. \A w \in Workers : batch[w] \subseteq Events
    BY DEF CountInv, TypeOK
<1>5. RowsExist'
    BY <1>3, <1>4 DEF CountInv, RowsExist
<1>6. WorkersAreTidy'
    BY DEF CountInv, WorkersAreTidy
<1> QED BY <1>2, <1>5, <1>6 DEF CountInv

\* A handler enqueues an event that did not exist: nobody works on it.
LEMMA EnqueueCount ==
    ASSUME CountInv, TypeOK', UNCHANGED <<pc, batch, hand, taken>>,
           NEW e \in Events, row[e].status = "absent", e[2] <= round',
           row'[e].status = "pending", row'[e].attempts = 0,
           \A f \in Events : f # e => row'[f] = row[f],
           round' >= round
    PROVE  CountInv'
<1>1. \A f \in Events : Unsent(f)' = Unsent(f)
    BY DEF Unsent
<1>2. \A f \in Events : row'[f].attempts = row[f].attempts
    BY DEF CountInv, RowsExist
<1>3. \A f \in Events : (taken[f] + Cardinality(Unsent(f)) <= row[f].attempts)'
    BY <1>1, <1>2, CountKept
<1>4. \A w \in Workers : hand[w] # NoHand => hand[w].event \in Events
    BY HandParts DEF CountInv
<1>5. \A w \in Workers : batch[w] \subseteq Events
    BY DEF CountInv, TypeOK
<1>6. \A f \in Events : f[2] > round' => f # e /\ f[2] > round
    BY EventParts DEF CountInv, TypeOK, Rounds
<1>7. RowsExist'
    BY <1>4, <1>5, <1>6 DEF CountInv, RowsExist
<1>8. WorkersAreTidy'
    BY DEF CountInv, WorkersAreTidy
<1> QED BY <1>3, <1>7, <1>8 DEF CountInv

LEMMA ClaimCount ==
    ASSUME CountInv, TypeOK', NEW w \in Workers, Claim(w)
    PROVE  CountInv'
<1>1. PICK S \in SUBSET { e \in Events : Claimable(row[e]) } :
          /\ row' = [e \in Events |-> IF e \in S THEN Claimed(row[e], w) ELSE row[e]]
          /\ batch' = [batch EXCEPT ![w] = S]
    BY DEF Claim
<1>2. /\ pc[w] = "idle" /\ batch[w] = {} /\ hand[w] = NoHand
      /\ UNCHANGED <<round, hand, taken>>
    BY DEF Claim, CountInv, WorkersAreTidy
<1>3. /\ batch'[w] = S
      /\ \A v \in Workers : v # w => batch'[v] = batch[v]
      /\ pc'[w] = "delivering"
      /\ \A v \in Workers : v # w => pc'[v] = pc[v]
    BY <1>1 DEF Claim, CountInv, TypeOK
<1>4. \A e \in S : /\ row[e].status # "absent"
                   /\ row'[e].status # "absent"
                   /\ row'[e].attempts = row[e].attempts + 1
    BY <1>1, ClaimedRow DEF Claimable, CountInv, TypeOK
<1>5. \A e \in Events : e \notin S => row'[e] = row[e]
    BY <1>1
<1>6. ASSUME NEW e \in Events
      PROVE  (taken[e] + Cardinality(Unsent(e)) <= row[e].attempts)'
    <2>1. CASE e \in S
        <3>1. Unsent(e)' = Unsent(e) \cup {w} /\ w \notin Unsent(e)
            BY <1>2, <1>3, <2>1 DEF Unsent, NoHand
        <3>2. Cardinality(Unsent(e)') = Cardinality(Unsent(e)) + 1
            BY <3>1, UnsentIsFinite, FS_AddElement
        <3>3. taken[e] \in Nat /\ row[e].attempts \in Nat
            BY DEF CountInv, TypeOK, Row
        <3>4. taken[e] + Cardinality(Unsent(e)) <= row[e].attempts
            BY DEF CountInv
        <3> QED BY <1>2, <1>4, <2>1, <3>2, <3>3, <3>4, UnsentIsFinite
    <2>2. CASE e \notin S
        <3>1. Unsent(e)' \subseteq Unsent(e)
            BY <1>2, <1>3, <2>2 DEF Unsent
        <3> QED BY <1>2, <1>5, <2>2, <3>1, CountKept
    <2> QED BY <2>1, <2>2
<1>7. \A v \in Workers : hand[v] # NoHand => hand[v].event \in Events
    BY HandParts DEF CountInv
<1>8. \A v \in Workers : batch[v] \subseteq Events
    BY DEF CountInv, TypeOK
<1>9. RowsExist'
    <2>1. \A e \in Events : row'[e].status = "absent" <=> row[e].status = "absent"
        BY <1>4, <1>5
    <2>2. \A e \in Events : row'[e].status = "absent" => row'[e].attempts = row[e].attempts
        BY <1>4, <1>5
    <2>3. \A v \in Workers : \A e \in batch'[v] : row'[e].status # "absent"
        BY <1>3, <1>4, <1>8, <2>1 DEF CountInv, RowsExist
    <2> QED BY <1>2, <1>7, <2>1, <2>2, <2>3 DEF CountInv, RowsExist
<1>10. WorkersAreTidy'
    BY <1>2, <1>3 DEF CountInv, WorkersAreTidy
<1> QED BY <1>6, <1>9, <1>10 DEF CountInv

LEMMA LoadCount ==
    ASSUME CountInv, TypeOK', NEW w \in Workers, Load(w)
    PROVE  CountInv'
<1>1. PICK e \in batch[w] :
          /\ batch' = [batch EXCEPT ![w] = @ \ {e}]
          /\ hand' = IF row[e].owner = w
                     THEN [hand EXCEPT ![w] = [event |-> e, copy |-> row[e],
                                               reportJob |-> reportJob,
                                               outcome |-> "loaded"]]
                     ELSE hand
    BY DEF Load
<1>2. /\ e \in Events
      /\ hand[w] = NoHand
      /\ pc[w] = "delivering"
      /\ UNCHANGED <<round, row, pc, taken>>
    BY DEF Load, CountInv, TypeOK
<1>3. /\ batch'[w] = batch[w] \ {e}
      /\ \A v \in Workers : v # w => batch'[v] = batch[v] /\ hand'[v] = hand[v]
      /\ hand'[w] # NoHand => hand'[w].event = e
    BY <1>1, <1>2 DEF CountInv, TypeOK
<1>4. \A f \in Events : Unsent(f)' \subseteq Unsent(f)
    BY <1>2, <1>3 DEF Unsent, NoHand
<1>5. \A f \in Events : (taken[f] + Cardinality(Unsent(f)) <= row[f].attempts)'
    BY <1>2, <1>4, CountKept
<1>6. RowsExist'
    BY <1>2, <1>3 DEF CountInv, RowsExist
<1>7. WorkersAreTidy'
    BY <1>2, <1>3 DEF CountInv, WorkersAreTidy
<1> QED BY <1>5, <1>6, <1>7 DEF CountInv

\* A call reaches the service: the worker no longer holds the event unsent.
LEMMA CallCount ==
    ASSUME CountInv, TypeOK', NEW w \in Workers, RequestReview(w) \/ FileDisposition(w)
    PROVE  CountInv'
<1> DEFINE e == hand[w].event
<1>1. /\ hand[w] # NoHand /\ hand[w].outcome = "loaded"
      /\ UNCHANGED <<round, row, pc, batch>>
    BY DEF RequestReview, FileDisposition, NoHand
<1>2. e \in Events
    BY <1>1, HandParts DEF CountInv
<1>3. PICK o \in {"taken", "raised"} : Outcome(w, o)
    BY DEF RequestReview, FileDisposition
<1>4. /\ hand'[w].event = e /\ hand'[w].outcome = o
      /\ \A v \in Workers : v # w => hand'[v] = hand[v]
    BY <1>1, <1>3, OutcomeType DEF CountInv
<1>5. /\ taken'[e] = taken[e] + 1
      /\ \A f \in Events : f # e => taken'[f] = taken[f]
    BY <1>2 DEF RequestReview, FileDisposition, CountInv, TypeOK
<1>6. ASSUME NEW f \in Events
      PROVE  (taken[f] + Cardinality(Unsent(f)) <= row[f].attempts)'
    <2>1. /\ taken[f] \in Nat /\ row[f].attempts \in Nat
          /\ taken[f] + Cardinality(Unsent(f)) <= row[f].attempts
        BY DEF CountInv, TypeOK, Row
    <2>2. CASE f = e
        <3>1. Unsent(f)' = Unsent(f) \ {w} /\ w \in Unsent(f)
            BY <1>1, <1>3, <1>4, <2>2 DEF Unsent, CountInv, WorkersAreTidy
        <3>2. Cardinality(Unsent(f)') = Cardinality(Unsent(f)) - 1
            BY <3>1, UnsentIsFinite, FS_RemoveElement
        <3> QED BY <1>1, <1>5, <2>1, <2>2, <3>2, UnsentIsFinite
    <2>3. CASE f # e
        <3>1. Unsent(f)' = Unsent(f)
            BY <1>1, <1>3, <1>4, <2>3 DEF Unsent
        <3> QED BY <1>1, <1>5, <2>1, <2>3, <3>1
    <2> QED BY <2>2, <2>3
<1>7. RowsExist'
    BY <1>1, <1>4 DEF CountInv, RowsExist
<1>8. WorkersAreTidy'
    BY <1>1, <1>4 DEF CountInv, WorkersAreTidy
<1> QED BY <1>6, <1>7, <1>8 DEF CountInv

\* The call is refused, or the delivery or the whole run ends.
LEMMA EndCount ==
    ASSUME CountInv, TypeOK', NEW w \in Workers, UNCHANGED <<round, taken>>,
           \A v \in Workers : v # w => UNCHANGED <<pc[v], batch[v], hand[v]>>,
           \/ batch'[w] = batch[w] /\ pc'[w] = pc[w]
           \/ batch'[w] = {} /\ hand'[w] = NoHand,
           \/ hand'[w] = NoHand
           \/ /\ hand[w] # NoHand
              /\ hand'[w].event = hand[w].event
              /\ hand'[w].outcome # "loaded",
           \A e \in Events : /\ row'[e].attempts = row[e].attempts
                             /\ row'[e].status = "absent" <=> row[e].status = "absent"
    PROVE  CountInv'
<1>1. \A e \in Events : Unsent(e)' \subseteq Unsent(e)
    BY DEF Unsent, NoHand
<1>2. \A e \in Events : (taken[e] + Cardinality(Unsent(e)) <= row[e].attempts)'
    BY <1>1, CountKept
<1>3. \A v \in Workers : hand[v] # NoHand => hand[v].event \in Events
    BY HandParts DEF CountInv
<1>4. \A v \in Workers : batch[v] \subseteq Events
    BY DEF CountInv, TypeOK
<1>5. RowsExist'
    BY <1>3, <1>4 DEF CountInv, RowsExist
<1>6. WorkersAreTidy'
    BY DEF CountInv, WorkersAreTidy
<1> QED BY <1>2, <1>5, <1>6 DEF CountInv

LEMMA CountInductive == CountInv /\ [Next]_vars => CountInv'
<1> SUFFICES ASSUME CountInv, [Next]_vars PROVE CountInv'
    OBVIOUS
<1>1. TypeOK /\ TypeOK'
    BY TypesInductive DEF CountInv
<1>2. CASE UNCHANGED vars
    BY <1>1, <1>2, ColumnsCount DEF vars
<1>3. CASE Submit
    <2> DEFINE e == <<"request", round + 1>>
    <2>1. round + 1 \in Rounds
        BY <1>1, <1>3, OutboxAssumption DEF Submit, TypeOK, Rounds
    <2>2. e \in Events /\ e[2] = round + 1
        BY <2>1, RoundEvents
    <2>3. row[e].status = "absent"
        BY <1>1, <2>2 DEF CountInv, RowsExist, TypeOK
    <2>4. /\ row'[e] = Enqueued(NoJob)
          /\ \A f \in Events : f # e => row'[f] = row[f]
        BY <1>1, <1>3, <2>2 DEF Submit, TypeOK
    <2>5. row'[e].status = "pending" /\ row'[e].attempts = 0
        BY <2>4, EnqueuedRow DEF Jobs
    <2>6. e[2] <= round' /\ round' >= round
        BY <1>1, <1>3, <2>2 DEF Submit, TypeOK
    <2> QED BY <1>1, <1>3, <2>2, <2>3, <2>4, <2>5, <2>6, EnqueueCount DEF Submit
<1>4. CASE Decide
    <2> DEFINE e == <<"disposition", round>>
    <2>1. round \in Rounds
        BY <1>1, <1>4, OutboxAssumption DEF Decide, TypeOK, Rounds
    <2>2. e \in Events /\ e[2] = round
        BY <2>1, RoundEvents
    <2>3. /\ row[e].status = "absent"
          /\ row'[e] = Enqueued(reportJob)
          /\ \A f \in Events : f # e => row'[f] = row[f]
        BY <1>1, <1>4, <2>2 DEF Decide, TypeOK
    <2>4. row'[e].status = "pending" /\ row'[e].attempts = 0
        BY <1>1, <2>3, EnqueuedRow DEF TypeOK
    <2>5. e[2] <= round' /\ round' >= round
        BY <1>1, <1>4, <2>2 DEF Decide, TypeOK
    <2> QED BY <1>1, <1>4, <2>2, <2>3, <2>4, <2>5, EnqueueCount DEF Decide
<1>5. ASSUME NEW w \in Workers, WorkerNext(w) \/ Crash(w)
      PROVE  CountInv'
    <2>1. CASE Claim(w)
        BY <1>1, <2>1, ClaimCount
    <2>2. CASE Load(w)
        BY <1>1, <2>2, LoadCount
    <2>3. CASE RequestReview(w) \/ FileDisposition(w)
        BY <1>1, <2>3, CallCount
    <2>4. CASE Refused(w)
        <3>1. hand[w] # NoHand
            BY <2>4 DEF Refused, NoHand
        <3>2. /\ hand'[w].event = hand[w].event
              /\ hand'[w].outcome # "loaded"
              /\ \A v \in Workers : v # w => hand'[v] = hand[v]
            BY <1>1, <2>4, <3>1, OutcomeType DEF Refused
        <3> QED BY <1>1, <2>4, <3>1, <3>2, EndCount DEF Refused
    <2>5. CASE Commit(w) \/ Fail(w)
        <3>1. hand[w] # NoHand
            BY <2>5 DEF Commit, Commits, Fail, NoHand
        <3>2. /\ UNCHANGED <<round, pc, batch, taken>>
              /\ hand'[w] = NoHand
              /\ \A v \in Workers : v # w => hand'[v] = hand[v]
            BY <1>1, <2>5 DEF Commit, Fail, TypeOK
        <3>3. hand[w].event \in Events /\ row[hand[w].event] \in Row /\ JobOf(hand[w]) \in Jobs
            BY <1>1, <3>1, HandParts
        <3>4. \E id \in Jobs : row'[hand[w].event] \in
                  {Processed(row[hand[w].event], id), Failed(row[hand[w].event])}
            BY <1>1, <2>5, <3>3 DEF Commit, Fail, TypeOK, Jobs
        <3>5. /\ row'[hand[w].event].attempts = row[hand[w].event].attempts
              /\ row'[hand[w].event].status # "absent"
            BY <3>3, <3>4, EndedRow
        <3>6. row[hand[w].event].status # "absent"
            BY <3>1 DEF CountInv, RowsExist
        <3>7. \A e \in Events : e # hand[w].event => row'[e] = row[e]
            BY <1>1, <2>5 DEF Commit, Fail, TypeOK
        <3>8. \A e \in Events : /\ row'[e].attempts = row[e].attempts
                                /\ row'[e].status = "absent" <=> row[e].status = "absent"
            BY <3>5, <3>6, <3>7
        <3> QED BY <1>1, <3>2, <3>8, EndCount
    <2>6. CASE Finish(w) \/ Crash(w)
        <3>1. /\ batch'[w] = {} /\ hand'[w] = NoHand
              /\ UNCHANGED <<round, row, taken>>
              /\ \A v \in Workers : v # w => UNCHANGED <<pc[v], batch[v], hand[v]>>
            BY <1>1, <2>6 DEF Finish, Crash, Stop, TypeOK
        <3> QED BY <1>1, <3>1, EndCount
    <2> QED BY <1>5, <2>1, <2>2, <2>3, <2>4, <2>5, <2>6 DEF WorkerNext
<1>6. ASSUME NEW e \in Events, Passing(e)
      PROVE  CountInv'
    BY <1>1, <1>6, PassingTypes, ColumnsCount DEF Passing, LeaseExpires, BackoffEnds
<1>7. ASSUME NEW k \in Rounds, NEW how \in {"completed", "failed"}, JobEnds(k, how)
      PROVE  CountInv'
    BY <1>1, <1>7, ColumnsCount DEF JobEnds
<1> QED BY <1>2, <1>3, <1>4, <1>5, <1>6, <1>7 DEF Next, Passing

\* However answers are lost, leases taken over and failures late, an event
\* reaches the service no more often than attempts were counted for it.
THEOREM DeliveriesAreBounded == Spec => []TakenWithinAttempts
<1>1. CountInv => TakenWithinAttempts
    <2> SUFFICES ASSUME CountInv, NEW e \in Events
                 PROVE  taken[e] <= row[e].attempts
        BY DEF TakenWithinAttempts
    <2>1. taken[e] \in Nat /\ row[e].attempts \in Nat
        BY DEF CountInv, TypeOK, Row
    <2>2. taken[e] + Cardinality(Unsent(e)) <= row[e].attempts
        BY DEF CountInv
    <2> QED BY <2>1, <2>2, UnsentIsFinite
<1> QED BY <1>1, InitCount, CountInductive, PTL DEF Spec

=============================================================================
