--------------------------- MODULE EmailDelivery ---------------------------
(***************************************************************************)
(* The delivery of queued emails.  Rows of the notifications table are     *)
(* claimed under a lease, sent one by one and marked, by several processes *)
(* at a time: the scheduled worker and the background tasks of the API.    *)
(* A process may die at any point.                                         *)
(*                                                                         *)
(* Source: backend/app/services/notification_delivery_service.py.          *)
(*                                                                         *)
(* A process commits after it claims and after each mark, so the steps     *)
(* here are those between which other processes run.  It works on the copy *)
(* of a row that its session loaded before the mail was sent (the identity *)
(* map), and the row's version column is compared when the copy is         *)
(* flushed.  The UPDATE of a claim does not touch the version.             *)
(***************************************************************************)
EXTENDS Naturals, FiniteSets

CONSTANTS
    Notifications,  \* the email rows
    Workers,        \* processes that deliver
    MaxAttempts     \* _MAX_DELIVERY_ATTEMPTS

ASSUME AttemptsAssumption == MaxAttempts \in Nat \ {0}
ASSUME WorkersAssumption == IsFiniteSet(Workers)

VARIABLES
    row,        \* the notifications table
    reachable,  \* the rows whose recipient is an active user
    pc,         \* what each process does
    seen,       \* the rows its SELECT found, as it found them
    batch,      \* its claims that it has not tried yet
    hand,       \* the claim it is working on, and its copy of the row
    accepted    \* history: how many copies of each mail the provider took

vars == <<row, reachable, pc, seen, batch, hand, accepted>>

-----------------------------------------------------------------------------
(***************************************************************************)
(* Every claim draws a fresh token and counts one attempt, so the number   *)
(* of the attempt names the token.                                         *)
(***************************************************************************)
NoToken == 0
Tokens == 1..MaxAttempts

Row ==
    [ status   : {"absent", "pending", "sending", "failed", "sent"},
      attempts : 0..MaxAttempts,
      token    : {NoToken} \cup Tokens,           \* delivery_claim_token
      lease    : {"none", "live", "expired"},     \* delivery_lease_expires_at
      due      : BOOLEAN,                         \* next_attempt_at has passed
      version  : Nat ]

Claims == [n : Notifications, token : Tokens]

\* Between runs; rows selected; rows claimed; in the loop over the claims,
\* with a connection to the provider or without.
Steps == {"idle", "selected", "claimed", "delivering", "refusing"}

NoHand == [outcome |-> "none"]
Hand ==
    [ claim   : Claims,
      copy    : Row,                                \* the session's copy of the row
      outcome : {"unsent", "accepted", "refused"} ] \* what the provider did

NoRow ==
    [status |-> "absent", attempts |-> 0, token |-> NoToken, lease |-> "none",
     due |-> FALSE, version |-> 0]

\* The end of a process or of its run.
Stop(w) ==
    /\ pc' = [pc EXCEPT ![w] = "idle"]
    /\ seen' = [seen EXCEPT ![w] = {}]
    /\ batch' = [batch EXCEPT ![w] = {}]
    /\ hand' = [hand EXCEPT ![w] = NoHand]

-----------------------------------------------------------------------------
\* notify(..., channels=("in_app", "email")) in some handler's transaction.
Notify(n) ==
    /\ row[n].status = "absent"
    /\ row' = [row EXCEPT ![n] = [@ EXCEPT !.status = "pending", !.due = TRUE]]
    /\ UNCHANGED <<reachable, pc, seen, batch, hand, accepted>>

\* Fault: an abandoned claim is never taken over.
ClaimableOnce(r) ==
    /\ r.attempts < MaxAttempts
    /\ r.status \in {"pending", "failed"} /\ r.due

\* Fault: the number of attempts has no limit.
ClaimableForever(r) ==
    \/ r.status \in {"pending", "failed"} /\ r.due
    \/ r.status = "sending" /\ r.lease = "expired"

Claimable(r) ==
    /\ r.attempts < MaxAttempts
    /\ \/ r.status \in {"pending", "failed"} /\ r.due
       \/ r.status = "sending" /\ r.lease = "expired"

\* The SELECT of _claim_pending_email_notifications.
SelectRows(w) ==
    LET found == { n \in Notifications : n \in reachable /\ Claimable(row[n]) } IN
    /\ pc[w] = "idle"
    /\ found # {}
    /\ pc' = [pc EXCEPT ![w] = "selected"]
    /\ seen' = [seen EXCEPT ![w] = { [n |-> n, row |-> row[n]] : n \in found }]
    /\ UNCHANGED <<row, reachable, batch, hand, accepted>>

\* Fault: the UPDATE names the row and nothing else.
StillClaimableById(s) == s.row.attempts < MaxAttempts

\* The WHERE of the UPDATE compares with the time of the SELECT: a row that
\* was claimed or marked since has a later lease or a later next attempt.
StillClaimable(s) == row[s.n] = s.row /\ Claimable(s.row)

\* Fault: an attempt counts when it fails, not when it starts.
ClaimedUncounted(r) ==
    [r EXCEPT !.status = "sending", !.token = r.attempts + 1, !.lease = "live"]

Claimed(r) ==
    [status |-> "sending", attempts |-> r.attempts + 1, token |-> r.attempts + 1,
     lease |-> "live", due |-> r.due, version |-> r.version]

\* The UPDATEs and their commit.
ClaimRows(w) ==
    LET claimed == { s \in seen[w] : StillClaimable(s) }
        ns == { s.n : s \in claimed } IN
    /\ pc[w] = "selected"
    /\ row' = [n \in Notifications |-> IF n \in ns THEN Claimed(row[n]) ELSE row[n]]
    /\ pc' = [pc EXCEPT ![w] = IF claimed = {} THEN "idle" ELSE "claimed"]
    /\ batch' = [batch EXCEPT ![w] = { [n |-> n, token |-> row'[n].token] : n \in ns }]
    /\ seen' = [seen EXCEPT ![w] = {}]
    /\ UNCHANGED <<reachable, hand, accepted>>

-----------------------------------------------------------------------------
(***************************************************************************)
(* The loop over the claims.  When the provider cannot be reached at all,  *)
(* each claim is marked as failed without being sent.                      *)
(***************************************************************************)
Connect(w) ==
    /\ pc[w] = "claimed"
    /\ \E mode \in {"delivering", "refusing"} : pc' = [pc EXCEPT ![w] = mode]
    /\ UNCHANGED <<row, reachable, seen, batch, hand, accepted>>

\* session.get: the message is made from this copy, and it is what
\* _mark_delivery finds again in the session.
Load(w) ==
    /\ pc[w] \in {"delivering", "refusing"}
    /\ hand[w] = NoHand
    /\ \E c \in batch[w] :
          /\ batch' = [batch EXCEPT ![w] = @ \ {c}]
          /\ hand' = [hand EXCEPT ![w] =
                [claim |-> c, copy |-> row[c.n],
                 outcome |-> IF pc[w] = "refusing" THEN "refused" ELSE "unsent"]]
    /\ UNCHANGED <<row, reachable, pc, seen, accepted>>

\* The provider takes the mail or refuses it; the lease is not looked at.
Send(w, outcome) ==
    /\ hand[w].outcome = "unsent"
    /\ hand' = [hand EXCEPT ![w] = [@ EXCEPT !.outcome = outcome]]
    /\ accepted' = IF outcome = "accepted"
                   THEN [accepted EXCEPT ![hand[w].claim.n] = @ + 1]
                   ELSE accepted
    /\ UNCHANGED <<row, reachable, pc, seen, batch>>

\* Fault: what the provider answered is not looked at.
MarkedAsSent(r, outcome) ==
    [r EXCEPT !.status = "sent", !.token = NoToken, !.lease = "none",
              !.due = FALSE, !.version = @ + 1]

\* The columns _mark_delivery writes; next_attempt_at lies in the future, or
\* is NULL after the last attempt.
Marked(r, outcome) ==
    [status |-> IF outcome = "accepted" THEN "sent" ELSE "failed",
     attempts |-> r.attempts, token |-> NoToken, lease |-> "none",
     due |-> FALSE, version |-> r.version + 1]

\* Fault: the flush does not compare the version.
FlushesBlindly(h) == h.copy.token = h.claim.token

\* The copy still carries this claim, and nobody has flushed the row since.
Flushes(h) == h.copy.token = h.claim.token /\ h.copy.version = row[h.claim.n].version

\* _mark_delivery on a lease that the copy shows as its own.
Mark(w) ==
    LET h == hand[w] IN
    /\ h.outcome \in {"accepted", "refused"}
    /\ Flushes(h)
    /\ row' = [row EXCEPT ![h.claim.n] = Marked(@, h.outcome)]
    /\ hand' = [hand EXCEPT ![w] = NoHand]
    /\ UNCHANGED <<reachable, pc, seen, batch, accepted>>

\* The copy was loaded after somebody else had taken or ended the claim.
MarkForeign(w) ==
    LET h == hand[w] IN
    /\ h.outcome \in {"accepted", "refused"}
    /\ h.copy.token # h.claim.token
    /\ hand' = [hand EXCEPT ![w] = NoHand]
    /\ UNCHANGED <<row, reachable, pc, seen, batch, accepted>>

\* StaleDataError: the run ends with the rest of its batch unsent.
MarkStale(w) ==
    LET h == hand[w] IN
    /\ h.outcome \in {"accepted", "refused"}
    /\ h.copy.token = h.claim.token
    /\ ~Flushes(h)
    /\ Stop(w)
    /\ UNCHANGED <<row, reachable, accepted>>

Finish(w) ==
    /\ pc[w] \in {"delivering", "refusing"}
    /\ hand[w] = NoHand
    /\ batch[w] = {}
    /\ Stop(w)
    /\ UNCHANGED <<row, reachable, accepted>>

\* The process dies; an open transaction is rolled back.
Crash(w) ==
    /\ pc[w] # "idle"
    /\ Stop(w)
    /\ UNCHANGED <<row, reachable, accepted>>

-----------------------------------------------------------------------------
(***************************************************************************)
(* Time, and the administrators.                                           *)
(***************************************************************************)
LeaseExpires(n) ==
    /\ row[n].lease = "live"
    /\ row' = [row EXCEPT ![n] = [@ EXCEPT !.lease = "expired"]]
    /\ UNCHANGED <<reachable, pc, seen, batch, hand, accepted>>

BackoffEnds(n) ==
    /\ row[n].status = "failed"
    /\ ~row[n].due
    /\ row' = [row EXCEPT ![n] = [@ EXCEPT !.due = TRUE]]
    /\ UNCHANGED <<reachable, pc, seen, batch, hand, accepted>>

\* The recipient is suspended, deleted or made active again.
RecipientChanges(n) ==
    /\ reachable' = IF n \in reachable THEN reachable \ {n} ELSE reachable \cup {n}
    /\ UNCHANGED <<row, pc, seen, batch, hand, accepted>>

Init ==
    /\ row = [n \in Notifications |-> NoRow]
    /\ reachable = Notifications
    /\ pc = [w \in Workers |-> "idle"]
    /\ seen = [w \in Workers |-> {}]
    /\ batch = [w \in Workers |-> {}]
    /\ hand = [w \in Workers |-> NoHand]
    /\ accepted = [n \in Notifications |-> 0]

\* What a process does when it is let run.
WorkerNext(w) ==
    \/ SelectRows(w) \/ ClaimRows(w) \/ Connect(w) \/ Load(w)
    \/ \E outcome \in {"accepted", "refused"} : Send(w, outcome)
    \/ Mark(w) \/ MarkForeign(w) \/ MarkStale(w) \/ Finish(w)

Next ==
    \/ \E w \in Workers : WorkerNext(w) \/ Crash(w)
    \/ \E n \in Notifications :
          Notify(n) \/ LeaseExpires(n) \/ BackoffEnds(n) \/ RecipientChanges(n)

Spec == Init /\ [][Next]_vars

\* Processes are started again and again and run until they finish or die,
\* but do not die every time just before a claim is committed; clocks advance.
FairSpec ==
    /\ Spec
    /\ \A w \in Workers : WF_vars(WorkerNext(w)) /\ SF_vars(ClaimRows(w))
    /\ \A n \in Notifications : WF_vars(LeaseExpires(n)) /\ WF_vars(BackoffEnds(n))

-----------------------------------------------------------------------------
(***************************************************************************)
(* Correctness.                                                            *)
(***************************************************************************)

\* The columns and the state of the processes have their types.
TypeOK ==
    /\ row \in [Notifications -> Row]
    /\ reachable \subseteq Notifications
    /\ pc \in [Workers -> Steps]
    /\ seen \in [Workers -> SUBSET [n : Notifications, row : Row]]
    /\ batch \in [Workers -> SUBSET Claims]
    /\ hand \in [Workers -> {NoHand} \cup Hand]
    /\ accepted \in [Notifications -> Nat]

\* A mail that is recorded as sent was taken by the provider at least once:
\* no crash, takeover or refusal can make a lost mail look delivered.
SentWasAccepted ==
    \A n \in Notifications : row[n].status = "sent" => accepted[n] > 0

\* Retries and takeovers repeat a mail, but never beyond the attempts that
\* were counted for it.
CopiesWithinAttempts ==
    \A n \in Notifications : accepted[n] <= row[n].attempts

\* Once a mail is recorded as sent, no process that still holds an older
\* claim or an older copy of the row brings it back.
SentIsFinal ==
    [][\A n \in Notifications : row[n].status = "sent" => row'[n] = row[n]]_vars

\* A claim is only taken over when its lease has expired, however the SELECTs
\* and UPDATEs of two processes interleave.
LiveLeaseHolds ==
    [][\A n \in Notifications :
          row[n].lease = "live" => row'[n].token \in {row[n].token, NoToken}]_vars

\* Whatever dies on the way, a mail to an active user is sent in the end or
\* has used up its attempts.
EveryMailSettles ==
    \A n \in Notifications :
        row[n].status # "absent" ~>
            \/ row[n].status = "sent"
            \/ row[n].attempts = MaxAttempts
            \/ n \notin reachable

\* models/notification.py: "A process crash cannot leave a row indefinitely
\* in sending because another worker may reclaim it after the lease expires."
NoRowStuckSending ==
    \A n \in Notifications :
        row[n].status = "sending" ~> row[n].status # "sending" \/ n \notin reachable

\* _mark_delivery: "Finish only a lease owned by this worker, preventing
\* stale writes."
OnlyTheOwnerFinishes ==
    [][\A w \in Workers : Mark(w) =>
          row[hand[w].claim.n].token = hand[w].claim.token]_vars

=============================================================================
