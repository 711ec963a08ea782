------------------------ MODULE EmailDelivery_proofs ------------------------
(***************************************************************************)
(* What holds of EmailDelivery for any number of rows, processes and       *)
(* attempts.                                                               *)
(***************************************************************************)
EXTENDS EmailDelivery, FiniteSetTheorems, TLAPS

-----------------------------------------------------------------------------
(***************************************************************************)
(* Types.                                                                  *)
(***************************************************************************)

\* A claim keeps the row in its type and draws a real token.
LEMMA ClaimedRow ==
    ASSUME NEW r \in Row, Claimable(r)
    PROVE  Claimed(r) \in Row /\ Claimed(r).token \in Tokens
BY AttemptsAssumption DEF Row, Tokens, NoToken, Claimable, Claimed

\* A mark keeps the row in its type.
LEMMA MarkedRow ==
    ASSUME NEW r \in Row, NEW outcome
    PROVE  Marked(r, outcome) \in Row
BY DEF Row, NoToken, Marked

LEMMA InitTypes == Init => TypeOK
BY AttemptsAssumption DEF Init, TypeOK, NoRow, Row, Steps, NoToken, Tokens

LEMMA StopTypes ==
    ASSUME TypeOK, NEW w \in Workers, Stop(w)
    PROVE  /\ pc' \in [Workers -> Steps]
           /\ seen' \in [Workers -> SUBSET [n : Notifications, row : Row]]
           /\ batch' \in [Workers -> SUBSET Claims]
           /\ hand' \in [Workers -> {NoHand} \cup Hand]
BY DEF TypeOK, Stop, Steps

LEMMA WorkerTypes ==
    ASSUME TypeOK, NEW w \in Workers, WorkerNext(w) \/ Crash(w)
    PROVE  TypeOK'
<1> USE DEF TypeOK
<1>1. CASE SelectRows(w)
    <2>1. { [n |-> n, row |-> row[n]] :
              n \in { m \in Notifications : m \in reachable /\ Claimable(row[m]) } }
            \subseteq [n : Notifications, row : Row]
        OBVIOUS
    <2> QED BY <1>1, <2>1 DEF SelectRows, Steps
<1>2. CASE ClaimRows(w)
    <2> DEFINE claimed == { s \in seen[w] : StillClaimable(s) }
    <2> DEFINE ns == { s.n : s \in claimed }
    <2>1. \A n \in ns : n \in Notifications /\ Claimable(row[n])
        BY DEF StillClaimable
    <2>2. \A n \in ns : Claimed(row[n]) \in Row /\ Claimed(row[n]).token \in Tokens
        BY <2>1, ClaimedRow
    <2>3. row' = [n \in Notifications |-> IF n \in ns THEN Claimed(row[n]) ELSE row[n]]
        BY <1>2 DEF ClaimRows
    <2>4. row' \in [Notifications -> Row]
        BY <2>2, <2>3
    <2>5. \A n \in ns : [n |-> n, token |-> row'[n].token] \in Claims
        BY <2>1, <2>2, <2>3 DEF Claims
    <2>6. batch' \in [Workers -> SUBSET Claims]
        BY <1>2, <2>5 DEF ClaimRows
    <2> QED BY <1>2, <2>4, <2>6 DEF ClaimRows, Steps
<1>3. CASE Connect(w)
    BY <1>3 DEF Connect, Steps
<1>4. CASE Load(w)
    <2>1. PICK c \in batch[w] :
              /\ batch' = [batch EXCEPT ![w] = @ \ {c}]
              /\ hand' = [hand EXCEPT ![w] =
                    [claim |-> c, copy |-> row[c.n],
                     outcome |-> IF pc[w] = "refusing" THEN "refused" ELSE "unsent"]]
        BY <1>4 DEF Load
    <2>2. c \in Claims /\ row[c.n] \in Row
        BY DEF Claims
    <2> QED BY <1>4, <2>1, <2>2 DEF Load, Hand
<1>5. ASSUME NEW outcome \in {"accepted", "refused"}, Send(w, outcome)
      PROVE  TypeOK'
    <2>1. hand[w] \in Hand
        BY <1>5 DEF Send, NoHand, Hand
    <2>2. [hand[w] EXCEPT !.outcome = outcome] \in Hand /\ hand[w].claim.n \in Notifications
        BY <2>1 DEF Hand, Claims
    <2> QED BY <1>5, <2>2 DEF Send
<1>6. CASE Mark(w)
    <2>1. hand[w] \in Hand
        BY <1>6 DEF Mark, NoHand, Hand
    <2>2. row[hand[w].claim.n] \in Row
        BY <2>1 DEF Hand, Claims
    <2> QED BY <1>6, <2>2, MarkedRow DEF Mark
<1>7. CASE MarkForeign(w)
    BY <1>7 DEF MarkForeign
<1>8. CASE MarkStale(w) \/ Finish(w) \/ Crash(w)
    BY <1>8, StopTypes DEF MarkStale, Finish, Crash
<1> QED BY <1>1, <1>2, <1>3, <1>4, <1>5, <1>6, <1>7, <1>8 DEF WorkerNext

\* The columns of a row that time or an insertion changes.
Passing(n) == Notify(n) \/ LeaseExpires(n) \/ BackoffEnds(n)

LEMMA PassingTypes ==
    ASSUME TypeOK, NEW n \in Notifications, Passing(n) \/ RecipientChanges(n)
    PROVE  TypeOK'
<1>1. row[n] \in Row
    BY DEF TypeOK
<1>2. /\ [row[n] EXCEPT !.status = "pending", !.due = TRUE] \in Row
      /\ [row[n] EXCEPT !.lease = "expired"] \in Row
      /\ [row[n] EXCEPT !.due = TRUE] \in Row
    BY <1>1 DEF Row
<1>3. row' \in [Notifications -> Row]
    BY <1>2 DEF TypeOK, Passing, Notify, LeaseExpires, BackoffEnds, RecipientChanges
<1> QED BY <1>3 DEF TypeOK, Passing, Notify, LeaseExpires, BackoffEnds, RecipientChanges

\* The notifications table and the processes that work on it keep their
\* types: in particular no claim goes beyond the last attempt.
THEOREM TypeCorrect == Spec => []TypeOK
<1>1. TypeOK /\ [Next]_vars => TypeOK'
    <2> SUFFICES ASSUME TypeOK, [Next]_vars PROVE TypeOK'
        OBVIOUS
    <2>1. CASE UNCHANGED vars
        BY <2>1 DEF TypeOK, vars
    <2> QED BY <2>1, WorkerTypes, PassingTypes DEF Next, Passing
<1> QED BY <1>1, InitTypes, PTL DEF Spec

-----------------------------------------------------------------------------
(***************************************************************************)
(* The end of a delivery.  A copy is never newer than the row; once the    *)
(* row is sent, a copy of that very version no longer carries a claim, and *)
(* every other copy fails on the version.                                  *)
(***************************************************************************)
RowInv(n) ==
    /\ row[n].lease = "live" => row[n].status = "sending"
    /\ row[n].status = "sent" => row[n].token = NoToken /\ accepted[n] > 0

HandInv(h) ==
    /\ h.copy.version <= row[h.claim.n].version
    /\ /\ row[h.claim.n].status = "sent"
       /\ h.copy.version = row[h.claim.n].version
       => h.copy.token = NoToken
    /\ h.outcome = "accepted" => accepted[h.claim.n] > 0

DeliveryInv ==
    /\ TypeOK
    /\ \A n \in Notifications : RowInv(n)
    /\ \A w \in Workers : hand[w] # NoHand => HandInv(hand[w])

LEMMA InitDelivery == Init => DeliveryInv
BY InitTypes DEF Init, DeliveryInv, RowInv, NoRow

\* A hand with an outcome holds a claim.
LEMMA HeldHand ==
    ASSUME TypeOK, NEW w \in Workers, hand[w] # NoHand
    PROVE  /\ hand[w] \in Hand
           /\ hand[w].claim.n \in Notifications
           /\ hand[w].claim.token # NoToken
           /\ hand[w].copy \in Row
BY DEF TypeOK, Hand, Claims, Tokens, NoToken

\* No claim and no lapse of time disturbs what the hands hold.
LEMMA HandsKept ==
    ASSUME TypeOK, DeliveryInv, accepted' = accepted,
           row' \in [Notifications -> Row],
           \A n \in Notifications :
               /\ row'[n].version = row[n].version
               /\ row'[n].status = "sent" => row[n].status = "sent",
           NEW w \in Workers, hand[w] # NoHand, hand'[w] = hand[w]
    PROVE  HandInv(hand[w])'
BY HeldHand DEF DeliveryInv, HandInv

LEMMA StopDelivery ==
    ASSUME DeliveryInv, NEW w \in Workers, Stop(w), TypeOK',
           UNCHANGED <<row, reachable, accepted>>
    PROVE  DeliveryInv'
<1>1. \A n \in Notifications : RowInv(n)'
    BY DEF DeliveryInv, RowInv
<1>2. \A v \in Workers : hand'[v] # NoHand => hand'[v] = hand[v]
    BY DEF Stop, DeliveryInv, TypeOK
<1>3. \A v \in Workers : hand'[v] # NoHand => HandInv(hand[v])'
    BY <1>2 DEF DeliveryInv, HandInv
<1> QED BY <1>1, <1>2, <1>3 DEF DeliveryInv, HandInv

LEMMA ClaimDelivery ==
    ASSUME DeliveryInv, NEW w \in Workers, ClaimRows(w), TypeOK'
    PROVE  DeliveryInv'
<1> DEFINE ns == { s.n : s \in { t \in seen[w] : StillClaimable(t) } }
<1>1. row' = [n \in Notifications |-> IF n \in ns THEN Claimed(row[n]) ELSE row[n]]
    BY DEF ClaimRows
<1>2. \A n \in Notifications :
          /\ row'[n].version = row[n].version
          /\ row'[n].status = "sent" => row'[n] = row[n]
          /\ row'[n].lease = "live" => row'[n].status = "sending"
    BY <1>1 DEF Claimed, DeliveryInv, RowInv
<1>3. UNCHANGED <<hand, accepted>>
    BY DEF ClaimRows
<1>4. \A n \in Notifications : RowInv(n)'
    BY <1>2, <1>3 DEF DeliveryInv, RowInv
<1>5. \A v \in Workers : hand'[v] # NoHand => HandInv(hand[v])'
    BY <1>2, <1>3, HandsKept DEF DeliveryInv, TypeOK
<1> QED BY <1>3, <1>4, <1>5 DEF DeliveryInv, HandInv

LEMMA LoadDelivery ==
    ASSUME DeliveryInv, NEW w \in Workers, Load(w), TypeOK'
    PROVE  DeliveryInv'
<1>1. PICK c \in batch[w] :
          hand' = [hand EXCEPT ![w] =
                    [claim |-> c, copy |-> row[c.n],
                     outcome |-> IF pc[w] = "refusing" THEN "refused" ELSE "unsent"]]
    BY DEF Load
<1>2. c.n \in Notifications /\ row[c.n] \in Row
    BY DEF DeliveryInv, TypeOK, Claims
<1>3. UNCHANGED <<row, accepted>>
    BY DEF Load
<1>4. \A n \in Notifications : RowInv(n)'
    BY <1>3 DEF DeliveryInv, RowInv
<1>5. ASSUME NEW v \in Workers, hand'[v] # NoHand
      PROVE  HandInv(hand[v])'
    <2>1. CASE v = w
        <3>1. /\ hand'[w].claim = c
              /\ hand'[w].copy = row[c.n]
              /\ hand'[w].outcome # "accepted"
            BY <1>1 DEF DeliveryInv, TypeOK
        <3>2. row[c.n].version <= row[c.n].version
            BY <1>2 DEF Row
        <3> QED BY <1>2, <1>3, <2>1, <3>1, <3>2 DEF HandInv, DeliveryInv, RowInv
    <2>2. CASE v # w
        BY <1>1, <1>3, <1>5, <2>2 DEF HandInv, DeliveryInv, TypeOK
    <2> QED BY <2>1, <2>2
<1> QED BY <1>4, <1>5 DEF DeliveryInv

LEMMA SendDelivery ==
    ASSUME DeliveryInv, NEW w \in Workers, NEW outcome \in {"accepted", "refused"},
           Send(w, outcome), TypeOK'
    PROVE  DeliveryInv'
<1> DEFINE m == hand[w].claim.n
<1>1. hand[w] # NoHand
    BY DEF Send, NoHand
<1>2. hand[w] \in Hand /\ m \in Notifications
    BY <1>1, HeldHand DEF DeliveryInv
<1>3. \A n \in Notifications : accepted[n] \in Nat /\ accepted'[n] \in Nat
                                /\ (accepted[n] > 0 => accepted'[n] > 0)
    BY <1>2 DEF Send, DeliveryInv, TypeOK
<1>4. outcome = "accepted" => accepted'[m] > 0
    BY <1>2 DEF Send, DeliveryInv, TypeOK
<1>5. row' = row
    BY DEF Send
<1>6. \A n \in Notifications : RowInv(n)'
    BY <1>3, <1>5 DEF DeliveryInv, RowInv
<1>7. ASSUME NEW v \in Workers, hand'[v] # NoHand
      PROVE  HandInv(hand[v])'
    <2>1. CASE v = w
        <3>1. /\ hand'[w].claim = hand[w].claim
              /\ hand'[w].copy = hand[w].copy
              /\ hand'[w].outcome = outcome
            BY <1>2 DEF Send, DeliveryInv, TypeOK, Hand
        <3> QED BY <1>1, <1>4, <1>5, <2>1, <3>1 DEF HandInv, DeliveryInv
    <2>2. CASE v # w
        <3>1. hand'[v] = hand[v]
            BY <2>2 DEF Send, DeliveryInv, TypeOK
        <3>2. hand[v].claim.n \in Notifications
            BY <1>7, <3>1, HeldHand DEF DeliveryInv
        <3> QED BY <1>3, <1>5, <1>7, <3>1, <3>2 DEF HandInv, DeliveryInv
    <2> QED BY <2>1, <2>2
<1> QED BY <1>6, <1>7 DEF DeliveryInv

\* A row that is sent is not marked again: the copy would have to be of its
\* version and carry a claim.
LEMMA MarkedIsUnsent ==
    ASSUME DeliveryInv, NEW w \in Workers, Mark(w)
    PROVE  /\ hand[w] # NoHand
           /\ row[hand[w].claim.n].status # "sent"
<1>1. hand[w] # NoHand
    BY DEF Mark, NoHand
<1> QED BY <1>1, HeldHand DEF Mark, Flushes, DeliveryInv, HandInv

LEMMA MarkDelivery ==
    ASSUME DeliveryInv, NEW w \in Workers, Mark(w), TypeOK'
    PROVE  DeliveryInv'
<1> DEFINE m == hand[w].claim.n
<1>1. hand[w] # NoHand /\ m \in Notifications /\ row[m] \in Row
    BY MarkedIsUnsent, HeldHand DEF DeliveryInv, TypeOK
<1>2. /\ row'[m].version = row[m].version + 1
      /\ row'[m].status = "sent" => hand[w].outcome = "accepted"
      /\ row'[m].lease = "none"
      /\ row'[m].token = NoToken
      /\ \A n \in Notifications : n # m => row'[n] = row[n]
    BY <1>1 DEF Mark, Marked, DeliveryInv, TypeOK
<1>3. accepted' = accepted
    BY DEF Mark
<1>4. \A n \in Notifications : RowInv(n)'
    BY <1>1, <1>2, <1>3 DEF DeliveryInv, RowInv, HandInv
<1>5. ASSUME NEW v \in Workers, hand'[v] # NoHand
      PROVE  HandInv(hand[v])'
    <2>1. v # w /\ hand'[v] = hand[v]
        BY <1>5 DEF Mark, DeliveryInv, TypeOK
    <2>2. /\ hand[v].claim.n \in Notifications
          /\ hand[v].copy.version \in Nat
          /\ HandInv(hand[v])
        BY <1>5, <2>1, HeldHand DEF DeliveryInv, Row
    <2>3. CASE hand[v].claim.n = m
        <3>1. hand[v].copy.version <= row[m].version /\ row[m].version \in Nat
            BY <1>1, <2>2, <2>3 DEF HandInv, Row
        <3>2. hand[v].copy.version <= row'[m].version
              /\ hand[v].copy.version # row'[m].version
            BY <1>2, <2>2, <3>1
        <3> QED BY <1>3, <2>1, <2>2, <2>3, <3>2 DEF HandInv
    <2>4. CASE hand[v].claim.n # m
        BY <1>2, <1>3, <2>1, <2>2, <2>4 DEF HandInv
    <2> QED BY <2>3, <2>4
<1> QED BY <1>4, <1>5 DEF DeliveryInv

\* Time and insertions leave the claims, the versions and the sent rows alone.
LEMMA PassingColumns ==
    ASSUME TypeOK, NEW n \in Notifications, Passing(n) \/ RecipientChanges(n)
    PROVE  \A k \in Notifications :
               /\ row'[k].version = row[k].version
               /\ row'[k].attempts = row[k].attempts
               /\ row'[k].status = "sent" => row[k].status = "sent"
               /\ row'[k].token = row[k].token
               /\ row'[k].lease = "live" => row[k].lease = "live"
               /\ row'[k].status # row[k].status => row[k].status = "absent"
<1>1. row[n] \in Row
    BY DEF TypeOK
<1>2. \A k \in Notifications : k # n => row'[k] = row[k]
    BY DEF TypeOK, Passing, Notify, LeaseExpires, BackoffEnds, RecipientChanges
<1>3. CASE Notify(n)
    BY <1>1, <1>2, <1>3 DEF Notify, TypeOK, Row
<1>4. CASE LeaseExpires(n)
    BY <1>1, <1>2, <1>4 DEF LeaseExpires, TypeOK, Row
<1>5. CASE BackoffEnds(n)
    BY <1>1, <1>2, <1>5 DEF BackoffEnds, TypeOK, Row
<1>6. CASE RecipientChanges(n)
    BY <1>6 DEF RecipientChanges
<1> QED BY <1>3, <1>4, <1>5, <1>6 DEF Passing

LEMMA PassingDelivery ==
    ASSUME DeliveryInv, NEW n \in Notifications, Passing(n) \/ RecipientChanges(n), TypeOK'
    PROVE  DeliveryInv'
<1>1. UNCHANGED <<hand, accepted>>
    BY DEF Passing, Notify, LeaseExpires, BackoffEnds, RecipientChanges
<1>2. \A k \in Notifications : RowInv(k)'
    BY <1>1, PassingColumns DEF DeliveryInv, RowInv
<1>3. \A v \in Workers : hand'[v] # NoHand => HandInv(hand[v])'
    BY <1>1, PassingColumns, HandsKept DEF DeliveryInv, TypeOK
<1> QED BY <1>1, <1>2, <1>3 DEF DeliveryInv, HandInv

LEMMA DeliveryInductive == DeliveryInv /\ [Next]_vars => DeliveryInv'
<1> SUFFICES ASSUME DeliveryInv, [Next]_vars PROVE DeliveryInv'
    OBVIOUS
<1>1. CASE UNCHANGED vars
    BY <1>1 DEF DeliveryInv, TypeOK, RowInv, HandInv, vars
<1>2. ASSUME NEW w \in Workers, WorkerNext(w) \/ Crash(w)
      PROVE  DeliveryInv'
    <2>1. TypeOK'
        BY <1>2, WorkerTypes DEF DeliveryInv
    <2>2. CASE SelectRows(w) \/ Connect(w)
        BY <2>1, <2>2 DEF SelectRows, Connect, DeliveryInv, RowInv, HandInv
    <2>3. CASE MarkForeign(w)
        BY <2>1, <2>3 DEF MarkForeign, DeliveryInv, RowInv, HandInv, TypeOK
    <2>4. CASE MarkStale(w) \/ Finish(w) \/ Crash(w)
        BY <2>1, <2>4, StopDelivery DEF MarkStale, Finish, Crash
    <2> QED BY <1>2, <2>1, <2>2, <2>3, <2>4, ClaimDelivery, LoadDelivery, SendDelivery,
               MarkDelivery DEF WorkerNext
<1>3. ASSUME NEW n \in Notifications, Passing(n) \/ RecipientChanges(n)
      PROVE  DeliveryInv'
    BY <1>3, PassingTypes, PassingDelivery DEF DeliveryInv
<1> QED BY <1>1, <1>2, <1>3 DEF Next, Passing

\* A mail recorded as sent was accepted by the provider.
THEOREM RecordedMailIsSent == Spec => []SentWasAccepted
<1>1. DeliveryInv => SentWasAccepted
    BY DEF DeliveryInv, RowInv, SentWasAccepted
<1> QED BY <1>1, InitDelivery, DeliveryInductive, PTL DEF Spec

\* A mail recorded as sent stays so: neither a takeover nor a process that
\* comes late with its mark brings it back.
THEOREM SentStaysSent == Spec => SentIsFinal
<1> DEFINE Final == \A n \in Notifications : row[n].status = "sent" => row'[n] = row[n]
<1>1. DeliveryInv /\ [Next]_vars => [Final]_vars
    <2> SUFFICES ASSUME DeliveryInv, Next, NEW n \in Notifications, row[n].status = "sent"
                 PROVE  row'[n] = row[n]
        OBVIOUS
    <2>1. ASSUME NEW w \in Workers, WorkerNext(w) \/ Crash(w)
          PROVE  row'[n] = row[n]
        <3>1. CASE ClaimRows(w)
            BY <3>1 DEF ClaimRows, StillClaimable, Claimable, DeliveryInv, TypeOK
        <3>2. CASE Mark(w)
            BY <3>2, MarkedIsUnsent DEF Mark, DeliveryInv, TypeOK
        <3> QED BY <2>1, <3>1, <3>2 DEF WorkerNext, SelectRows, Connect, Load, Send,
                    MarkForeign, MarkStale, Finish, Crash
    <2>2. ASSUME NEW k \in Notifications, Passing(k) \/ RecipientChanges(k)
          PROVE  row'[n] = row[n]
        BY <2>2 DEF Passing, Notify, LeaseExpires, BackoffEnds, RecipientChanges,
                    DeliveryInv, TypeOK, RowInv
    <2> QED BY <2>1, <2>2 DEF Next, Passing
<1> QED BY <1>1, InitDelivery, DeliveryInductive, PTL DEF Spec, SentIsFinal

\* A claim is not taken over before its lease has expired.
THEOREM LeaseHolds == Spec => LiveLeaseHolds
<1> DEFINE Held == \A n \in Notifications :
                      row[n].lease = "live" => row'[n].token \in {row[n].token, NoToken}
<1>1. DeliveryInv /\ [Next]_vars => [Held]_vars
    <2> SUFFICES ASSUME DeliveryInv, Next, NEW n \in Notifications, row[n].lease = "live"
                 PROVE  row'[n].token \in {row[n].token, NoToken}
        OBVIOUS
    <2>1. ASSUME NEW w \in Workers, WorkerNext(w) \/ Crash(w)
          PROVE  row'[n].token \in {row[n].token, NoToken}
        <3>1. CASE ClaimRows(w)
            BY <3>1 DEF ClaimRows, StillClaimable, Claimable, DeliveryInv, TypeOK, RowInv
        <3>2. CASE Mark(w)
            BY <3>2, MarkedIsUnsent, HeldHand DEF Mark, Marked, DeliveryInv, TypeOK
        <3> QED BY <2>1, <3>1, <3>2 DEF WorkerNext, SelectRows, Connect, Load, Send,
                    MarkForeign, MarkStale, Finish, Crash
    <2>2. ASSUME NEW k \in Notifications, Passing(k) \/ RecipientChanges(k)
          PROVE  row'[n].token \in {row[n].token, NoToken}
        BY <2>2, PassingColumns DEF DeliveryInv
    <2> QED BY <2>1, <2>2 DEF Next, Passing
<1> QED BY <1>1, InitDelivery, DeliveryInductive, PTL DEF Spec, LiveLeaseHolds

-----------------------------------------------------------------------------
(***************************************************************************)
(* How many copies go out.  Every attempt that was counted is either still *)
(* ahead of a process or has sent at most one copy.                        *)
(***************************************************************************)
Unsent(n) ==
    { w \in Workers :
        \/ \E c \in batch[w] : c.n = n
        \/ hand[w].outcome = "unsent" /\ hand[w].claim.n = n }

\* A process claims with nothing left over from an earlier run, claims a row
\* once, and does not hold a row that is still in its batch.
BatchesAreTidy ==
    \A w \in Workers :
        /\ pc[w] \in {"idle", "selected"} => batch[w] = {} /\ hand[w] = NoHand
        /\ \A c, d \in batch[w] : c.n = d.n => c = d
        /\ hand[w] # NoHand => \A c \in batch[w] : c.n # hand[w].claim.n

CopiesInv ==
    /\ TypeOK
    /\ BatchesAreTidy
    /\ \A n \in Notifications : accepted[n] + Cardinality(Unsent(n)) <= row[n].attempts

LEMMA UnsentIsFinite ==
    ASSUME NEW n \in Notifications
    PROVE  IsFiniteSet(Unsent(n)) /\ Cardinality(Unsent(n)) \in Nat
<1>1. Unsent(n) \in SUBSET Workers
    BY DEF Unsent
<1> QED BY <1>1, WorkersAssumption, FS_Subset, FS_CardinalityType

LEMMA UnsentIsFiniteNext ==
    ASSUME NEW n \in Notifications
    PROVE  IsFiniteSet(Unsent(n)') /\ Cardinality(Unsent(n)') \in Nat
<1>1. Unsent(n)' \in SUBSET Workers
    BY DEF Unsent
<1> QED BY <1>1, WorkersAssumption, FS_Subset, FS_CardinalityType

LEMMA InitCopies == Init => CopiesInv
<1> SUFFICES ASSUME Init PROVE CopiesInv
    OBVIOUS
<1>1. \A n \in Notifications : Unsent(n) = {}
    BY DEF Init, Unsent, NoHand
<1>2. \A n \in Notifications :
          accepted[n] = 0 /\ row[n].attempts = 0 /\ Cardinality(Unsent(n)) = 0
    BY <1>1, FS_EmptySet DEF Init, NoRow
<1>3. BatchesAreTidy
    BY DEF Init, BatchesAreTidy
<1> QED BY <1>2, <1>3, InitTypes DEF CopiesInv

\* A step that claims nothing and sends nothing leaves as many claims or fewer.
LEMMA CopiesKept ==
    ASSUME CopiesInv, accepted' = accepted, NEW n \in Notifications,
           row'[n].attempts = row[n].attempts,
           Unsent(n)' \subseteq Unsent(n)
    PROVE  (accepted[n] + Cardinality(Unsent(n)) <= row[n].attempts)'
<1>1. Cardinality(Unsent(n)') <= Cardinality(Unsent(n))
    BY UnsentIsFinite, FS_Subset
<1>2. accepted[n] \in Nat /\ row[n].attempts \in Nat
    BY DEF CopiesInv, TypeOK, Row
<1>3. accepted[n] + Cardinality(Unsent(n)) <= row[n].attempts
    BY DEF CopiesInv
<1> QED BY <1>1, <1>2, <1>3, UnsentIsFinite, UnsentIsFiniteNext

LEMMA ClaimCopies ==
    ASSUME CopiesInv, TypeOK', NEW w \in Workers, ClaimRows(w)
    PROVE  CopiesInv'
<1> DEFINE ns == { s.n : s \in { t \in seen[w] : StillClaimable(t) } }
           claims == { [n |-> n, token |-> row'[n].token] : n \in ns }
<1>1. /\ row' = [n \in Notifications |-> IF n \in ns THEN Claimed(row[n]) ELSE row[n]]
      /\ batch' = [batch EXCEPT ![w] = claims]
      /\ pc[w] = "selected"
      /\ UNCHANGED <<hand, accepted>>
    BY DEF ClaimRows
<1>2. batch[w] = {} /\ hand[w] = NoHand /\ UNCHANGED <<hand, accepted>>
    BY <1>1 DEF CopiesInv, BatchesAreTidy
<1>3. /\ \A v \in Workers : v # w => batch'[v] = batch[v] /\ pc'[v] = pc[v]
      /\ batch'[w] = claims
    BY <1>1 DEF ClaimRows, CopiesInv, TypeOK
<1>4. pc'[w] \in {"idle", "selected"} => ns = {}
    BY DEF ClaimRows, CopiesInv, TypeOK
<1>5. \A n \in Notifications :
          row'[n].attempts = IF n \in ns THEN row[n].attempts + 1 ELSE row[n].attempts
    BY <1>1 DEF Claimed
<1> HIDE DEF ns
<1>6. \A n \in ns : [n |-> n, token |-> row'[n].token] \in claims
    OBVIOUS
<1>7. \A c \in claims : c.n \in ns /\ c = [n |-> c.n, token |-> row'[c.n].token]
    OBVIOUS
<1>8. \A n \in ns : \E c \in claims : c.n = n
    BY <1>6
<1> HIDE DEF claims
<1>9. ASSUME NEW n \in Notifications
      PROVE  (accepted[n] + Cardinality(Unsent(n)) <= row[n].attempts)'
    <2>1. /\ accepted[n] \in Nat /\ row[n].attempts \in Nat
          /\ accepted[n] + Cardinality(Unsent(n)) <= row[n].attempts
        BY DEF CopiesInv, TypeOK, Row
    <2>2. CASE n \in ns
        <3>1. Unsent(n)' = Unsent(n) \cup {w} /\ w \notin Unsent(n)
            BY <1>2, <1>3, <1>8, <2>2 DEF Unsent, NoHand
        <3>2. Cardinality(Unsent(n)') = Cardinality(Unsent(n)) + 1
            BY <3>1, UnsentIsFinite, FS_AddElement
        <3> QED BY <1>2, <1>5, <2>1, <2>2, <3>2, UnsentIsFinite
    <2>3. CASE n \notin ns
        <3>1. Unsent(n)' \subseteq Unsent(n)
            BY <1>2, <1>3, <1>7, <2>3 DEF Unsent
        <3> QED BY <1>2, <1>5, <2>3, <3>1, CopiesKept
    <2> QED BY <2>2, <2>3
<1>10. BatchesAreTidy'
    <2>1. \A c, d \in claims : c.n = d.n => c = d
        BY <1>7
    <2>2. pc'[w] \in {"idle", "selected"} => claims = {}
        BY <1>4, <1>7
    <2> QED BY <1>2, <1>3, <2>1, <2>2 DEF CopiesInv, BatchesAreTidy
<1> QED BY <1>9, <1>10 DEF CopiesInv

LEMMA LoadCopies ==
    ASSUME CopiesInv, TypeOK', NEW w \in Workers, Load(w)
    PROVE  CopiesInv'
<1>1. PICK c \in batch[w] :
          /\ batch' = [batch EXCEPT ![w] = @ \ {c}]
          /\ hand' = [hand EXCEPT ![w] =
                [claim |-> c, copy |-> row[c.n],
                 outcome |-> IF pc[w] = "refusing" THEN "refused" ELSE "unsent"]]
    BY DEF Load
<1>2. /\ UNCHANGED <<row, pc, accepted>>
      /\ hand[w] = NoHand
      /\ pc[w] \notin {"idle", "selected"}
    BY DEF Load
<1>3. /\ batch'[w] = batch[w] \ {c}
      /\ hand'[w].claim = c
      /\ \A v \in Workers : v # w => batch'[v] = batch[v] /\ hand'[v] = hand[v]
    BY <1>1 DEF CopiesInv, TypeOK
<1>4. \A n \in Notifications : Unsent(n)' \subseteq Unsent(n)
    BY <1>3 DEF Unsent
<1>5. \A n \in Notifications : (accepted[n] + Cardinality(Unsent(n)) <= row[n].attempts)'
    BY <1>2, <1>4, CopiesKept
<1>6. BatchesAreTidy'
    BY <1>2, <1>3 DEF CopiesInv, BatchesAreTidy
<1> QED BY <1>5, <1>6 DEF CopiesInv

LEMMA SendCopies ==
    ASSUME CopiesInv, TypeOK', NEW w \in Workers, NEW outcome \in {"accepted", "refused"},
           Send(w, outcome)
    PROVE  CopiesInv'
<1> DEFINE m == hand[w].claim.n
<1>1. hand[w] # NoHand /\ hand[w].outcome = "unsent" /\ UNCHANGED <<row, pc, batch>>
    BY DEF Send, NoHand
<1>2. hand[w] \in Hand /\ m \in Notifications
    BY <1>1, HeldHand DEF CopiesInv
<1>3. /\ hand'[w].claim = hand[w].claim
      /\ hand'[w].outcome # "unsent"
      /\ \A v \in Workers : v # w => hand'[v] = hand[v]
    BY <1>2 DEF Send, CopiesInv, TypeOK, Hand
<1>4. /\ accepted'[m] \in {accepted[m], accepted[m] + 1}
      /\ \A n \in Notifications : n # m => accepted'[n] = accepted[n]
    BY <1>2 DEF Send, CopiesInv, TypeOK
<1>5. ASSUME NEW n \in Notifications
      PROVE  (accepted[n] + Cardinality(Unsent(n)) <= row[n].attempts)'
    <2>1. /\ accepted[n] \in Nat /\ row[n].attempts \in Nat
          /\ accepted[n] + Cardinality(Unsent(n)) <= row[n].attempts
        BY DEF CopiesInv, TypeOK, Row
    <2>2. CASE n = m
        <3>1. Unsent(n)' = Unsent(n) \ {w} /\ w \in Unsent(n)
            BY <1>1, <1>3, <2>2 DEF Unsent, CopiesInv, BatchesAreTidy
        <3>2. Cardinality(Unsent(n)') = Cardinality(Unsent(n)) - 1
            BY <3>1, UnsentIsFinite, FS_RemoveElement
        <3> QED BY <1>1, <1>4, <2>1, <2>2, <3>2, UnsentIsFinite
    <2>3. CASE n # m
        <3>1. Unsent(n)' = Unsent(n)
            BY <1>1, <1>3, <2>3 DEF Unsent
        <3> QED BY <1>1, <1>4, <2>1, <2>3, <3>1
    <2> QED BY <2>2, <2>3
<1>6. BatchesAreTidy'
    BY <1>1, <1>3 DEF CopiesInv, BatchesAreTidy
<1> QED BY <1>5, <1>6 DEF CopiesInv

\* A mark, or the end of a run: the claims that are left are among those there
\* were.
LEMMA EndCopies ==
    ASSUME CopiesInv, TypeOK', NEW w \in Workers, accepted' = accepted,
           \A v \in Workers : v # w => UNCHANGED <<pc[v], batch[v], hand[v]>>,
           hand'[w] = NoHand,
           \/ batch'[w] = batch[w] /\ pc'[w] = pc[w]
           \/ batch'[w] = {},
           \A n \in Notifications : row'[n].attempts = row[n].attempts
    PROVE  CopiesInv'
<1>1. \A n \in Notifications : Unsent(n)' \subseteq Unsent(n)
    BY DEF Unsent, NoHand
<1>2. \A n \in Notifications : (accepted[n] + Cardinality(Unsent(n)) <= row[n].attempts)'
    BY <1>1, CopiesKept
<1>3. BatchesAreTidy'
    BY DEF CopiesInv, BatchesAreTidy
<1> QED BY <1>2, <1>3 DEF CopiesInv

\* Steps that leave the batches and the hands alone.
LEMMA ColumnsCopies ==
    ASSUME CopiesInv, TypeOK', UNCHANGED <<batch, hand, accepted>>,
           \A w \in Workers : \/ pc'[w] = pc[w]
                              \/ pc'[w] \notin {"idle", "selected"}
                              \/ pc[w] = "idle",
           \A n \in Notifications : row'[n].attempts = row[n].attempts
    PROVE  CopiesInv'
<1>1. \A n \in Notifications : Unsent(n)' = Unsent(n)
    BY DEF Unsent
<1>2. \A n \in Notifications : (accepted[n] + Cardinality(Unsent(n)) <= row[n].attempts)'
    BY <1>1, CopiesKept
<1>3. BatchesAreTidy'
    BY DEF CopiesInv, BatchesAreTidy
<1> QED BY <1>2, <1>3 DEF CopiesInv

LEMMA CopiesInductive == CopiesInv /\ [Next]_vars => CopiesInv'
<1> SUFFICES ASSUME CopiesInv, [Next]_vars PROVE CopiesInv'
    OBVIOUS
<1>1. CASE UNCHANGED vars
    <2>1. TypeOK'
        BY <1>1 DEF CopiesInv, TypeOK, vars
    <2> QED BY <1>1, <2>1, ColumnsCopies DEF vars
<1>2. ASSUME NEW w \in Workers, WorkerNext(w) \/ Crash(w)
      PROVE  CopiesInv'
    <2>1. TypeOK /\ TypeOK'
        BY <1>2, WorkerTypes DEF CopiesInv
    <2>2. CASE SelectRows(w) \/ Connect(w)
        <3>1. \A v \in Workers : \/ pc'[v] = pc[v]
                                 \/ pc'[v] \notin {"idle", "selected"}
                                 \/ pc[v] = "idle"
            BY <2>1, <2>2 DEF SelectRows, Connect, TypeOK
        <3> QED BY <2>1, <2>2, <3>1, ColumnsCopies DEF SelectRows, Connect
    <2>3. CASE Mark(w)
        <3>1. hand[w] # NoHand
            BY <2>3 DEF Mark, NoHand
        <3>2. hand[w].claim.n \in Notifications
            BY <2>1, <3>1, HeldHand
        <3>3. \A n \in Notifications : row'[n].attempts = row[n].attempts
            BY <2>1, <2>3, <3>2 DEF Mark, Marked, TypeOK
        <3>4. hand'[w] = NoHand /\ \A v \in Workers : v # w => hand'[v] = hand[v]
            BY <2>1, <2>3 DEF Mark, TypeOK
        <3> QED BY <2>1, <2>3, <3>3, <3>4, EndCopies DEF Mark
    <2>4. CASE MarkForeign(w)
        <3>1. hand'[w] = NoHand /\ \A v \in Workers : v # w => hand'[v] = hand[v]
            BY <2>1, <2>4 DEF MarkForeign, TypeOK
        <3> QED BY <2>1, <2>4, <3>1, EndCopies DEF MarkForeign
    <2>5. CASE MarkStale(w) \/ Finish(w) \/ Crash(w)
        <3>1. /\ UNCHANGED <<row, accepted>>
              /\ hand'[w] = NoHand /\ batch'[w] = {}
              /\ \A v \in Workers : v # w => UNCHANGED <<pc[v], batch[v], hand[v]>>
            BY <2>1, <2>5 DEF MarkStale, Finish, Crash, Stop, TypeOK
        <3> QED BY <2>1, <3>1, EndCopies
    <2> QED BY <1>2, <2>1, <2>2, <2>3, <2>4, <2>5, ClaimCopies, LoadCopies, SendCopies
            DEF WorkerNext
<1>3. ASSUME NEW n \in Notifications, Passing(n) \/ RecipientChanges(n)
      PROVE  CopiesInv'
    <2>1. TypeOK /\ TypeOK'
        BY <1>3, PassingTypes DEF CopiesInv
    <2>2. UNCHANGED <<pc, batch, hand, accepted>>
        BY <1>3 DEF Passing, Notify, LeaseExpires, BackoffEnds, RecipientChanges
    <2>3. \A k \in Notifications : row'[k].attempts = row[k].attempts
        BY <1>3, <2>1, PassingColumns
    <2> QED BY <2>1, <2>2, <2>3, ColumnsCopies
<1> QED BY <1>1, <1>2, <1>3 DEF Next, Passing

\* However leases expire and processes die, no more copies of a mail go out
\* than attempts were counted for it.
THEOREM CopiesAreBounded == Spec => []CopiesWithinAttempts
<1>1. CopiesInv => CopiesWithinAttempts
    <2> SUFFICES ASSUME CopiesInv, NEW n \in Notifications
                 PROVE  accepted[n] <= row[n].attempts
        BY DEF CopiesWithinAttempts
    <2>1. accepted[n] \in Nat /\ row[n].attempts \in Nat
        BY DEF CopiesInv, TypeOK, Row
    <2>2. accepted[n] + Cardinality(Unsent(n)) <= row[n].attempts
        BY DEF CopiesInv
    <2> QED BY <2>1, <2>2, UnsentIsFinite
<1> QED BY <1>1, InitCopies, CopiesInductive, PTL DEF Spec

=============================================================================
