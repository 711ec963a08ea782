----------------------- MODULE ItemsAndPolicy_proofs ------------------------
(***************************************************************************)
(* Proofs about ReportItems and about PolicyVersions, the items of a claim *)
(* and the rules they are validated by.                                    *)
(***************************************************************************)
EXTENDS ReportItems, PolicyVersions, FiniteSetTheorems, WellFoundedInduction, TLAPS

-----------------------------------------------------------------------------
(***************************************************************************)
(* ReportItems. Apart from the types the proofs rest on what an open       *)
(* transaction still knows: as long as the version of a row has not moved, *)
(* what the transaction has read of the row is true.                       *)
(***************************************************************************)
\* What session s knows about the report.
KnowsReport(s) ==
    tx[s] # NoTx /\ "report" \notin tx[s].stale =>
        /\ tx[s].loaded = total
        /\ status = IF tx[s].request \in ItemRequests \cup {"submit"}
                    THEN "draft" ELSE "submitted"

\* What it knows about its item; a slot that is being added stays free.
KnowsItem(s) ==
    tx[s].request \in ItemRequests =>
        /\ tx[s].request = "add" => tx[s].was = 0 /\ amount[tx[s].item] = 0
        /\ tx[s].request # "add" => tx[s].was # 0
        /\ "item" \notin tx[s].stale => amount[tx[s].item] = tx[s].was

\* What a submission knows about the sum it has taken.
KnowsSum(s) ==
    /\ tx[s].request = "submit"
    /\ tx[s].summed
    /\ "report" \notin tx[s].stale
    /\ "sum" \notin tx[s].stale
    => tx[s].sum = Sum(amount)

OneAddPerSlot ==
    \A s, o \in Sessions :
        tx[s].request = "add" /\ tx[o].request = "add" /\ tx[s].item = tx[o].item => s = o

ItemsInv ==
    /\ TypeOK
    /\ \A s \in Sessions : KnowsReport(s) /\ KnowsItem(s) /\ KnowsSum(s)
    /\ OneAddPerSlot
    /\ SubmittedTotalIsSum
    /\ PaymentIsReviewedTotal

-----------------------------------------------------------------------------
(***************************************************************************)
(* Types.                                                                  *)
(***************************************************************************)

\* The request of a transaction tells its kind.
LEMMA Kinds ==
    ASSUME TypeOK, NEW s \in Sessions
    PROVE  /\ tx[s] = NoTx <=> tx[s].request = "none"
           /\ tx[s].request \in ItemRequests => tx[s] \in ItemTransaction
           /\ tx[s].request \in ReportRequests => tx[s] \in ReportTransaction
           /\ tx[s].request \in {"none"} \cup ItemRequests \cup ReportRequests
  <1>1. tx[s] \in {NoTx} \cup ItemTransaction \cup ReportTransaction
    BY DEF TypeOK
  <1>2. CASE tx[s] = NoTx
    BY <1>2 DEF NoTx, ItemRequests, ReportRequests
  <1>3. CASE tx[s] \in ItemTransaction
    BY <1>3 DEF NoTx, ItemRequests, ReportRequests, ItemTransaction
  <1>4. CASE tx[s] \in ReportTransaction
    BY <1>4 DEF NoTx, ItemRequests, ReportRequests, ReportTransaction
  <1> QED BY <1>1, <1>2, <1>3, <1>4

\* Whatever the database sums is a possible total.
LEMMA SumsAreTotals ==
    ASSUME TypeOK, NEW s \in Sessions, tx[s].request \in ItemRequests \cup {"submit"}
    PROVE  SumSeen(tx[s]) \in Totals
  <1>1. ASSUME NEW f \in [Items -> {0} \cup Amounts] PROVE Sum(f) \in Totals
    BY <1>1 DEF Totals
  <1>2. amount \in [Items -> {0} \cup Amounts]
    BY DEF TypeOK
  <1>3. CASE tx[s].request = "add"
    <2>1. tx[s] \in ItemTransaction
      BY <1>3, Kinds DEF ItemRequests
    <2>2. [amount EXCEPT ![tx[s].item] = tx[s].to] \in [Items -> {0} \cup Amounts]
      BY <1>2, <2>1 DEF ItemTransaction
    <2> QED BY <1>1, <1>3, <2>2 DEF SumSeen
  <1>4. CASE tx[s].request # "add"
    BY <1>1, <1>2, <1>4 DEF SumSeen
  <1> QED BY <1>3, <1>4

\* What another transaction has read may only become outdated.
LEMMA OutdatedTyped ==
    ASSUME TypeOK, NEW s \in Sessions, NEW o \in Sessions, tx[s] # NoTx
    PROVE  Outdated(tx[s], tx[o]) \in {NoTx} \cup ItemTransaction \cup ReportTransaction
  <1>1. tx[o] \in {NoTx} \cup ItemTransaction \cup ReportTransaction
    BY DEF TypeOK
  <1>2. CASE tx[o] = NoTx
    BY <1>2 DEF Outdated
  <1>3. CASE tx[o] \in ItemTransaction
    BY <1>3 DEF Outdated, ItemTransaction, Stale
  <1>4. CASE tx[o] \in ReportTransaction
    BY <1>4 DEF Outdated, ReportTransaction, Stale
  <1> QED BY <1>1, <1>2, <1>3, <1>4

\* Outdated changes nothing but the stale marks.
LEMMA OutdatedKeeps ==
    ASSUME TypeOK, NEW s \in Sessions, NEW o \in Sessions
    PROVE  LET t == Outdated(tx[s], tx[o]) IN
           /\ t = NoTx <=> tx[o] = NoTx
           /\ t.request = tx[o].request
           /\ tx[o].request \in ItemRequests =>
                 t.item = tx[o].item /\ t.was = tx[o].was /\ t.to = tx[o].to
           /\ tx[o] # NoTx =>
                 /\ t.loaded = tx[o].loaded
                 /\ t.summed = tx[o].summed
                 /\ t.sum = tx[o].sum
                 /\ tx[o].stale \subseteq t.stale
                 /\ WritesReport(tx[s]) => "report" \in t.stale
                 /\ WritesItem(tx[s]) /\ WritesItem(tx[o]) /\ tx[o].item = tx[s].item
                        => "item" \in t.stale
                 /\ WritesItem(tx[s]) /\ ~WritesReport(tx[s]) => "sum" \in t.stale
  <1>1. tx[o] \in {NoTx} \cup ItemTransaction \cup ReportTransaction
    BY DEF TypeOK
  <1>2. CASE tx[o] = NoTx
    BY <1>2 DEF Outdated, NoTx, ItemRequests
  <1>3. CASE tx[o] \in ItemTransaction
    BY <1>3 DEF Outdated, ItemTransaction, ItemRequests, NoTx, WritesItem
  <1>4. CASE tx[o] \in ReportTransaction
    BY <1>4 DEF Outdated, ReportTransaction, ItemRequests, ReportRequests, NoTx, WritesItem
  <1> QED BY <1>1, <1>2, <1>3, <1>4

LEMMA InitTyped == Init => TypeOK
  BY DEF Init, TypeOK, Totals, NoTx

\* A commit closes its transaction and outdates the others.
LEMMA CloseTyped ==
    ASSUME TypeOK, NEW s \in Sessions, tx[s] # NoTx, Close(s)
    PROVE  tx' \in [Sessions -> {NoTx} \cup ItemTransaction \cup ReportTransaction]
  <1>1. ASSUME NEW o \in Sessions
        PROVE  (IF o = s THEN NoTx ELSE Outdated(tx[s], tx[o]))
                    \in {NoTx} \cup ItemTransaction \cup ReportTransaction
    BY OutdatedTyped
  <1> QED BY <1>1, Zenon DEF Close

LEMMA StepTyped == TypeOK /\ [Next]_vars => TypeOK'
  <1> SUFFICES ASSUME TypeOK, [Next]_vars PROVE TypeOK'
    OBVIOUS
  <1>1. CASE UNCHANGED vars
    BY <1>1 DEF TypeOK, vars
  <1>2. ASSUME NEW s \in Sessions, NEW request \in ItemRequests, NEW i \in Items,
               NEW a \in {0} \cup Amounts, OpenItem(s, request, i, a)
        PROVE  TypeOK'
    <2>1. [request |-> request, item |-> i, was |-> amount[i], to |-> a,
           loaded |-> total, summed |-> FALSE, sum |-> 0, stale |-> {}] \in ItemTransaction
      BY DEF TypeOK, ItemTransaction, Totals, Stale
    <2> QED BY <1>2, <2>1 DEF OpenItem, TypeOK
  <1>3. ASSUME NEW s \in Sessions, NEW request \in ReportRequests, OpenReport(s, request)
        PROVE  TypeOK'
    <2>1. [request |-> request, loaded |-> total,
           summed |-> FALSE, sum |-> 0, stale |-> {}] \in ReportTransaction
      BY DEF TypeOK, ReportTransaction, Totals, Stale
    <2> QED BY <1>3, <2>1 DEF OpenReport, TypeOK
  <1>4. ASSUME NEW s \in Sessions, RecomputeTotal(s) PROVE TypeOK'
    <2>1. SumSeen(tx[s]) \in Totals
      BY <1>4, SumsAreTotals DEF RecomputeTotal
    <2>2. tx[s] \in ItemTransaction \cup ReportTransaction
      BY <1>4, Kinds DEF RecomputeTotal, ReportRequests
    <2>3. [tx[s] EXCEPT !.summed = TRUE, !.sum = SumSeen(tx[s]), !.stale = @ \ {"sum"}]
              \in ItemTransaction \cup ReportTransaction
      <3>1. CASE tx[s] \in ItemTransaction
        BY <2>1, <3>1 DEF ItemTransaction, Stale
      <3>2. CASE tx[s] \in ReportTransaction
        BY <2>1, <3>2 DEF ReportTransaction, Stale
      <3> QED BY <2>2, <3>1, <3>2
    <2> QED BY <1>4, <2>3 DEF RecomputeTotal, TypeOK
  <1>5. ASSUME NEW s \in Sessions, CommitItem(s) PROVE TypeOK'
    <2>1. tx[s] \in ItemTransaction /\ tx[s] # NoTx
      BY <1>5, Kinds DEF CommitItem, WritesItem, NoTx, ItemRequests
    <2>2. total' \in Totals
      BY <1>5, <2>1 DEF CommitItem, TypeOK, ItemTransaction
    <2>3. amount' \in [Items -> {0} \cup Amounts]
      BY <1>5, <2>1 DEF CommitItem, TypeOK, ItemTransaction
    <2>4. slipped' \in BOOLEAN
      BY <1>5 DEF CommitItem, TypeOK
    <2>5. tx' \in [Sessions -> {NoTx} \cup ItemTransaction \cup ReportTransaction]
      BY <1>5, <2>1, CloseTyped DEF CommitItem
    <2> QED BY <1>5, <2>2, <2>3, <2>4, <2>5 DEF CommitItem, TypeOK
  <1>6. ASSUME NEW s \in Sessions, CommitSubmit(s) PROVE TypeOK'
    <2>1. tx[s] \in ReportTransaction /\ tx[s] # NoTx
      BY <1>6, Kinds DEF CommitSubmit, NoTx, ReportRequests
    <2>2. tx' \in [Sessions -> {NoTx} \cup ItemTransaction \cup ReportTransaction]
      BY <1>6, <2>1, CloseTyped DEF CommitSubmit
    <2> QED BY <1>6, <2>1, <2>2 DEF CommitSubmit, TypeOK, ReportTransaction
  <1>7. ASSUME NEW s \in Sessions, CommitTurnBack(s) PROVE TypeOK'
    <2>1. tx[s] # NoTx
      BY <1>7 DEF CommitTurnBack, NoTx
    <2>2. tx' \in [Sessions -> {NoTx} \cup ItemTransaction \cup ReportTransaction]
      BY <1>7, <2>1, CloseTyped DEF CommitTurnBack
    <2> QED BY <1>7, <2>2 DEF CommitTurnBack, TypeOK
  <1>8. ASSUME NEW s \in Sessions, CommitApprove(s) PROVE TypeOK'
    <2>1. tx[s] \in ReportTransaction /\ tx[s] # NoTx
      BY <1>8, Kinds DEF CommitApprove, NoTx, ReportRequests
    <2>2. tx' \in [Sessions -> {NoTx} \cup ItemTransaction \cup ReportTransaction]
      BY <1>8, <2>1, CloseTyped DEF CommitApprove
    <2> QED BY <1>8, <2>1, <2>2 DEF CommitApprove, TypeOK, ReportTransaction
  <1>9. ASSUME NEW s \in Sessions, Rollback(s) PROVE TypeOK'
    BY <1>9 DEF Rollback, TypeOK
  <1> QED BY <1>1, <1>2, <1>3, <1>4, <1>5, <1>6, <1>7, <1>8, <1>9 DEF Next

-----------------------------------------------------------------------------
(***************************************************************************)
(* What the transactions know.                                             *)
(***************************************************************************)

LEMMA InitHolds == Init => ItemsInv
  <1> SUFFICES ASSUME Init PROVE ItemsInv
    OBVIOUS
  <1>1. TypeOK
    BY InitTyped
  <1>2. \A s \in Sessions : tx[s] = NoTx
    BY DEF Init
  <1>3. \A s \in Sessions : KnowsReport(s) /\ KnowsItem(s) /\ KnowsSum(s)
    BY <1>2 DEF KnowsReport, KnowsItem, KnowsSum, NoTx, ItemRequests
  <1>4. OneAddPerSlot
    BY <1>2 DEF OneAddPerSlot, NoTx
  <1>5. SubmittedTotalIsSum /\ PaymentIsReviewedTotal
    BY DEF Init, SubmittedTotalIsSum, PaymentIsReviewedTotal, UnderReview
  <1> QED BY <1>1, <1>3, <1>4, <1>5 DEF ItemsInv

\* A step that changes no row and only the transaction of s.
LEMMA OnlySession ==
    ASSUME ItemsInv, NEW s \in Sessions, TypeOK',
           UNCHANGED <<status, total, payment, amount, slipped>>,
           \A o \in Sessions \ {s} : tx'[o] = tx[o],
           (KnowsReport(s) /\ KnowsItem(s) /\ KnowsSum(s))',
           \A o \in Sessions \ {s} :
               tx'[s].request = "add" /\ tx[o].request = "add" => tx'[s].item # tx[o].item
    PROVE  ItemsInv'
  <1>1. ASSUME NEW o \in Sessions PROVE (KnowsReport(o) /\ KnowsItem(o) /\ KnowsSum(o))'
    <2>1. CASE o = s
      BY <2>1
    <2>2. CASE o # s
      BY <2>2 DEF ItemsInv, KnowsReport, KnowsItem, KnowsSum
    <2> QED BY <2>1, <2>2
  <1>2. OneAddPerSlot'
    BY DEF ItemsInv, OneAddPerSlot
  <1>3. (SubmittedTotalIsSum /\ PaymentIsReviewedTotal)'
    BY DEF ItemsInv, SubmittedTotalIsSum, PaymentIsReviewedTotal
  <1> QED BY <1>1, <1>2, <1>3 DEF ItemsInv

\* A commit of s leaves every slot with one add at most, and what another
\* session keeps of its transaction is what OutdatedKeeps says.
LEMMA AfterClose ==
    ASSUME ItemsInv, NEW s \in Sessions, tx[s] # NoTx, Close(s)
    PROVE  /\ tx'[s] = NoTx
           /\ \A o \in Sessions \ {s} : tx'[o] = Outdated(tx[s], tx[o])
           /\ OneAddPerSlot'
  <1>1. tx'[s] = NoTx /\ \A o \in Sessions \ {s} : tx'[o] = Outdated(tx[s], tx[o])
    BY DEF Close
  <1>2. \A o \in Sessions : tx'[o].request = "add" =>
            o # s /\ tx[o].request = "add" /\ tx'[o].item = tx[o].item
    BY <1>1, OutdatedKeeps DEF ItemsInv, NoTx, ItemRequests
  <1> QED BY <1>1, <1>2 DEF ItemsInv, OneAddPerSlot

\* The session that commits knows nothing any more.
LEMMA ClosedKnowsNothing ==
    ASSUME NEW s \in Sessions, tx'[s] = NoTx
    PROVE  (KnowsReport(s) /\ KnowsItem(s) /\ KnowsSum(s))'
  BY DEF KnowsReport, KnowsItem, KnowsSum, NoTx, ItemRequests

\* While s commits a change of an item, no other session is adding that item.
LEMMA SlotIsTaken ==
    ASSUME ItemsInv, NEW s \in Sessions, NEW o \in Sessions \ {s},
           WritesItem(tx[s]), Flushes(tx[s]), tx[o].request = "add"
    PROVE  tx[o].item # tx[s].item
  <1>1. CASE tx[s].request = "add"
    BY <1>1 DEF ItemsInv, OneAddPerSlot
  <1>2. CASE tx[s].request # "add"
    <2>1. "item" \notin tx[s].stale
      BY <1>2 DEF Flushes, WritesItem, ItemRequests
    <2>2. amount[tx[s].item] = tx[s].was /\ tx[s].was # 0
      BY <1>2, <2>1 DEF ItemsInv, KnowsItem, WritesItem
    <2>3. amount[tx[o].item] = 0
      BY DEF ItemsInv, KnowsItem, ItemRequests
    <2> QED BY <2>2, <2>3
  <1> QED BY <1>1, <1>2

LEMMA CommitItemKeeps ==
    ASSUME ItemsInv, TypeOK', NEW s \in Sessions, CommitItem(s)
    PROVE  ItemsInv'
  <1>1. tx[s] \in ItemTransaction /\ tx[s] # NoTx /\ TypeOK
    BY Kinds DEF ItemsInv, CommitItem, WritesItem, NoTx, ItemRequests
  <1>2. /\ tx'[s] = NoTx
        /\ \A o \in Sessions \ {s} : tx'[o] = Outdated(tx[s], tx[o])
        /\ OneAddPerSlot'
    BY <1>1, AfterClose DEF CommitItem
  <1>3. WritesItem(tx[s]) /\ Flushes(tx[s])
    BY DEF CommitItem
  <1>4. amount' = [amount EXCEPT ![tx[s].item] = tx[s].to]
    BY DEF CommitItem
  <1>5. amount \in [Items -> {0} \cup Amounts] /\ tx[s].item \in Items
    BY <1>1 DEF TypeOK, ItemTransaction
  <1>6. ASSUME NEW o \in Sessions \ {s} PROVE (KnowsReport(o) /\ KnowsItem(o) /\ KnowsSum(o))'
    <2>1. tx'[o] = Outdated(tx[s], tx[o])
      BY <1>2
    <2>2. KnowsReport(o)'
      <3>1. CASE WritesReport(tx[s])
        BY <1>1, <2>1, <3>1, OutdatedKeeps DEF KnowsReport
      <3>2. CASE ~WritesReport(tx[s])
        <4>1. status' = status /\ total' = total
          BY <3>2 DEF CommitItem
        <4> QED BY <1>1, <2>1, <4>1, OutdatedKeeps DEF KnowsReport, ItemsInv
      <3> QED BY <3>1, <3>2
    <2>3. KnowsItem(o)'
      <3> SUFFICES ASSUME tx[o].request \in ItemRequests PROVE KnowsItem(o)'
        BY <1>1, <2>1, OutdatedKeeps DEF KnowsItem
      <3>1. tx[o] \in ItemTransaction /\ tx[o] # NoTx
        BY <1>1, Kinds DEF NoTx, ItemRequests
      <3>2. KnowsItem(o)
        BY DEF ItemsInv
      <3>3. CASE tx[o].item = tx[s].item
        <4>1. tx[o].request # "add"
          BY <1>3, <3>3, SlotIsTaken
        <4>2. "item" \in tx'[o].stale
          BY <1>1, <1>3, <2>1, <3>1, <3>3, OutdatedKeeps DEF WritesItem
        <4> QED BY <1>1, <2>1, <3>2, <4>1, <4>2, OutdatedKeeps DEF KnowsItem
      <3>4. CASE tx[o].item # tx[s].item
        <4>1. amount'[tx[o].item] = amount[tx[o].item]
          BY <1>4, <1>5, <3>1, <3>4 DEF ItemTransaction
        <4> QED BY <1>1, <2>1, <3>1, <3>2, <4>1, OutdatedKeeps DEF KnowsItem
      <3> QED BY <3>3, <3>4
    <2>4. KnowsSum(o)'
      <3> SUFFICES ASSUME tx[o].request = "submit" PROVE KnowsSum(o)'
        BY <1>1, <2>1, OutdatedKeeps DEF KnowsSum
      <3>1. tx[o] # NoTx
        BY DEF NoTx
      <3>2. CASE WritesReport(tx[s])
        BY <1>1, <2>1, <3>1, <3>2, OutdatedKeeps DEF KnowsSum
      <3>3. CASE ~WritesReport(tx[s])
        BY <1>1, <1>3, <2>1, <3>1, <3>3, OutdatedKeeps DEF KnowsSum
      <3> QED BY <3>2, <3>3
    <2> QED BY <2>2, <2>3, <2>4
  <1>7. WritesReport(tx[s]) => status = "draft"
    BY <1>1, <1>3 DEF Flushes, ItemsInv, KnowsReport, WritesItem
  <1>8. SubmittedTotalIsSum'
    BY <1>7 DEF CommitItem, ItemsInv, SubmittedTotalIsSum, UnderReview
  <1>9. PaymentIsReviewedTotal'
    BY <1>7 DEF CommitItem, ItemsInv, PaymentIsReviewedTotal
  <1> QED BY <1>2, <1>6, <1>8, <1>9, ClosedKnowsNothing DEF ItemsInv

\* A commit that writes the report row and no item.
LEMMA ReportCommitOutdates ==
    ASSUME ItemsInv, NEW s \in Sessions, tx[s].request \in ReportRequests,
           Close(s), amount' = amount
    PROVE  \A o \in Sessions : (KnowsReport(o) /\ KnowsItem(o) /\ KnowsSum(o))'
  <1>1. TypeOK /\ tx[s] # NoTx /\ WritesReport(tx[s]) /\ ~WritesItem(tx[s])
    BY DEF ItemsInv, NoTx, ReportRequests, ItemRequests, WritesReport, WritesItem
  <1>2. tx'[s] = NoTx /\ \A o \in Sessions \ {s} : tx'[o] = Outdated(tx[s], tx[o])
    BY <1>1, AfterClose
  <1>3. ASSUME NEW o \in Sessions \ {s} PROVE (KnowsReport(o) /\ KnowsItem(o) /\ KnowsSum(o))'
    <2>1. tx'[o] = Outdated(tx[s], tx[o])
      BY <1>2
    <2>2. KnowsReport(o)' /\ KnowsSum(o)'
      <3>1. CASE tx[o] = NoTx
        BY <1>1, <2>1, <3>1, OutdatedKeeps DEF KnowsReport, KnowsSum, NoTx
      <3>2. CASE tx[o] # NoTx
        BY <1>1, <2>1, <3>2, OutdatedKeeps DEF KnowsReport, KnowsSum
      <3> QED BY <3>1, <3>2
    <2>3. KnowsItem(o)'
      <3> SUFFICES ASSUME tx[o].request \in ItemRequests PROVE KnowsItem(o)'
        BY <1>1, <2>1, OutdatedKeeps DEF KnowsItem
      <3>1. tx[o] # NoTx
        BY DEF NoTx, ItemRequests
      <3> QED BY <1>1, <2>1, <3>1, OutdatedKeeps DEF ItemsInv, KnowsItem
    <2> QED BY <2>2, <2>3
  <1> QED BY <1>2, <1>3, ClosedKnowsNothing

LEMMA StepKeeps == ItemsInv /\ [Next]_vars => ItemsInv'
  <1> SUFFICES ASSUME ItemsInv, [Next]_vars PROVE ItemsInv'
    OBVIOUS
  <1>t. TypeOK /\ TypeOK'
    BY StepTyped DEF ItemsInv
  <1>1. CASE UNCHANGED vars
    BY <1>1, <1>t DEF vars, ItemsInv, KnowsReport, KnowsItem, KnowsSum, OneAddPerSlot,
                      SubmittedTotalIsSum, PaymentIsReviewedTotal
  <1>2. ASSUME NEW s \in Sessions, NEW request \in ItemRequests, NEW i \in Items,
               NEW a \in {0} \cup Amounts, OpenItem(s, request, i, a)
        PROVE  ItemsInv'
    <2>1. tx'[s] = [request |-> request, item |-> i, was |-> amount[i], to |-> a,
                    loaded |-> total, summed |-> FALSE, sum |-> 0, stale |-> {}]
      BY <1>2, <1>t DEF OpenItem, TypeOK
    <2>2. \A o \in Sessions \ {s} : tx'[o] = tx[o]
      BY <1>2, <1>t DEF OpenItem, TypeOK
    <2>3. (KnowsReport(s) /\ KnowsItem(s) /\ KnowsSum(s))'
      BY <1>2, <2>1 DEF OpenItem, KnowsReport, KnowsItem, KnowsSum, ItemRequests
    <2>4. \A o \in Sessions \ {s} :
              tx'[s].request = "add" /\ tx[o].request = "add" => tx'[s].item # tx[o].item
      BY <1>2, <2>1 DEF OpenItem
    <2> QED BY <1>2, <1>t, <2>2, <2>3, <2>4, OnlySession DEF OpenItem
  <1>3. ASSUME NEW s \in Sessions, NEW request \in ReportRequests, OpenReport(s, request)
        PROVE  ItemsInv'
    <2>1. tx'[s] = [request |-> request, loaded |-> total,
                    summed |-> FALSE, sum |-> 0, stale |-> {}]
      BY <1>3, <1>t DEF OpenReport, TypeOK
    <2>2. \A o \in Sessions \ {s} : tx'[o] = tx[o]
      BY <1>3, <1>t DEF OpenReport, TypeOK
    <2>3. (KnowsReport(s) /\ KnowsItem(s) /\ KnowsSum(s))'
      BY <1>3, <2>1 DEF OpenReport, KnowsReport, KnowsItem, KnowsSum, ItemRequests, ReportRequests
    <2>4. tx'[s].request # "add"
      BY <2>1 DEF ReportRequests
    <2> QED BY <1>3, <1>t, <2>2, <2>3, <2>4, OnlySession DEF OpenReport
  <1>4. ASSUME NEW s \in Sessions, RecomputeTotal(s) PROVE ItemsInv'
    <2>1. tx[s] \in ItemTransaction \cup ReportTransaction /\ tx[s] # NoTx
      BY <1>4, <1>t, Kinds DEF RecomputeTotal, ReportRequests, NoTx, ItemRequests
    <2>2. tx'[s] = [tx[s] EXCEPT !.summed = TRUE, !.sum = SumSeen(tx[s]), !.stale = @ \ {"sum"}]
      BY <1>4, <1>t DEF RecomputeTotal, TypeOK
    <2>3. \A o \in Sessions \ {s} : tx'[o] = tx[o]
      BY <1>4, <1>t DEF RecomputeTotal, TypeOK
    <2>4. /\ tx'[s].request = tx[s].request /\ tx'[s].loaded = tx[s].loaded
          /\ tx'[s].stale = tx[s].stale \ {"sum"} /\ tx'[s].sum = SumSeen(tx[s])
          /\ tx[s].request \in ItemRequests => tx'[s].item = tx[s].item /\ tx'[s].was = tx[s].was
      BY <2>1, <2>2 DEF ItemTransaction, ReportTransaction, ItemRequests, ReportRequests
    <2>5. KnowsReport(s)'
      BY <1>4, <2>1, <2>4 DEF ItemsInv, RecomputeTotal, KnowsReport
    <2>6. KnowsItem(s)'
      BY <1>4, <2>4 DEF ItemsInv, RecomputeTotal, KnowsItem
    <2>7. KnowsSum(s)'
      BY <1>4, <2>4 DEF RecomputeTotal, KnowsSum, SumSeen
    <2>8. \A o \in Sessions \ {s} :
              tx'[s].request = "add" /\ tx[o].request = "add" => tx'[s].item # tx[o].item
      BY <2>4 DEF ItemsInv, OneAddPerSlot, ItemRequests
    <2> QED BY <1>4, <1>t, <2>3, <2>5, <2>6, <2>7, <2>8, OnlySession DEF RecomputeTotal
  <1>5. ASSUME NEW s \in Sessions, CommitItem(s) PROVE ItemsInv'
    BY <1>5, <1>t, CommitItemKeeps
  <1>6. ASSUME NEW s \in Sessions, CommitSubmit(s) PROVE ItemsInv'
    <2>1. tx[s].request \in ReportRequests /\ tx[s] # NoTx
      BY <1>6 DEF CommitSubmit, ReportRequests, NoTx
    <2>2. \A o \in Sessions : (KnowsReport(o) /\ KnowsItem(o) /\ KnowsSum(o))'
      BY <1>6, <2>1, ReportCommitOutdates DEF CommitSubmit
    <2>3. OneAddPerSlot'
      BY <1>6, <2>1, AfterClose DEF CommitSubmit
    <2>4. "report" \notin tx[s].stale
      BY <1>6, <2>1 DEF CommitSubmit, Flushes, WritesReport
    <2>5. SubmittedTotalIsSum'
      BY <1>6, <2>4 DEF CommitSubmit, ItemsInv, KnowsSum, SubmittedTotalIsSum
    <2>6. status = "draft"
      BY <1>6, <2>1, <2>4 DEF CommitSubmit, ItemsInv, KnowsReport
    <2>7. PaymentIsReviewedTotal'
      BY <1>6, <2>6 DEF CommitSubmit, ItemsInv, PaymentIsReviewedTotal
    <2> QED BY <1>t, <2>2, <2>3, <2>5, <2>7 DEF ItemsInv
  <1>7. ASSUME NEW s \in Sessions, CommitTurnBack(s) PROVE ItemsInv'
    <2>1. tx[s].request \in ReportRequests /\ tx[s] # NoTx
      BY <1>7 DEF CommitTurnBack, ReportRequests, NoTx
    <2>2. \A o \in Sessions : (KnowsReport(o) /\ KnowsItem(o) /\ KnowsSum(o))'
      BY <1>7, <2>1, ReportCommitOutdates DEF CommitTurnBack
    <2>3. OneAddPerSlot'
      BY <1>7, <2>1, AfterClose DEF CommitTurnBack
    <2>4. status = "submitted"
      BY <1>7, <2>1 DEF CommitTurnBack, Flushes, WritesReport, ItemsInv, KnowsReport, ItemRequests
    <2>5. SubmittedTotalIsSum' /\ PaymentIsReviewedTotal'
      BY <1>7, <2>4 DEF CommitTurnBack, ItemsInv, SubmittedTotalIsSum, PaymentIsReviewedTotal,
                        UnderReview
    <2> QED BY <1>t, <2>2, <2>3, <2>5 DEF ItemsInv
  <1>8. ASSUME NEW s \in Sessions, CommitApprove(s) PROVE ItemsInv'
    <2>1. tx[s].request \in ReportRequests /\ tx[s] # NoTx
      BY <1>8 DEF CommitApprove, ReportRequests, NoTx
    <2>2. \A o \in Sessions : (KnowsReport(o) /\ KnowsItem(o) /\ KnowsSum(o))'
      BY <1>8, <2>1, ReportCommitOutdates DEF CommitApprove
    <2>3. OneAddPerSlot'
      BY <1>8, <2>1, AfterClose DEF CommitApprove
    <2>4. status = "submitted" /\ tx[s].loaded = total
      BY <1>8, <2>1 DEF CommitApprove, Flushes, WritesReport, ItemsInv, KnowsReport, ItemRequests
    <2>5. SubmittedTotalIsSum' /\ PaymentIsReviewedTotal'
      BY <1>8, <2>4 DEF CommitApprove, ItemsInv, SubmittedTotalIsSum, PaymentIsReviewedTotal,
                        UnderReview
    <2> QED BY <1>t, <2>2, <2>3, <2>5 DEF ItemsInv
  <1>9. ASSUME NEW s \in Sessions, Rollback(s) PROVE ItemsInv'
    <2>1. tx'[s] = NoTx /\ \A o \in Sessions \ {s} : tx'[o] = tx[o]
      BY <1>9, <1>t DEF Rollback, TypeOK
    <2>2. tx'[s].request # "add"
      BY <2>1 DEF NoTx
    <2> QED BY <1>9, <1>t, <2>1, <2>2, ClosedKnowsNothing, OnlySession DEF Rollback
  <1> QED BY <1>1, <1>2, <1>3, <1>4, <1>5, <1>6, <1>7, <1>8, <1>9 DEF Next

LEMMA Invariance == Spec => []ItemsInv
  BY InitHolds, StepKeeps, PTL DEF Spec

-----------------------------------------------------------------------------
(***************************************************************************)
(* The theorems.                                                           *)
(***************************************************************************)

\* The rows and the open transactions always have their types.
THEOREM TypeCorrect == Spec => []TypeOK
  <1>1. ItemsInv => TypeOK
    BY DEF ItemsInv
  <1> QED BY <1>1, Invariance, PTL

\* However many requests overlap, the total under review is the sum of the
\* items unless one of them was changed behind it.
THEOREM TotalIsSum == Spec => []SubmittedTotalIsSum
  <1>1. ItemsInv => SubmittedTotalIsSum
    BY DEF ItemsInv
  <1> QED BY <1>1, Invariance, PTL

\* The payment is the total under review.
THEOREM PaysTheTotal == Spec => []PaymentIsReviewedTotal
  <1>1. ItemsInv => PaymentIsReviewedTotal
    BY DEF ItemsInv
  <1> QED BY <1>1, Invariance, PTL

\* The version of the report row keeps its total fixed under review.
THEOREM TotalFrozen == Spec => ReviewedTotalFrozen
  <1>1. ItemsInv /\ [Next]_vars => (UnderReview(status) /\ UnderReview(status') => total' = total)
    <2> SUFFICES ASSUME ItemsInv, [Next]_vars, UnderReview(status) PROVE total' = total
      OBVIOUS
    <2>1. ASSUME NEW s \in Sessions, CommitItem(s) PROVE total' = total
      <3>1. tx[s] # NoTx /\ tx[s].request \in ItemRequests /\ Flushes(tx[s])
        BY <2>1 DEF CommitItem, WritesItem, NoTx, ItemRequests
      <3>2. ~WritesReport(tx[s])
        BY <3>1 DEF Flushes, ItemsInv, KnowsReport, UnderReview
      <3> QED BY <2>1, <3>2 DEF CommitItem
    <2>2. ASSUME NEW s \in Sessions, CommitSubmit(s) PROVE total' = total
      <3>1. tx[s] # NoTx /\ "report" \notin tx[s].stale
        BY <2>2 DEF CommitSubmit, Flushes, WritesReport, ReportRequests, NoTx
      <3> QED BY <2>2, <3>1 DEF CommitSubmit, ItemsInv, KnowsReport, UnderReview
    <2> QED BY <2>1, <2>2 DEF Next, vars, OpenItem, OpenReport, RecomputeTotal,
                              CommitTurnBack, CommitApprove, Rollback
  <1> QED BY <1>1, Invariance, PTL DEF Spec, ReviewedTotalFrozen

\* The version of the item row lets nobody overwrite what he has not seen.
THEOREM EditsAreSeen == Spec => NoLostEdit
  <1>1. ItemsInv => \A s \in Sessions : CommitItem(s) => amount[tx[s].item] = tx[s].was
    <2> SUFFICES ASSUME ItemsInv, NEW s \in Sessions, CommitItem(s)
                 PROVE  amount[tx[s].item] = tx[s].was
      OBVIOUS
    <2>1. KnowsItem(s) /\ tx[s].request \in ItemRequests /\ Flushes(tx[s])
      BY DEF ItemsInv, CommitItem, WritesItem
    <2> QED BY <2>1 DEF KnowsItem, Flushes, ItemRequests
  <1> QED BY <1>1, Invariance, PTL DEF Spec, NoLostEdit

-----------------------------------------------------------------------------
(***************************************************************************)
(* PolicyVersions. The proofs rest on what the slow request still knows of *)
(* its version, on what a step may do to a version, and on the totals of   *)
(* sets of lines. Total is a fold over a set: what it computes is proved   *)
(* by taking a least counterexample, a smallest set of lines.              *)
(***************************************************************************)

\* A set of numbers that is not empty has a least one.
LEMMA LeastNumber ==
    ASSUME NEW T, T \subseteq Nat, T # {}
    PROVE  \E n \in T : \A m \in T : n <= m
  <1> DEFINE R == OpToRel(<, Nat)
  <1>1. IsWellFoundedOn(R, Nat)
    BY NatLessThanWellFounded
  <1>2. \A m, n \in Nat : m < n => <<m, n>> \in R
    BY DEF OpToRel
  <1> HIDE DEF R
  <1>3. PICK n \in T : \A m \in T : ~ (<<m, n>> \in R)
    BY <1>1, WFMin
  <1>4. ASSUME NEW m \in T PROVE n <= m
    <2>1. m \in Nat /\ n \in Nat /\ ~ (m < n)
      BY <1>2, <1>3
    <2> QED BY <2>1
  <1> QED BY <1>4

\* A set of finite sets that is not empty has one none of whose reducts is in it.
LEMMA SmallestSet ==
    ASSUME NEW S, IsFiniteSet(S), NEW Bad, Bad \subseteq SUBSET S, Bad # {}
    PROVE  \E s \in Bad : \A x \in s : s \ {x} \notin Bad
  <1>1. \A s \in Bad : IsFiniteSet(s) /\ Cardinality(s) \in Nat
    BY FS_Subset, FS_CardinalityType
  <1> DEFINE Sizes == { Cardinality(s) : s \in Bad }
  <1>2. PICK n \in Sizes : \A m \in Sizes : n <= m
    <2>1. Sizes \subseteq Nat /\ Sizes # {}
      BY <1>1
    <2> HIDE DEF Sizes
    <2> QED BY <2>1, LeastNumber
  <1>3. PICK s \in Bad : n = Cardinality(s)
    BY <1>2
  <1>4. ASSUME NEW x \in s PROVE s \ {x} \notin Bad
    <2>1. Cardinality(s \ {x}) = Cardinality(s) - 1
      BY <1>1, FS_RemoveElement
    <2> QED BY <1>1, <1>2, <1>3, <2>1
  <1> QED BY <1>4

\* The line a set of lines is summed from, and the sum of a set in terms of
\* that of the rest.
One(s) == CHOOSE x \in s : TRUE

Step(g, items, s) == IF s = {} THEN 0 ELSE items[One(s)].amount + g[s \ {One(s)}]

\* g sums the amounts of every set of the lines.
Sums(g, items, lines) == g = [s \in SUBSET lines |-> Step(g, items, s)]

\* Lines that can be summed.
Amounted(items, lines) ==
    IsFiniteSet(lines) /\ \A i \in lines : items[i].amount \in Nat

\* The fold behind Total sums.
LEMMA TotalDef ==
    ASSUME NEW items, NEW lines
    PROVE  Total(items, lines) = (CHOOSE g : Sums(g, items, lines))[lines]
  BY DEF Sums, Total, MapThenSumSet, MapThenFoldSet, Step, One

\* The line that is summed first, and the rest.
LEMMA Smaller ==
    ASSUME NEW s, IsFiniteSet(s), s # {}
    PROVE  /\ One(s) \in s
           /\ IsFiniteSet(s \ {One(s)})
           /\ Cardinality(s) \in Nat /\ Cardinality(s) # 0
           /\ Cardinality(s \ {One(s)}) = Cardinality(s) - 1
  <1>1. One(s) \in s
    BY DEF One
  <1>2. Cardinality(s) \in Nat /\ Cardinality(s) # 0
    BY FS_CardinalityType, FS_EmptySet
  <1> QED BY <1>1, <1>2, FS_RemoveElement

\* There is a function that sums: were there none for sets up to some size,
\* there would be a least such size.
LEMMA SumsExist ==
    ASSUME NEW items, NEW lines, Amounted(items, lines)
    PROVE  \E g : Sums(g, items, lines)
  <1> DEFINE Upto(n, g) == \A s \in SUBSET lines : Cardinality(s) <= n => g[s] = Step(g, items, s)
             T == { n \in Nat : ~ \E g \in [SUBSET lines -> Int] : Upto(n, g) }
  <1>0. \A s \in SUBSET lines : IsFiniteSet(s) /\ Cardinality(s) \in Nat
    BY FS_Subset, FS_CardinalityType DEF Amounted
  <1>1. ASSUME T # {} PROVE FALSE
    <2>1. PICK n \in T : \A m \in T : n <= m
      <3> HIDE DEF T
      <3>1. T \subseteq Nat
        BY DEF T
      <3> QED BY <1>1, <3>1, LeastNumber
    <2>2. n # 0
      <3> DEFINE g == [s \in SUBSET lines |-> 0]
      <3>1. \A s \in SUBSET lines : Cardinality(s) <= 0 => s = {}
        BY <1>0, FS_EmptySet
      <3>2. Upto(0, g)
        BY <3>1 DEF Step
      <3> QED BY <3>2
    <2>3. PICK g \in [SUBSET lines -> Int] : Upto(n - 1, g)
      <3>1. n \in Nat /\ n - 1 \in Nat /\ ~ (n <= n - 1)
        BY <2>1, <2>2
      <3>2. n - 1 \notin T
        BY <2>1, <3>1
      <3> QED BY <3>1, <3>2
    <2> DEFINE h == [s \in SUBSET lines |-> Step(g, items, s)]
    <2>4. \A s \in SUBSET lines : s # {} =>
            /\ One(s) \in s
            /\ s \ {One(s)} \in SUBSET lines
            /\ Cardinality(s \ {One(s)}) = Cardinality(s) - 1
      BY <1>0, Smaller
    <2>5. h \in [SUBSET lines -> Int]
      <3>1. ASSUME NEW s \in SUBSET lines PROVE Step(g, items, s) \in Int
        <4>1. s # {} => items[One(s)].amount \in Int /\ g[s \ {One(s)}] \in Int
          BY <2>3, <2>4 DEF Amounted
        <4> QED BY <4>1 DEF Step
      <3> QED BY <3>1
    <2>6. ASSUME NEW s \in SUBSET lines, Cardinality(s) <= n
          PROVE  h[s] = Step(h, items, s)
      <3>1. CASE s = {}
        BY <3>1 DEF Step
      <3>2. CASE s # {}
        <4>1. h[s \ {One(s)}] = g[s \ {One(s)}]
          BY <1>0, <2>3, <2>4, <2>6, <3>2
        <4> QED BY <4>1, <3>2 DEF Step
      <3> QED BY <3>1, <3>2
    <2>7. Upto(n, h)
      BY <2>6
    <2> QED BY <2>1, <2>5, <2>7
  <1>2. PICK g \in [SUBSET lines -> Int] : Upto(Cardinality(lines), g)
    BY <1>0, <1>1
  <1>3. \A s \in SUBSET lines : Cardinality(s) <= Cardinality(lines)
    BY FS_Subset DEF Amounted
  <1>4. Sums(g, items, lines)
    BY <1>2, <1>3 DEF Sums
  <1> QED BY <1>4

\* What is summed is a number.
LEMMA SumsAreNatural ==
    ASSUME NEW items, NEW lines, Amounted(items, lines), NEW g,
           Sums(g, items, lines)
    PROVE  g \in [SUBSET lines -> Nat]
  <1> DEFINE Bad == { s \in SUBSET lines : g[s] \notin Nat }
  <1>1. ASSUME Bad # {} PROVE FALSE
    <2>1. PICK s \in Bad : \A x \in s : s \ {x} \notin Bad
      <3>1. Bad \subseteq SUBSET lines
        OBVIOUS
      <3> HIDE DEF Bad
      <3> QED BY <1>1, <3>1, SmallestSet DEF Amounted
    <2>2. g[s] = Step(g, items, s)
      BY DEF Sums
    <2>3. s # {}
      BY <2>2 DEF Step
    <2>4. One(s) \in s
      BY <2>3 DEF One
    <2>5. g[s \ {One(s)}] \in Nat /\ items[One(s)].amount \in Nat
      BY <2>1, <2>4 DEF Amounted
    <2> QED BY <2>1, <2>2, <2>3, <2>5 DEF Step
  <1>2. g = [s \in SUBSET lines |-> g[s]]
    BY DEF Sums
  <1> QED BY <1>1, <1>2

\* Two functions that sum agree where both are defined.
LEMMA SumsAgree ==
    ASSUME NEW items, NEW lines, Amounted(items, lines), NEW part, part \subseteq lines,
           NEW g, Sums(g, items, lines),
           NEW h, Sums(h, items, part)
    PROVE  g[part] = h[part]
  <1> DEFINE Bad == { s \in SUBSET part : g[s] # h[s] }
  <1>1. ASSUME Bad # {} PROVE FALSE
    <2>1. PICK s \in Bad : \A x \in s : s \ {x} \notin Bad
      <3>1. Bad \subseteq SUBSET part /\ IsFiniteSet(part)
        BY FS_Subset DEF Amounted
      <3> HIDE DEF Bad
      <3> QED BY <1>1, <3>1, SmallestSet
    <2>2. g[s] = Step(g, items, s) /\ h[s] = Step(h, items, s)
      BY DEF Sums
    <2>3. s # {}
      BY <2>1, <2>2 DEF Step
    <2>4. One(s) \in s
      BY <2>3 DEF One
    <2>5. g[s \ {One(s)}] = h[s \ {One(s)}]
      BY <2>1, <2>4
    <2> QED BY <2>1, <2>2, <2>3, <2>5 DEF Step
  <1> QED BY <1>1

\* Total is what some function that sums says.
LEMMA TotalOf ==
    ASSUME NEW items, NEW lines, Amounted(items, lines)
    PROVE  \E g : /\ Sums(g, items, lines)
                 /\ Total(items, lines) = g[lines]
  <1> DEFINE it == CHOOSE g : Sums(g, items, lines)
  <1>1. Sums(it, items, lines)
    BY SumsExist
  <1>2. Total(items, lines) = it[lines]
    BY TotalDef
  <1> QED BY <1>1, <1>2

\* The sum of a part is the same wherever it is computed.
LEMMA SumIsTotal ==
    ASSUME NEW items, NEW lines, Amounted(items, lines), NEW part, part \subseteq lines,
           NEW g, Sums(g, items, lines)
    PROVE  g[part] = Total(items, part)
  <1>1. Amounted(items, part)
    BY FS_Subset DEF Amounted
  <1>2. PICK h : /\ Sums(h, items, part)
                 /\ Total(items, part) = h[part]
    BY <1>1, TotalOf
  <1> QED BY <1>2, SumsAgree

LEMMA TotalStep ==
    ASSUME NEW items, NEW lines, Amounted(items, lines)
    PROVE  /\ Total(items, lines) \in Nat
           /\ lines = {} => Total(items, lines) = 0
           /\ lines # {} =>
                Total(items, lines) = items[One(lines)].amount + Total(items, lines \ {One(lines)})
  <1>1. PICK g : /\ Sums(g, items, lines)
                 /\ Total(items, lines) = g[lines]
    BY TotalOf
  <1>2. g[lines] \in Nat
    <2>1. g \in [SUBSET lines -> Nat]
      BY <1>1, SumsAreNatural
    <2> QED BY <2>1
  <1>3. g[lines] = Step(g, items, lines)
    BY <1>1 DEF Sums
  <1>4. g[lines \ {One(lines)}] = Total(items, lines \ {One(lines)})
    BY <1>1, SumIsTotal
  <1> QED BY <1>1, <1>2, <1>3, <1>4 DEF Step

\* Whichever line is taken first, the total is the same.
LEMMA TotalWithout ==
    ASSUME NEW items, NEW lines, Amounted(items, lines), NEW i \in lines
    PROVE  Total(items, lines) = items[i].amount + Total(items, lines \ {i})
  <1> DEFINE Bad == { s \in SUBSET lines :
                        \E x \in s : Total(items, s) # items[x].amount + Total(items, s \ {x}) }
  <1>0. ASSUME NEW s \in SUBSET lines PROVE Amounted(items, s)
    BY FS_Subset DEF Amounted
  <1>1. ASSUME Bad # {} PROVE FALSE
    <2>1. PICK s \in Bad : \A x \in s : s \ {x} \notin Bad
      <3>1. Bad \subseteq SUBSET lines
        OBVIOUS
      <3> HIDE DEF Bad
      <3> QED BY <1>1, <3>1, SmallestSet DEF Amounted
    <2>2. PICK x \in s : Total(items, s) # items[x].amount + Total(items, s \ {x})
      OBVIOUS
    <2> DEFINE y == One(s)
    <2>3. y \in s
      BY <2>2 DEF One
    <2>4. Total(items, s) = items[y].amount + Total(items, s \ {y})
      BY <1>0, <2>2, TotalStep
    <2>5. y # x
      BY <2>2, <2>4
    <2> HIDE DEF y
    <2>6. Total(items, s \ {y}) = items[x].amount + Total(items, (s \ {y}) \ {x})
      BY <2>1, <2>2, <2>3, <2>5
    <2>7. Total(items, s \ {x}) = items[y].amount + Total(items, (s \ {x}) \ {y})
      BY <2>1, <2>2, <2>3, <2>5
    <2>8. (s \ {y}) \ {x} = (s \ {x}) \ {y}
      OBVIOUS
    <2>9. /\ items[x].amount \in Nat /\ items[y].amount \in Nat
          /\ Total(items, (s \ {y}) \ {x}) \in Nat
      BY <1>0, <2>2, <2>3, TotalStep DEF Amounted
    <2> DEFINE rest == Total(items, (s \ {y}) \ {x})
    <2>10. /\ Total(items, s) = items[y].amount + (items[x].amount + rest)
           /\ Total(items, s \ {x}) = items[y].amount + rest
      BY <2>4, <2>6, <2>7, <2>8
    <2>11. rest \in Nat
      BY <2>9
    <2> HIDE DEF rest
    <2>12. Total(items, s) = items[x].amount + Total(items, s \ {x})
      BY <2>9, <2>10, <2>11
    <2> QED BY <2>2, <2>12
  <1> QED BY <1>1

\* More lines do not make a smaller total.
LEMMA TotalMonotone ==
    ASSUME NEW items, NEW lines, Amounted(items, lines), NEW part, part \subseteq lines
    PROVE  Total(items, part) <= Total(items, lines)
  <1> DEFINE Bad == { s \in SUBSET lines :
                        \E t \in SUBSET s : ~ (Total(items, t) <= Total(items, s)) }
  <1>0. ASSUME NEW s \in SUBSET lines PROVE Amounted(items, s) /\ Total(items, s) \in Nat
    BY FS_Subset, TotalStep DEF Amounted
  <1>1. ASSUME Bad # {} PROVE FALSE
    <2>1. PICK s \in Bad : \A x \in s : s \ {x} \notin Bad
      <3>1. Bad \subseteq SUBSET lines
        OBVIOUS
      <3> HIDE DEF Bad
      <3> QED BY <1>1, <3>1, SmallestSet DEF Amounted
    <2>2. PICK t \in SUBSET s : ~ (Total(items, t) <= Total(items, s))
      OBVIOUS
    <2>3. t # s
      BY <1>0, <2>2
    <2>4. PICK x \in s : x \notin t
      BY <2>3
    <2>5. Total(items, t) <= Total(items, s \ {x})
      <3>1. t \in SUBSET (s \ {x}) /\ s \ {x} \in SUBSET lines
        BY <2>4
      <3> QED BY <2>1, <3>1
    <2>6. Total(items, s) = items[x].amount + Total(items, s \ {x})
      BY <1>0, TotalWithout
    <2>7. items[x].amount \in Nat /\ Total(items, s \ {x}) \in Nat /\ Total(items, t) \in Nat
      BY <1>0 DEF Amounted
    <2> QED BY <2>2, <2>5, <2>6, <2>7
  <1> QED BY <1>1

-----------------------------------------------------------------------------
AllRules == UNION RuleSets

KeptPolicy == [state : {"kept"}, is_active : BOOLEAN, window : Windows, rules : SUBSET AllRules]

SlowTypes ==
    {Idle}
    \cup [kind : {"update"}, version : Versions, seen : KeptPolicy, window : Windows,
          given : BOOLEAN, rules : SUBSET AllRules, met : SUBSET Marks, activated : SUBSET Versions]
    \cup [kind : {"activate"}, version : Versions, seen : KeptPolicy, at : Times,
          met : SUBSET Marks, activated : SUBSET Versions]

\* The types, those of the slow request included.
TypesInv ==
    /\ PolicyTypeOK
    /\ policy \in [Versions -> {NoPolicy} \cup KeptPolicy]
    /\ slow \in SlowTypes

\* What the slow request still knows of its version.  An edit that was
\* overtaken by an activation has been told so; an activation that was told
\* nothing finds the window and the flag it has read.
SlowInv ==
    /\ slow # Idle => Kept(slow.version)
    /\ slow.kind = "update" /\ Active(slow.version) => {"row", "activation"} \subseteq slow.met
    /\ slow.kind = "activate" =>
          /\ slow.at <= now
          /\ "row" \notin slow.met =>
                /\ policy[slow.version].window = slow.seen.window
          /\ slow.seen.is_active /\ Active(slow.version) /\ "activation" \notin slow.met =>
                policy[slow.version].window = slow.seen.window

\* The version a claim keeps is active, or was superseded or overlapped.
FrozenInv ==
    \A c \in Claims : claim[c].applied # NoVersion =>
        \/ claim[c].applied \in superseded \cup overlapped
        \/ Active(claim[c].applied) /\ policy[claim[c].applied].rules = claim[c].rules

\* An item edit that is open while its claim is under review was open when the
\* claim was submitted, and that has been noted.
BehindInv ==
    \A c \in Claims :
        claim[c].status = "submitted" /\ claim[c].edits # {} => claim[c].behind = "open"

PolicyInv == TypesInv /\ SlowInv /\ FrozenInv /\ BehindInv /\ SubmittedWithinLimits

\* A version that is kept is typed.
LEMMA KeptIsTyped ==
    ASSUME TypesInv, NEW v \in Versions, Kept(v)
    PROVE  policy[v] \in KeptPolicy
  BY DEF TypesInv, Kept

\* Names of rules that get a row keep the catalogue typed.
LEMMA CatalogueTypes ==
    ASSUME TypesInv, NEW rules
    PROVE  WithRowsFor(rules) \in [Categories \cup Vendors -> {"absent", "live", "removed"}]
  BY DEF TypesInv, PolicyTypeOK, WithRowsFor

\* The slow request stays typed when a commit meets it.
LEMMA SlowMeets ==
    ASSUME TypesInv, NEW v \in Versions, NEW marks \in SUBSET Marks, Meet(v, marks)
    PROVE  slow' \in SlowTypes
  <1>1. CASE slow = Idle
    BY <1>1 DEF Meet, SlowTypes
  <1>2. CASE slow # Idle
    BY <1>2 DEF Meet, TypesInv, SlowTypes
  <1> QED BY <1>1, <1>2

\* The types of every variable are those of the invariant.
LEMMA PolicyTypesNext ==
    ASSUME TypesInv,
           policy' \in [Versions -> {NoPolicy} \cup KeptPolicy],
           slow' \in SlowTypes,
           catalogue' \in [Categories \cup Vendors -> {"absent", "live", "removed"}],
           claim' \in [Claims -> ClaimRow],
           now' \in Times,
           superseded' \cup overlapped' \subseteq Versions,
           changes' \in 0..MaxChanges
    PROVE  TypesInv'
  <1>1. PolicyTypeOK'
    BY DEF Kept, KeptPolicy, AllRules, PolicyTypeOK
  <1> QED BY <1>1 DEF TypesInv

\* Every step keeps the types.
LEMMA TypesStep ==
    ASSUME TypesInv, SlowInv, PolicyNext
    PROVE  TypesInv'
  <1>0. /\ policy \in [Versions -> {NoPolicy} \cup KeptPolicy]
        /\ slow \in SlowTypes
        /\ catalogue \in [Categories \cup Vendors -> {"absent", "live", "removed"}]
        /\ claim \in [Claims -> ClaimRow]
        /\ now \in Times
        /\ superseded \cup overlapped \subseteq Versions
        /\ changes \in 0..MaxChanges
    BY DEF TypesInv, PolicyTypeOK
  <1>c. Counted => changes' \in 0..MaxChanges
    BY <1>0, PolicyAssumption DEF Counted
  <1>1. ASSUME NEW v \in Versions, NEW window \in Windows, NEW rules \in RuleSets,
               CreateVersion(v, window, rules)
        PROVE  TypesInv'
    <2>1. policy' \in [Versions -> {NoPolicy} \cup KeptPolicy]
      BY <1>0, <1>1 DEF CreateVersion, KeptPolicy, AllRules
    <2> QED BY <1>0, <1>1, <1>c, <2>1, CatalogueTypes, PolicyTypesNext DEF CreateVersion
  <1>2. ASSUME NEW v \in Versions, NEW e \in Edits(v), UpdateVersion(v, e.window, e.given, e.rules)
        PROVE  TypesInv'
    <2>1. e.window \in Windows /\ e.given \in BOOLEAN /\ e.rules \subseteq AllRules
      BY DEF Edits, AllRules
    <2>2. policy[v] \in KeptPolicy
      BY <1>2, KeptIsTyped DEF UpdateVersion, Editable
    <2>3. policy' \in [Versions -> {NoPolicy} \cup KeptPolicy]
      BY <1>0, <1>2, <2>1, <2>2 DEF UpdateVersion, KeptPolicy
    <2>4. slow' \in SlowTypes
      BY <1>2, SlowMeets DEF UpdateVersion, Marks
    <2>5. catalogue' \in [Categories \cup Vendors -> {"absent", "live", "removed"}]
      BY <1>0, <1>2, CatalogueTypes DEF UpdateVersion
    <2> QED BY <1>0, <1>2, <1>c, <2>3, <2>4, <2>5, PolicyTypesNext DEF UpdateVersion
  <1>3. ASSUME NEW v \in Versions, NEW cleared \in SUBSET Versions, NEW becomes \in BOOLEAN,
               v \in cleared \/ Kept(v), \A w \in cleared : Active(w)
        PROVE  Activated(v, cleared, becomes) \in [Versions -> {NoPolicy} \cup KeptPolicy]
    BY <1>0, <1>3 DEF Activated, Active, Kept, KeptPolicy
  <1>4. ASSUME NEW v \in Versions, ActivateVersion(v)
        PROVE  TypesInv'
    <2> DEFINE cleared == Cleared(v, policy[v].window.from, now)
    <2>1. cleared \in SUBSET Versions /\ \A w \in cleared : Active(w)
      BY DEF Cleared
    <2>2. policy' = Activated(v, cleared, TRUE) /\ superseded' = superseded \cup cleared /\ Kept(v)
      BY <1>4 DEF ActivateVersion
    <2> HIDE DEF cleared
    <2>3. policy' \in [Versions -> {NoPolicy} \cup KeptPolicy]
      BY <1>3, <2>1, <2>2
    <2>4. slow' \in SlowTypes
      BY <1>4, SlowMeets DEF ActivateVersion, Marks
    <2> QED BY <1>0, <1>4, <1>c, <2>1, <2>2, <2>3, <2>4, PolicyTypesNext DEF ActivateVersion
  <1>5. ASSUME NEW v \in Versions, AttachDocument(v)
        PROVE  TypesInv'
    <2>1. slow' \in SlowTypes
      BY <1>5, SlowMeets DEF AttachDocument, Marks
    <2> QED BY <1>0, <1>5, <1>c, <2>1, PolicyTypesNext DEF AttachDocument
  <1>6. ASSUME NEW v \in Versions, NEW e \in Edits(v), ReadToUpdate(v, e.window, e.given, e.rules)
        PROVE  TypesInv'
    <2>1. e.window \in Windows /\ e.given \in BOOLEAN /\ e.rules \subseteq AllRules
      BY DEF Edits, AllRules
    <2>2. policy[v] \in KeptPolicy
      BY <1>6, KeptIsTyped DEF ReadToUpdate, Editable
    <2>3. slow' \in SlowTypes
      BY <1>6, <2>1, <2>2 DEF ReadToUpdate, SlowTypes
    <2> QED BY <1>0, <1>6, <2>3, PolicyTypesNext DEF ReadToUpdate
  <1>7. ASSUME NEW v \in Versions, ReadToActivate(v)
        PROVE  TypesInv'
    <2>1. slow' \in SlowTypes
      BY <1>0, <1>7, KeptIsTyped DEF ReadToActivate, SlowTypes
    <2> QED BY <1>0, <1>7, <2>1, PolicyTypesNext DEF ReadToActivate
  <1>8. ASSUME NEW x \in Categories \cup Vendors, NEW state \in {"live", "removed"}, Catalogued(x, state)
        PROVE  TypesInv'
    BY <1>0, <1>8, <1>c, PolicyTypesNext DEF Catalogued
  <1>9. CASE CommitUpdate
    <2> DEFINE v == slow.version
    <2>1. /\ v \in Versions /\ slow.window \in Windows /\ slow.rules \subseteq AllRules
          /\ slow.seen.rules \subseteq AllRules
      BY <1>0, <1>9 DEF CommitUpdate, SlowTypes, Idle, KeptPolicy
    <2>3. policy[v] \in KeptPolicy
      BY <1>9, <2>1, KeptIsTyped DEF CommitUpdate, SlowInv, Idle
    <2>2. policy' \in [Versions -> {NoPolicy} \cup KeptPolicy]
      BY <1>0, <1>9, <2>1, <2>3 DEF CommitUpdate, KeptPolicy
    <2> QED BY <1>0, <1>9, <1>c, <2>1, <2>2, CatalogueTypes, PolicyTypesNext DEF CommitUpdate, SlowTypes
  <1>10. CASE CommitActivate
    <2> DEFINE v == slow.version
    <2>1. slow # Idle /\ v \in Versions
      BY <1>0, <1>10 DEF CommitActivate, SlowTypes, Idle
    <2>2. Kept(v)
      BY <2>1 DEF SlowInv
    <2>3. PICK cleared \in SUBSET Versions :
            /\ \A w \in cleared : Active(w)
            /\ policy' = Activated(v, cleared, slow.seen.is_active => policy[v].is_active)
            /\ superseded' = superseded \cup cleared
      BY <1>10 DEF CommitActivate, Cleared
    <2>4. policy' \in [Versions -> {NoPolicy} \cup KeptPolicy]
      BY <1>3, <2>1, <2>2, <2>3
    <2> QED BY <1>0, <1>10, <1>c, <2>3, <2>4, PolicyTypesNext DEF CommitActivate, SlowTypes
  <1>11. ASSUME NEW c \in Claims, ClaimNext(c)
        PROVE  TypesInv'
    <2>1. UNCHANGED <<policy, catalogue, now, slow, superseded, overlapped, changes>>
      BY <1>11 DEF ClaimNext, OpenItems, CommitItems, GiveUpItems, Submit, Return
    <2>2. claim' \in [Claims -> ClaimRow]
      <3>1. ASSUME NEW items \in Baskets, OpenItems(c, items) PROVE claim' \in [Claims -> ClaimRow]
        BY <1>0, <3>1 DEF OpenItems, ClaimRow
      <3>4. CASE CommitItems(c)
        BY <1>0, <3>4 DEF CommitItems, ClaimRow
      <3>5. CASE GiveUpItems(c)
        BY <1>0, <3>5 DEF GiveUpItems, ClaimRow
      <3>2. CASE Submit(c)
        <4>1. PICK v \in Versions :
                /\ Kept(v)
                /\ claim' = [claim EXCEPT
                     ![c].applied = v,
                     ![c].rules = policy[v].rules,
                     ![c].lifted = { k \in Categories : catalogue[k] # "live" },
                     ![c].status = IF Violations(claim[c].items, policy[v].rules) = {}
                                   THEN "submitted" ELSE "editable",
                     ![c].behind = IF /\ Violations(claim[c].items, policy[v].rules) = {}
                                      /\ claim[c].edits # {}
                                   THEN "open" ELSE "none"]
          BY <3>2 DEF Submit, Applied, Newest, InForce, Active
        <4>2. policy[v].rules \subseteq UNION RuleSets
          BY <4>1, KeptIsTyped DEF KeptPolicy, AllRules
        <4>3. claim[c] \in ClaimRow
          BY <1>0
        <4>4. ASSUME NEW outcome \in {"editable", "submitted"}, NEW lifted \in SUBSET Categories,
                     NEW behind \in {"open", "none"}
              PROVE  [claim[c] EXCEPT !.applied = v, !.rules = policy[v].rules,
                                      !.lifted = lifted, !.status = outcome,
                                      !.behind = behind] \in ClaimRow
          BY <4>2, <4>3 DEF ClaimRow
        <4>5. claim'[c] \in ClaimRow
          BY <1>0, <4>1, <4>4
        <4> QED BY <1>0, <4>1, <4>5
      <3>3. CASE Return(c)
        <4>1. claim[c] \in ClaimRow
          BY <1>0
        <4>2. [claim[c] EXCEPT !.status = "editable", !.lifted = {}, !.behind = "none"] \in ClaimRow
          BY <4>1 DEF ClaimRow
        <4> QED BY <1>0, <3>3, <4>2 DEF Return
      <3> QED BY <1>11, <3>1, <3>2, <3>3, <3>4, <3>5 DEF ClaimNext
    <2> QED BY <1>0, <2>1, <2>2, PolicyTypesNext
  <1>12. CASE Abandon \/ Tick
    <2>1. now' \in Times
      BY <1>0, <1>12, PolicyAssumption DEF Abandon, Tick, Times
    <2> QED BY <1>0, <1>12, <2>1, PolicyTypesNext DEF Abandon, Tick, SlowTypes
  <1> QED BY <1>1, <1>2, <1>4, <1>5, <1>6, <1>7, <1>8, <1>9, <1>10, <1>11, <1>12
          DEF PolicyNext, VersionNext, AddCategory, DeactivateCategory, CreateVendor, DeactivateVendor

-----------------------------------------------------------------------------
(***************************************************************************)
(* What a request of an administrator may do to a version: it is never     *)
(* deleted, an active one is not edited, and it stays active unless it is  *)
(* superseded.                                                             *)
(***************************************************************************)
WillBeActive(v) == policy'[v] # NoPolicy /\ policy'[v].is_active

Evolves(v) ==
    /\ policy'[v] # NoPolicy
    /\ policy[v].is_active =>
         /\ policy'[v].window = policy[v].window
         /\ policy'[v].is_active \/ (v \in superseded' /\ policy[v].window.from <= now)
         /\ policy'[v].rules = policy[v].rules \/ v \in overlapped'

\* A version that is not written evolves.
LEMMA Unwritten ==
    ASSUME NEW v \in Versions, Kept(v), policy'[v] = policy[v]
    PROVE  Evolves(v)
  BY Zenon DEF Kept, Evolves

\* An activation, with the versions it clears.
LEMMA ActivationEvolves ==
    ASSUME TypesInv, NEW v \in Versions, Kept(v), NEW w \in Versions,
           NEW cleared \in SUBSET Versions, NEW becomes \in BOOLEAN,
           policy' = Activated(w, cleared, becomes), superseded' = superseded \cup cleared,
           \A u \in cleared : policy[u].window.from <= now,
           policy[w].is_active => becomes
    PROVE  Evolves(v)
  <1>0. policy[v] \in KeptPolicy
    BY KeptIsTyped
  <1>1. CASE v \in cleared
    <2>1. policy'[v] = [policy[v] EXCEPT !.is_active = FALSE]
      BY <1>1 DEF Activated
    <2>2. /\ policy'[v].state = "kept"
          /\ policy'[v].window = policy[v].window
          /\ policy'[v].rules = policy[v].rules
      BY <1>0, <2>1 DEF KeptPolicy
    <2>3. policy'[v] # NoPolicy
      BY <2>2 DEF NoPolicy
    <2> QED BY <1>1, <2>2, <2>3 DEF Evolves
  <1>2. CASE v \notin cleared /\ v = w
    <2>1. policy'[v] = [policy[v] EXCEPT !.is_active = becomes]
      BY <1>2 DEF Activated
    <2>2. /\ policy'[v].state = "kept"
          /\ policy'[v].window = policy[v].window
          /\ policy'[v].rules = policy[v].rules
      BY <1>0, <2>1 DEF KeptPolicy
    <2>3. policy'[v].is_active = becomes
      BY <1>0, <2>1 DEF KeptPolicy
    <2>4. policy'[v] # NoPolicy
      BY <2>2 DEF NoPolicy
    <2>5. policy[v].is_active => policy'[v].is_active
      BY <1>2, <2>3, Zenon
    <2> QED BY <2>2, <2>4, <2>5, Zenon DEF Evolves
  <1>3. CASE v \notin cleared /\ v # w
    <2>1. policy'[v] = policy[v]
      BY <1>3 DEF Activated
    <2> QED BY <2>1, Unwritten
  <1> QED BY <1>1, <1>2, <1>3

\* What has happened to a version is not forgotten.
LEMMA HistoriesGrow ==
    ASSUME PolicyNext
    PROVE  superseded \subseteq superseded' /\ overlapped \subseteq overlapped'
  <1>1. ASSUME NEW v \in Versions, VersionNext(v)
        PROVE  superseded \subseteq superseded' /\ overlapped \subseteq overlapped'
    BY <1>1 DEF VersionNext, CreateVersion, UpdateVersion, ActivateVersion, AttachDocument,
                ReadToUpdate, ReadToActivate
  <1>2. ASSUME NEW c \in Claims, ClaimNext(c)
        PROVE  superseded \subseteq superseded' /\ overlapped \subseteq overlapped'
    BY <1>2 DEF ClaimNext, OpenItems, CommitItems, GiveUpItems, Submit, Return
  <1>3. ASSUME CommitUpdate \/ CommitActivate \/ Abandon \/ Tick
        PROVE  superseded \subseteq superseded' /\ overlapped \subseteq overlapped'
    BY <1>3 DEF CommitUpdate, CommitActivate, Abandon, Tick
  <1> QED
    BY <1>1, <1>2, <1>3
       DEF PolicyNext, AddCategory, DeactivateCategory, CreateVendor, DeactivateVendor, Catalogued

\* Every step lets a version evolve.
LEMMA VersionStep ==
    ASSUME TypesInv, SlowInv, PolicyNext, NEW v \in Versions, Kept(v)
    PROVE  Evolves(v)
  <1>0. /\ policy \in [Versions -> {NoPolicy} \cup KeptPolicy]
        /\ policy[v] \in KeptPolicy
        /\ policy[v] # NoPolicy
    BY KeptIsTyped DEF TypesInv, Kept
  <1>2. ASSUME NEW w \in Versions, NEW window \in Windows, NEW rules \in RuleSets,
               CreateVersion(w, window, rules)
        PROVE  Evolves(v)
    BY <1>0, <1>2, Unwritten DEF CreateVersion, Kept
  <1>3. ASSUME NEW w \in Versions, NEW e \in Edits(w), UpdateVersion(w, e.window, e.given, e.rules)
        PROVE  Evolves(v)
    <2>1. CASE w # v
      BY <1>0, <1>3, <2>1, Unwritten DEF UpdateVersion
    <2>2. CASE w = v
      <3>1. ~ policy[v].is_active
        BY <1>3, <2>2 DEF UpdateVersion, Editable
      <3>2. policy'[v].state = "kept"
        BY <1>0, <1>3, <2>2 DEF UpdateVersion, KeptPolicy
      <3>3. policy'[v] # NoPolicy
        BY <3>2 DEF NoPolicy
      <3> QED BY <3>1, <3>3, Zenon DEF Evolves
    <2> QED BY <2>1, <2>2
  <1>5. ASSUME NEW w \in Versions, ActivateVersion(w)
        PROVE  Evolves(v)
    <2> DEFINE cleared == Cleared(w, policy[w].window.from, now)
    <2>1. cleared \in SUBSET Versions /\ \A u \in cleared : policy[u].window.from <= now
      BY DEF Cleared
    <2>2. policy' = Activated(w, cleared, TRUE) /\ superseded' = superseded \cup cleared
      BY <1>5 DEF ActivateVersion
    <2> HIDE DEF cleared
    <2> QED BY <2>1, <2>2, ActivationEvolves
  <1>6. CASE CommitUpdate
    <2>1. slow.version \in Versions /\ (Active(slow.version) => {"row", "activation"} \subseteq slow.met)
      BY <1>6 DEF TypesInv, SlowInv, CommitUpdate, SlowTypes, Idle
    <2>2. CASE slow.version # v
      <3>1. policy'[v] = policy[v]
        BY <1>0, <1>6, <2>1, <2>2 DEF CommitUpdate
      <3> QED BY <3>1, Unwritten
    <2>3. CASE slow.version = v
      <3>1. PICK moved \in BOOLEAN, kept \in {{}, policy[v].rules} :
              /\ moved => "row" \notin slow.met
              /\ policy' = [policy EXCEPT ![v].window = IF moved THEN slow.window ELSE @,
                                          ![v].rules = IF slow.given THEN kept \cup slow.rules ELSE @]
              /\ overlapped' = IF "activation" \in slow.met THEN overlapped \cup {v} ELSE overlapped
        BY <1>6, <2>3 DEF CommitUpdate
      <3>2. /\ policy'[v].state = "kept"
            /\ policy'[v].is_active = policy[v].is_active
            /\ policy'[v].window = IF moved THEN slow.window ELSE policy[v].window
        BY <1>0, <3>1 DEF KeptPolicy
      <3>3. policy'[v] # NoPolicy
        BY <3>2 DEF NoPolicy
      <3>4. policy[v].is_active => policy'[v].window = policy[v].window /\ v \in overlapped'
        BY <2>1, <2>3, <3>1, <3>2 DEF Active
      <3> QED BY <3>2, <3>3, <3>4, Zenon DEF Evolves
    <2> QED BY <2>2, <2>3
  <1>7. CASE CommitActivate
    <2>1. slow.version \in Versions /\ slow.at <= now /\ slow.at \in Nat /\ now \in Nat
      BY <1>7, PolicyAssumption DEF TypesInv, PolicyTypeOK, SlowInv, CommitActivate, SlowTypes, Idle, Times
    <2>2. PICK cleared \in SUBSET Versions :
            /\ \A u \in cleared : Active(u) /\ policy[u].window.from <= slow.at
            /\ policy' = Activated(slow.version, cleared, slow.seen.is_active => policy[slow.version].is_active)
            /\ superseded' = superseded \cup cleared
      BY <1>7 DEF CommitActivate, Cleared
    <2>3. \A u \in cleared : policy[u].window.from <= now
      <3>1. ASSUME NEW u \in cleared PROVE policy[u].window.from \in Nat
        <4>1. u \in Versions /\ Kept(u)
          BY <2>2 DEF Active
        <4>2. policy[u].window \in Windows
          BY <4>1, KeptIsTyped DEF KeptPolicy
        <4> QED BY <4>2, PolicyAssumption
      <3> QED BY <2>1, <2>2, <3>1
    <2> DEFINE becomes == slow.seen.is_active => policy[slow.version].is_active
    <2>5. becomes \in BOOLEAN /\ (policy[slow.version].is_active => becomes)
      BY Zenon
    <2>6. policy' = Activated(slow.version, cleared, becomes)
      BY <2>2
    <2> HIDE DEF becomes
    <2> QED BY <2>1, <2>2, <2>3, <2>5, <2>6, ActivationEvolves
  <1>8. ASSUME UNCHANGED policy
        PROVE  Evolves(v)
    BY <1>8, Unwritten
  <1>9. ASSUME NEW w \in Versions,
               AttachDocument(w) \/ ReadToActivate(w)
                 \/ \E e \in Edits(w) : ReadToUpdate(w, e.window, e.given, e.rules)
        PROVE  Evolves(v)
    BY <1>8, <1>9 DEF AttachDocument, ReadToActivate, ReadToUpdate
  <1>10. ASSUME NEW x, NEW state, Catalogued(x, state)
        PROVE  Evolves(v)
    BY <1>8, <1>10 DEF Catalogued
  <1>11. ASSUME NEW c \in Claims, ClaimNext(c)
        PROVE  Evolves(v)
    BY <1>8, <1>11 DEF ClaimNext, OpenItems, CommitItems, GiveUpItems, Submit, Return
  <1>12. ASSUME Abandon \/ Tick
        PROVE  Evolves(v)
    BY <1>8, <1>12 DEF Abandon, Tick
  <1> QED
    BY <1>2, <1>3, <1>5, <1>6, <1>7, <1>9, <1>10, <1>11, <1>12
       DEF PolicyNext, VersionNext, AddCategory, DeactivateCategory, CreateVendor, DeactivateVendor

-----------------------------------------------------------------------------
\* No slow request, nothing to know.
LEMMA IdleKnowsNothing ==
    ASSUME slow' = Idle
    PROVE  SlowInv'
  <1>1. slow'.kind = "idle"
    BY DEF Idle
  <1> QED BY <1>1 DEF SlowInv

\* A commit that tells the slow request what it did to its version.
LEMMA MeetStep ==
    ASSUME TypesInv, SlowInv, slow # Idle, NEW v \in Versions, NEW marks, Meet(v, marks),
           UNCHANGED now, policy'[slow.version] # NoPolicy,
           WillBeActive(slow.version) /\ ~ Active(slow.version) =>
             slow.version = v /\ {"row", "activation"} \subseteq marks,
           policy'[slow.version].window # policy[slow.version].window =>
             slow.version = v /\ "row" \in marks /\ ~ WillBeActive(slow.version)
    PROVE  SlowInv'
  <1> DEFINE p == slow.version
  <1>1. slow \in SlowTypes \ {Idle}
    BY DEF TypesInv
  <1>2. /\ slow'.kind = slow.kind /\ slow'.version = p /\ slow'.seen = slow.seen
        /\ slow'.met = IF p = v THEN slow.met \cup marks ELSE slow.met
        /\ slow.kind = "activate" => slow'.at = slow.at
    BY <1>1 DEF Meet, SlowTypes
  <1>5. slow.kind = "update" /\ WillBeActive(p) => {"row", "activation"} \subseteq slow'.met
    <2>1. ASSUME slow.kind = "update", WillBeActive(p), Active(p) PROVE {"row", "activation"} \subseteq slow'.met
      BY <1>2, <2>1 DEF SlowInv
    <2>2. ASSUME WillBeActive(p), ~ Active(p) PROVE {"row", "activation"} \subseteq slow'.met
      BY <1>2, <2>2
    <2> QED BY <2>1, <2>2
  <1>6. ASSUME slow.kind = "activate" PROVE slow'.at <= now'
    BY <1>2, <1>6 DEF SlowInv
  <1>7. ASSUME slow.kind = "activate", "row" \notin slow'.met
        PROVE  policy'[p].window = slow'.seen.window
    <2>1. "row" \notin slow.met /\ policy'[p].window = policy[p].window
      BY <1>2, <1>7
    <2> QED BY <1>2, <1>7, <2>1 DEF SlowInv
  <1>8. ASSUME slow.kind = "activate", slow'.seen.is_active, WillBeActive(p), "activation" \notin slow'.met
        PROVE  policy'[p].window = slow'.seen.window
    <2>1. "activation" \notin slow.met /\ policy'[p].window = policy[p].window
      BY <1>2, <1>8
    <2>2. Active(p)
      BY <1>2, <1>8
    <2>3. slow.seen.is_active
      BY <1>2, <1>8
    <2> QED BY <1>2, <1>8, <2>1, <2>2, <2>3 DEF SlowInv
  <1> HIDE DEF p
  <1>9. slow' # Idle => policy'[slow'.version] # NoPolicy
    BY <1>2 DEF p
  <1>10. slow'.kind = "update" /\ WillBeActive(slow'.version) => {"row", "activation"} \subseteq slow'.met
    BY <1>2, <1>5
  <1>11. ASSUME slow'.kind = "activate"
         PROVE  /\ slow'.at <= now'
                /\ "row" \notin slow'.met => policy'[slow'.version].window = slow'.seen.window
    BY <1>2, <1>6, <1>7, <1>11
  <1>12. ASSUME slow'.kind = "activate", slow'.seen.is_active, WillBeActive(slow'.version),
                "activation" \notin slow'.met
         PROVE  policy'[slow'.version].window = slow'.seen.window
    BY <1>2, <1>8, <1>12
  <1> QED BY <1>9, <1>10, <1>11, <1>12, Zenon DEF SlowInv, WillBeActive, Active, Kept

\* A step that writes neither the slow request nor its version.
LEMMA SlowUntouched ==
    ASSUME SlowInv, TypesInv, UNCHANGED slow, slow # Idle => policy'[slow.version] = policy[slow.version],
           now <= now', now \in Nat, now' \in Nat
    PROVE  SlowInv'
  <1>1. CASE slow = Idle
    BY <1>1, IdleKnowsNothing
  <1>2. CASE slow # Idle
    <2>1. slow' = slow /\ policy'[slow.version] = policy[slow.version]
      BY <1>2
    <2>2. slow.kind = "activate" => slow.at \in Nat
      BY <1>2, PolicyAssumption DEF TypesInv, SlowTypes, Times
    <2>3. slow.kind = "activate" => slow.at <= now'
      BY <2>2 DEF SlowInv
    <2> QED BY <1>2, <2>1, <2>3 DEF SlowInv, Kept, Active
  <1> QED BY <1>1, <1>2

\* Every step keeps what the slow request knows true.
LEMMA SlowStep ==
    ASSUME TypesInv, SlowInv, PolicyNext
    PROVE  SlowInv'
  <1>0. /\ policy \in [Versions -> {NoPolicy} \cup KeptPolicy]
        /\ slow \in SlowTypes
        /\ slow # Idle => slow.version \in Versions /\ policy[slow.version] \in KeptPolicy
                            /\ policy[slow.version] # NoPolicy
        /\ now \in Nat
    <2>1. slow # Idle => slow.version \in Versions
      BY DEF TypesInv, SlowTypes
    <2>2. slow # Idle => Kept(slow.version)
      BY DEF SlowInv
    <2>3. slow # Idle => policy[slow.version] \in KeptPolicy
      BY <2>1, <2>2, KeptIsTyped
    <2>4. now \in Nat
      BY PolicyAssumption DEF TypesInv, PolicyTypeOK, Times
    <2> QED BY <2>1, <2>2, <2>3, <2>4 DEF TypesInv, Kept
  <1> DEFINE p == slow.version
  <1>e. slow # Idle => Evolves(p)
    BY <1>0, VersionStep DEF Kept
  <1>1. ASSUME UNCHANGED <<slow, policy, now>> PROVE SlowInv'
    BY <1>0, <1>1, SlowUntouched
  <1>2. ASSUME NEW v \in Versions, NEW window \in Windows, NEW rules \in RuleSets,
               CreateVersion(v, window, rules)
        PROVE  SlowInv'
    <2>1. slow # Idle => policy'[p] = policy[p]
      BY <1>0, <1>2 DEF CreateVersion, Kept
    <2> QED BY <1>0, <1>2, <2>1, SlowUntouched DEF CreateVersion
  <1>3. ASSUME NEW v \in Versions, NEW e \in Edits(v), UpdateVersion(v, e.window, e.given, e.rules)
        PROVE  SlowInv'
    <2> DEFINE marks == (IF e.window # policy[v].window THEN {"row"} ELSE {})
                          \cup (IF e.given THEN {"rules"} ELSE {})
    <2>1. CASE slow = Idle
      BY <1>3, <2>1, IdleKnowsNothing DEF UpdateVersion, Meet
    <2>2. CASE slow # Idle
      <3>1. Meet(v, marks) /\ UNCHANGED now
        BY <1>3 DEF UpdateVersion
      <3>2. policy'[p] # NoPolicy
        BY <1>e, <2>2 DEF Evolves
      <3>3. CASE p # v
        <4>1. policy'[p] = policy[p]
          BY <1>0, <1>3, <2>2, <3>3 DEF UpdateVersion
        <4>2. WillBeActive(p) => Active(p)
          BY <4>1 DEF WillBeActive, Active, Kept
        <4> QED BY <2>2, <3>1, <3>2, <4>1, <4>2, MeetStep
      <3>4. CASE p = v
        <4>1. policy'[p].is_active = policy[p].is_active /\ policy'[p].window = e.window
          BY <1>0, <1>3, <2>2, <3>4 DEF UpdateVersion, KeptPolicy
        <4>2. ~ policy[p].is_active
          BY <1>3, <3>4 DEF UpdateVersion, Editable
        <4>4. ~ WillBeActive(p)
          BY <4>1, <4>2, Zenon DEF WillBeActive
        <4>3. policy'[p].window # policy[p].window => "row" \in marks
          BY <3>4, <4>1
        <4> HIDE DEF marks
        <4> QED BY <2>2, <3>1, <3>2, <3>4, <4>3, <4>4, MeetStep
      <3> QED BY <3>3, <3>4
    <2> QED BY <2>1, <2>2
  <1>4. ASSUME NEW v \in Versions, ActivateVersion(v)
        PROVE  SlowInv'
    <2> DEFINE marks == IF Active(v) THEN {} ELSE {"row", "activation"}
               cleared == Cleared(v, policy[v].window.from, now)
    <2>1. CASE slow = Idle
      BY <1>4, <2>1, IdleKnowsNothing DEF ActivateVersion, Meet
    <2>2. CASE slow # Idle
      <3>1. Meet(v, marks) /\ UNCHANGED now /\ policy' = Activated(v, cleared, TRUE)
        BY <1>4 DEF ActivateVersion
      <3>2. policy'[p] # NoPolicy
        BY <1>e, <2>2 DEF Evolves
      <3>3. policy'[p].window = policy[p].window
        BY <1>0, <2>2, <3>1 DEF Activated, KeptPolicy
      <3>4. ASSUME WillBeActive(p), ~ Active(p) PROVE p = v
        <4>1. CASE p \in cleared
          BY <3>4, <4>1 DEF Cleared
        <4>2. CASE p \notin cleared /\ p # v
          <5>1. policy'[p] = policy[p]
            BY <1>0, <2>2, <3>1, <4>2 DEF Activated
          <5> QED BY <3>4, <5>1 DEF WillBeActive, Active, Kept
        <4> QED BY <4>1, <4>2
      <3>5. ~ Active(v) => {"row", "activation"} \subseteq marks
        OBVIOUS
      <3> HIDE DEF marks, cleared
      <3> QED BY <2>2, <3>1, <3>2, <3>3, <3>4, <3>5, MeetStep
    <2> QED BY <2>1, <2>2
  <1>5. ASSUME NEW v \in Versions, AttachDocument(v)
        PROVE  SlowInv'
    <2>1. CASE slow = Idle
      BY <1>5, <2>1, IdleKnowsNothing DEF AttachDocument, Meet
    <2>2. CASE slow # Idle
      <3>1. Meet(v, {"row"}) /\ UNCHANGED <<now, policy>>
        BY <1>5 DEF AttachDocument
      <3>2. /\ policy'[p] # NoPolicy /\ policy'[p].window = policy[p].window
            /\ WillBeActive(p) => Active(p)
        BY <1>0, <2>2, <3>1 DEF WillBeActive, Kept, Active
      <3> QED BY <2>2, <3>1, <3>2, MeetStep
    <2> QED BY <2>1, <2>2
  <1>6. ASSUME NEW v \in Versions, NEW e \in Edits(v), ReadToUpdate(v, e.window, e.given, e.rules)
        PROVE  SlowInv'
    <2>1. slow'.kind = "update" /\ slow'.version = v
      BY <1>6 DEF ReadToUpdate
    <2>2. policy' = policy /\ Kept(v) /\ ~ policy[v].is_active
      BY <1>6 DEF ReadToUpdate, Editable
    <2>3. policy'[slow'.version] # NoPolicy /\ ~ policy'[slow'.version].is_active
      BY <2>1, <2>2, Zenon DEF Kept
    <2> QED BY <2>1, <2>3 DEF SlowInv, Active, Kept
  <1>7. ASSUME NEW v \in Versions, ReadToActivate(v)
        PROVE  SlowInv'
    <2>1. slow'.kind = "activate" /\ slow'.version = v /\ slow'.seen = policy[v] /\ slow'.at = now
      BY <1>7 DEF ReadToActivate
    <2>2. policy' = policy /\ Kept(v) /\ now' = now
      BY <1>7 DEF ReadToActivate
    <2>3. policy'[slow'.version] # NoPolicy /\ policy'[slow'.version].window = slow'.seen.window
      BY <2>1, <2>2 DEF Kept
    <2>4. slow'.at <= now'
      BY <1>0, <2>1, <2>2
    <2> QED BY <2>1, <2>3, <2>4 DEF SlowInv, Kept
  <1>8. ASSUME NEW x, NEW state, Catalogued(x, state)
        PROVE  SlowInv'
    BY <1>1, <1>8 DEF Catalogued
  <1>9. ASSUME CommitUpdate \/ CommitActivate \/ Abandon
        PROVE  SlowInv'
    BY <1>9, IdleKnowsNothing DEF CommitUpdate, CommitActivate, Abandon
  <1>10. ASSUME NEW c \in Claims, ClaimNext(c)
        PROVE  SlowInv'
    BY <1>1, <1>10 DEF ClaimNext, OpenItems, CommitItems, GiveUpItems, Submit, Return
  <1>11. ASSUME Tick
        PROVE  SlowInv'
    <2>1. now' \in Nat /\ now <= now' /\ UNCHANGED <<policy, slow>>
      BY <1>0, <1>11 DEF Tick
    <2> QED BY <1>0, <2>1, SlowUntouched
  <1> QED
    BY <1>2, <1>3, <1>4, <1>5, <1>6, <1>7, <1>8, <1>9, <1>10, <1>11
       DEF PolicyNext, VersionNext, AddCategory, DeactivateCategory, CreateVendor, DeactivateVendor

\* A request of an administrator writes no claim.
LEMMA ClaimsAreSeparate ==
    ASSUME PolicyNext
    PROVE  (\E c \in Claims : ClaimNext(c)) \/ UNCHANGED claim
  <1>1. ASSUME NEW v \in Versions, VersionNext(v) PROVE UNCHANGED claim
    BY <1>1 DEF VersionNext, CreateVersion, UpdateVersion, ActivateVersion, AttachDocument,
                ReadToUpdate, ReadToActivate
  <1>2. ASSUME CommitUpdate \/ CommitActivate \/ Abandon \/ Tick PROVE UNCHANGED claim
    BY <1>2 DEF CommitUpdate, CommitActivate, Abandon, Tick
  <1> QED
    BY <1>1, <1>2
       DEF PolicyNext, AddCategory, DeactivateCategory, CreateVendor, DeactivateVendor, Catalogued

\* What the requests for the items leave of a claim's row.
LEMMA ItemRequestRow ==
    ASSUME TypesInv, NEW c \in Claims, NEW d \in Claims,
           \/ \E items \in Baskets : OpenItems(d, items)
           \/ CommitItems(d) \/ GiveUpItems(d)
    PROVE  /\ claim'[c].applied = claim[c].applied
           /\ claim'[c].rules = claim[c].rules
           /\ claim'[c].lifted = claim[c].lifted
           /\ claim'[c].status = claim[c].status
           /\ \/ claim'[c].edits = {} /\ claim'[c].behind = "committed"
              \/ claim'[c].edits = {} /\ claim'[c].items = claim[c].items
                   /\ claim'[c].behind = claim[c].behind
              \/ claim'[c].edits = {} /\ claim'[c].behind = claim[c].behind
                   /\ claim[c].behind # "open" /\ claim[c].edits # {}
              \/ claim'[c] = claim[c]
              \/ claim[c].status = "editable" /\ claim'[c].items = claim[c].items
                   /\ claim'[c].behind = claim[c].behind
  <1>1. claim \in [Claims -> ClaimRow]
    BY DEF TypesInv, PolicyTypeOK
  <1>2. claim[c] \in ClaimRow
    BY <1>1
  <1>3. CASE \E items \in Baskets : OpenItems(d, items)
    <2>1. PICK items \in Baskets : OpenItems(d, items)
      BY <1>3
    <2>2. claim[d].status = "editable" /\ claim' = [claim EXCEPT ![d].edits = {items}]
      BY <2>1 DEF OpenItems
    <2>3. CASE c = d
      BY <1>1, <1>2, <2>2, <2>3 DEF ClaimRow
    <2>4. CASE c # d
      BY <1>1, <2>2, <2>4
    <2> QED BY <2>3, <2>4
  <1>4. CASE CommitItems(d)
    <2>1. PICK items \in claim[d].edits :
            claim' = [claim EXCEPT ![d].items = items, ![d].edits = {},
                                   ![d].behind = IF @ = "open" THEN "committed" ELSE @]
      BY <1>4 DEF CommitItems
    <2>2. CASE c = d /\ claim[c].behind = "open"
      BY <1>1, <1>2, <2>1, <2>2 DEF ClaimRow
    <2>3. CASE c = d /\ claim[c].behind # "open"
      BY <1>1, <1>2, <2>1, <2>3 DEF ClaimRow
    <2>4. CASE c # d
      BY <1>1, <2>1, <2>4
    <2> QED BY <2>2, <2>3, <2>4
  <1>5. CASE GiveUpItems(d)
    <2>1. claim' = [claim EXCEPT ![d].edits = {}]
      BY <1>5 DEF GiveUpItems
    <2>2. CASE c = d
      BY <1>1, <1>2, <2>1, <2>2 DEF ClaimRow
    <2>3. CASE c # d
      BY <1>1, <2>1, <2>3
    <2> QED BY <2>2, <2>3
  <1> QED BY <1>3, <1>4, <1>5

\* A return touches one claim, which is editable then.
LEMMA ReturnRow ==
    ASSUME TypesInv, NEW c \in Claims, NEW d \in Claims, Return(d)
    PROVE  \/ claim'[c] = claim[c]
           \/ /\ claim'[c].status = "editable"
              /\ claim'[c].applied = claim[c].applied
              /\ claim'[c].rules = claim[c].rules
  <1>1. claim \in [Claims -> ClaimRow]
    BY DEF TypesInv, PolicyTypeOK
  <1>2. claim[c] \in ClaimRow
    BY <1>1
  <1>3. claim' = [claim EXCEPT ![d].status = "editable", ![d].lifted = {}, ![d].behind = "none"]
    BY DEF Return
  <1>4. CASE c = d
    BY <1>1, <1>2, <1>3, <1>4 DEF ClaimRow
  <1>5. CASE c # d
    BY <1>1, <1>3, <1>5
  <1> QED BY <1>4, <1>5

\* What a claim keeps as its policy stays as it was, or is known to be gone.
LEMMA FrozenStep ==
    ASSUME TypesInv, SlowInv, FrozenInv, PolicyNext
    PROVE  FrozenInv'
  <1>0. claim \in [Claims -> ClaimRow]
    BY DEF TypesInv, PolicyTypeOK
  <1>1. ASSUME NEW c \in Claims, claim'[c].applied # NoVersion,
               claim'[c].applied = claim[c].applied, claim'[c].rules = claim[c].rules
        PROVE  \/ claim'[c].applied \in superseded' \cup overlapped'
               \/ WillBeActive(claim'[c].applied) /\ policy'[claim'[c].applied].rules = claim'[c].rules
    <2> DEFINE v == claim[c].applied
    <2>1. v \in Versions
      BY <1>0, <1>1 DEF ClaimRow
    <2>2. CASE v \in superseded \cup overlapped
      BY <1>1, <2>2, HistoriesGrow
    <2>3. CASE Active(v) /\ policy[v].rules = claim[c].rules
      <3>1. Evolves(v)
        BY <2>1, <2>3, VersionStep DEF Active
      <3>2. \/ v \in superseded' \cup overlapped'
            \/ WillBeActive(v) /\ policy'[v].rules = policy[v].rules
        <4>1. policy[v].is_active
          BY <2>3, Zenon DEF Active
        <4>2. policy'[v] # NoPolicy
          BY <3>1 DEF Evolves
        <4>3. policy'[v].is_active \/ v \in superseded'
          BY <3>1, <4>1, Zenon DEF Evolves
        <4>4. policy'[v].rules = policy[v].rules \/ v \in overlapped'
          BY <3>1, <4>1, Zenon DEF Evolves
        <4>5. CASE policy'[v].is_active
          BY <4>2, <4>4, <4>5 DEF WillBeActive
        <4> QED BY <4>3, <4>5
      <3>3. claim'[c].applied = v /\ claim'[c].rules = policy[v].rules
        BY <1>1, <2>3
      <3> QED BY <3>2, <3>3
    <2> QED BY <1>1, <2>2, <2>3 DEF FrozenInv
  <1>2. ASSUME NEW c \in Claims, NEW d \in Claims, Submit(d), claim'[c].applied # NoVersion
        PROVE  \/ claim'[c].applied \in superseded' \cup overlapped'
               \/ WillBeActive(claim'[c].applied) /\ policy'[claim'[c].applied].rules = claim'[c].rules
    <2>1. CASE c # d
      <3>1. claim'[c] = claim[c]
        BY <1>0, <1>2, <2>1 DEF Submit
      <3> QED BY <1>1, <1>2, <3>1
    <2>2. CASE c = d
      <3>1. PICK v \in Versions :
              /\ Active(v)
              /\ claim' = [claim EXCEPT ![c].applied = v, ![c].rules = policy[v].rules,
                     ![c].lifted = { k \in Categories : catalogue[k] # "live" },
                     ![c].status = IF Violations(claim[c].items, policy[v].rules) = {}
                                   THEN "submitted" ELSE "editable",
                     ![c].behind = IF /\ Violations(claim[c].items, policy[v].rules) = {}
                                      /\ claim[c].edits # {}
                                   THEN "open" ELSE "none"]
        BY <1>2, <2>2 DEF Submit, Applied, Newest, InForce
      <3>2. claim'[c].applied = v /\ claim'[c].rules = policy[v].rules
        BY <1>0, <3>1 DEF ClaimRow
      <3>3. policy' = policy
        BY <1>2 DEF Submit
      <3>4. WillBeActive(v)
        BY <3>1, <3>3 DEF WillBeActive, Active, Kept
      <3> QED BY <3>2, <3>3, <3>4
    <2> QED BY <2>1, <2>2
  <1>3. ASSUME NEW c \in Claims, claim'[c].applied # NoVersion, ~ \E d \in Claims : Submit(d)
        PROVE  claim'[c].applied = claim[c].applied /\ claim'[c].rules = claim[c].rules
    <2>1. ASSUME NEW d \in Claims, ClaimNext(d)
          PROVE  claim'[c].applied = claim[c].applied /\ claim'[c].rules = claim[c].rules
      BY <1>3, <2>1, ItemRequestRow, ReturnRow DEF ClaimNext
    <2>2. ASSUME UNCHANGED claim
          PROVE  claim'[c].applied = claim[c].applied /\ claim'[c].rules = claim[c].rules
      BY <2>2
    <2>3. (\E d \in Claims : ClaimNext(d)) \/ UNCHANGED claim
      BY ClaimsAreSeparate
    <2> QED BY <2>1, <2>2, <2>3
  <1> QED BY <1>1, <1>2, <1>3 DEF FrozenInv, WillBeActive, Active, Kept

-----------------------------------------------------------------------------
(***************************************************************************)
(* The totals of a submitted claim.                                        *)
(***************************************************************************)
\* The lines of a basket can be summed.
LEMMA BasketsAreAmounted ==
    ASSUME NEW items \in Baskets, NEW lines \in SUBSET DOMAIN items
    PROVE  Amounted(items, lines)
  BY PolicyAssumption, FS_Subset DEF Amounted

\* A cap is a number, or none.
LEMMA CapsAreNumbers ==
    ASSUME NEW r \in AllRules
    PROVE  {r.max_per_day, r.max_per_trip, r.per_category_cap} \subseteq Nat \cup {NoCap}
  BY PolicyAssumption DEF AllRules, NoCap

\* Lines whose total exceeds a cap: there are some, and all the lines do too.
LEMMA ExceedsMore ==
    ASSUME NEW items \in Baskets, NEW more \in SUBSET DOMAIN items, NEW lines \in SUBSET more,
           NEW cap \in Nat \cup {NoCap}, Exceeds(Total(items, lines), cap)
    PROVE  lines # {} /\ Exceeds(Total(items, more), cap)
  <1>1. Amounted(items, lines) /\ Amounted(items, more)
    BY BasketsAreAmounted
  <1>2. /\ Total(items, lines) \in Nat /\ Total(items, more) \in Nat
        /\ lines = {} => Total(items, lines) = 0
        /\ Total(items, lines) <= Total(items, more)
    BY <1>1, TotalStep, TotalMonotone
  <1>3. cap \in Nat /\ Total(items, lines) > cap
    BY DEF Exceeds, NoCap
  <1> HIDE DEF NoCap
  <1> QED BY <1>2, <1>3 DEF Exceeds

\* One value for all the lines is the value of each.
LEMMA OneValue ==
    ASSUME NEW items \in Baskets, NEW lines \in SUBSET DOMAIN items, NEW values,
           NEW f, values = { f[i] : i \in lines }, Cardinality(values) = 1
    PROVE  \A i, j \in lines : f[i] = f[j]
  <1>1. IsFiniteSet(lines)
    BY BasketsAreAmounted DEF Amounted
  <1>2. IsFiniteSet(values)
    <2> DEFINE g == [i \in lines |-> f[i]]
    <2>1. g \in Surjection(lines, values)
      BY DEF Surjection
    <2> QED BY <1>1, <2>1, FS_Surjection
  <1>3. PICK x : values = {x}
    BY <1>2, FS_Singleton
  <1> QED BY <1>3

\* What SubmittedWithinLimits says of a submitted claim.
Within(items, rules, lifted) ==
    LET In(r) == { i \in DOMAIN items : Applicable(r, items[i]) }
    IN  /\ \A r \in rules, lines \in SUBSET DOMAIN items :
             lines \subseteq In(r) =>
               /\ ~ Exceeds(Total(items, lines), r.max_per_trip)
               /\ Cardinality({ items[i].date : i \in lines }) = 1 =>
                    ~ Exceeds(Total(items, lines), r.max_per_day)
               /\ Cardinality({ items[i].category : i \in lines }) = 1 =>
                    ~ Exceeds(Total(items, lines), r.per_category_cap)
        /\ \A i \in DOMAIN items : items[i].category \notin lifted =>
             ~ Exceeds(items[i].amount, CategoryLimit[items[i].category])

\* Lines that are flagged one by one leave no set of lines over a cap.
LEMMA UnviolatedIsWithin ==
    ASSUME TypesInv, NEW items \in Baskets, NEW rules \in SUBSET AllRules,
           Violations(items, rules) = {}
    PROVE  Within(items, rules, { k \in Categories : catalogue[k] # "live" })
  <1> DEFINE In(r) == { i \in DOMAIN items : Applicable(r, items[i]) }
             lifted == { k \in Categories : catalogue[k] # "live" }
  <1>1. ASSUME NEW r \in rules, NEW i \in In(r) PROVE ~ Breaks(items, i, r)
    BY DEF Violations
  <1>2. ASSUME NEW r \in rules, NEW lines \in SUBSET In(r)
        PROVE  ~ Exceeds(Total(items, lines), r.max_per_trip)
    <2>1. SUFFICES ASSUME Exceeds(Total(items, lines), r.max_per_trip) PROVE FALSE
      OBVIOUS
    <2>2. lines # {} /\ Exceeds(Total(items, In(r)), r.max_per_trip)
      BY <2>1, CapsAreNumbers, ExceedsMore
    <2>3. PICK i \in lines : TRUE
      BY <2>2
    <2>4. Breaks(items, i, r)
      BY <2>2 DEF Breaks
    <2> QED BY <1>1, <2>4
  <1>3. ASSUME NEW r \in rules, NEW lines \in SUBSET In(r), Cardinality({ items[i].date : i \in lines }) = 1
        PROVE  ~ Exceeds(Total(items, lines), r.max_per_day)
    <2>1. SUFFICES ASSUME Exceeds(Total(items, lines), r.max_per_day) PROVE FALSE
      OBVIOUS
    <2>2. lines # {}
      BY <2>1, CapsAreNumbers, ExceedsMore
    <2>3. PICK i \in lines : TRUE
      BY <2>2
    <2> DEFINE day == { j \in In(r) : items[j].date = items[i].date }
               dates == [j \in DOMAIN items |-> items[j].date]
    <2>4. lines \in SUBSET day
      <3>1. { items[j].date : j \in lines } = { dates[j] : j \in lines }
        OBVIOUS
      <3> HIDE DEF dates
      <3>2. lines \in SUBSET DOMAIN items
        OBVIOUS
      <3>3. Cardinality({ dates[j] : j \in lines }) = 1
        BY <1>3, <3>1
      <3>4. \A j, k \in lines : dates[j] = dates[k]
        BY <3>2, <3>3, OneValue
      <3> QED BY <2>3, <3>4 DEF dates
    <2>5. Exceeds(Total(items, day), r.max_per_day)
      <3>1. day \in SUBSET DOMAIN items /\ r.max_per_day \in Nat \cup {NoCap}
        BY CapsAreNumbers
      <3> HIDE DEF day
      <3> QED BY <2>1, <2>4, <3>1, ExceedsMore
    <2>6. Breaks(items, i, r)
      BY <2>5 DEF Breaks
    <2> QED BY <1>1, <2>6
  <1>4. ASSUME NEW r \in rules, NEW lines \in SUBSET In(r),
               Cardinality({ items[i].category : i \in lines }) = 1
        PROVE  ~ Exceeds(Total(items, lines), r.per_category_cap)
    <2>1. SUFFICES ASSUME Exceeds(Total(items, lines), r.per_category_cap) PROVE FALSE
      OBVIOUS
    <2>2. lines # {}
      BY <2>1, CapsAreNumbers, ExceedsMore
    <2>3. PICK i \in lines : TRUE
      BY <2>2
    <2> DEFINE same == { j \in In(r) : items[j].category = items[i].category }
               categories == [j \in DOMAIN items |-> items[j].category]
    <2>4. lines \in SUBSET same
      <3>1. { items[j].category : j \in lines } = { categories[j] : j \in lines }
        OBVIOUS
      <3> HIDE DEF categories
      <3>2. lines \in SUBSET DOMAIN items
        OBVIOUS
      <3>3. Cardinality({ categories[j] : j \in lines }) = 1
        BY <1>4, <3>1
      <3>4. \A j, k \in lines : categories[j] = categories[k]
        BY <3>2, <3>3, OneValue
      <3> QED BY <2>3, <3>4 DEF categories
    <2>5. Exceeds(Total(items, same), r.per_category_cap)
      <3>1. same \in SUBSET DOMAIN items /\ r.per_category_cap \in Nat \cup {NoCap}
        BY CapsAreNumbers
      <3> HIDE DEF same
      <3> QED BY <2>1, <2>4, <3>1, ExceedsMore
    <2>6. Breaks(items, i, r)
      BY <2>5 DEF Breaks
    <2> QED BY <1>1, <2>6
  <1>5. ASSUME NEW i \in DOMAIN items, items[i].category \notin lifted
        PROVE  ~ Exceeds(items[i].amount, CategoryLimit[items[i].category])
    <2>1. items[i].category \in Categories
      BY PolicyAssumption
    <2>2. catalogue[items[i].category] = "live"
      BY <1>5, <2>1
    <2>3. ~ OverCategoryLimit(items[i])
      BY DEF Violations
    <2> QED BY <2>2, <2>3 DEF OverCategoryLimit
  <1> QED BY <1>2, <1>3, <1>4, <1>5, Zenon DEF Within

\* An edit is opened before the submission or after the return, and a
\* submission notes whether one is open.
LEMMA BehindStep ==
    ASSUME TypesInv, BehindInv, PolicyNext \/ UNCHANGED claim
    PROVE  BehindInv'
  <1>0. claim \in [Claims -> ClaimRow]
    BY DEF TypesInv, PolicyTypeOK
  <1>1. SUFFICES ASSUME NEW c \in Claims, claim'[c].status = "submitted", claim'[c].edits # {}
                 PROVE  claim'[c].behind = "open"
    BY DEF BehindInv
  <1>2. CASE claim'[c] = claim[c]
    BY <1>1, <1>2 DEF BehindInv
  <1>3. CASE claim'[c] # claim[c]
    <2>1. PICK d \in Claims : ClaimNext(d)
      BY <1>3, ClaimsAreSeparate
    <2>2. CASE \/ \E items \in Baskets : OpenItems(d, items)
               \/ CommitItems(d) \/ GiveUpItems(d)
      <3>1. claim[c].status = "submitted"
        BY <1>1, <2>2, ItemRequestRow
      <3> QED BY <1>1, <1>3, <2>2, <3>1, ItemRequestRow DEF BehindInv
    <2>4. CASE Return(d)
      BY <1>1, <1>3, <2>4, ReturnRow
    <2>3. CASE Submit(d)
      <3>1. c = d
        BY <1>0, <1>3, <2>3 DEF Submit
      <3>2. PICK v \in Applied(now) :
              claim' = [claim EXCEPT
                     ![c].applied = v,
                     ![c].rules = policy[v].rules,
                     ![c].lifted = { k \in Categories : catalogue[k] # "live" },
                     ![c].status = IF Violations(claim[c].items, policy[v].rules) = {}
                                   THEN "submitted" ELSE "editable",
                     ![c].behind = IF /\ Violations(claim[c].items, policy[v].rules) = {}
                                      /\ claim[c].edits # {}
                                   THEN "open" ELSE "none"]
        BY <2>3, <3>1 DEF Submit
      <3> DEFINE clean == Violations(claim[c].items, policy[v].rules) = {}
                 lifted == { k \in Categories : catalogue[k] # "live" }
      <3>3. claim' = [claim EXCEPT ![c].applied = v, ![c].rules = policy[v].rules,
                        ![c].lifted = lifted,
                        ![c].status = IF clean THEN "submitted" ELSE "editable",
                        ![c].behind = IF clean /\ claim[c].edits # {} THEN "open" ELSE "none"]
        BY <3>2, Zenon
      <3> HIDE DEF clean, lifted
      <3>4. /\ claim'[c].status = IF clean THEN "submitted" ELSE "editable"
            /\ claim'[c].behind = IF clean /\ claim[c].edits # {} THEN "open" ELSE "none"
            /\ claim'[c].edits = claim[c].edits
        BY <1>0, <3>3 DEF ClaimRow
      <3> QED BY <1>1, <3>4
    <2> QED BY <2>1, <2>2, <2>3, <2>4 DEF ClaimNext
  <1> QED BY <1>2, <1>3

\* A submission finds no violation, and only an edit that it has noted changes
\* a submitted claim.
LEMMA SubmittedStep ==
    ASSUME TypesInv, BehindInv, SubmittedWithinLimits, PolicyNext \/ UNCHANGED claim
    PROVE  SubmittedWithinLimits'
  <1>0. claim \in [Claims -> ClaimRow]
    BY DEF TypesInv, PolicyTypeOK
  <1> DEFINE SameClaim(c) == /\ claim'[c].status = claim[c].status
                             /\ claim'[c].items = claim[c].items
                             /\ claim'[c].rules = claim[c].rules
                             /\ claim'[c].lifted = claim[c].lifted
                             /\ claim'[c].behind = claim[c].behind
  <1>1. ASSUME NEW c \in Claims, ~ SameClaim(c), claim'[c].status = "submitted",
               claim'[c].behind # "committed"
        PROVE  \E rules \in SUBSET AllRules :
                 /\ claim'[c].items = claim[c].items
                 /\ claim'[c].rules = rules
                 /\ claim'[c].lifted = { k \in Categories : catalogue[k] # "live" }
                 /\ Violations(claim[c].items, rules) = {}
    <2>1. PICK d \in Claims : ClaimNext(d)
      BY <1>1, ClaimsAreSeparate
    <2>2. CASE \/ \E items \in Baskets : OpenItems(d, items)
               \/ CommitItems(d) \/ GiveUpItems(d)
      <3>1. claim[c].status = "submitted"
        BY <1>1, <2>2, ItemRequestRow
      <3>2. claim[c].edits # {} => claim[c].behind = "open"
        BY <3>1 DEF BehindInv
      <3> QED BY <1>1, <2>2, <3>1, <3>2, ItemRequestRow
    <2>3. CASE Return(d)
      BY <1>1, <2>3, ReturnRow
    <2>4. CASE Submit(d)
      <3>1. c = d
        BY <1>0, <1>1, <2>4 DEF Submit
      <3>2. PICK v \in Versions :
              /\ Kept(v)
              /\ claim' = [claim EXCEPT
                     ![c].applied = v,
                     ![c].rules = policy[v].rules,
                     ![c].lifted = { k \in Categories : catalogue[k] # "live" },
                     ![c].status = IF Violations(claim[c].items, policy[v].rules) = {}
                                   THEN "submitted" ELSE "editable",
                     ![c].behind = IF /\ Violations(claim[c].items, policy[v].rules) = {}
                                      /\ claim[c].edits # {}
                                   THEN "open" ELSE "none"]
        BY <2>4, <3>1 DEF Submit, Applied, Newest, InForce, Active
      <3>3. policy[v].rules \in SUBSET AllRules
        BY <3>2, KeptIsTyped DEF KeptPolicy
      <3> DEFINE lifted == { k \in Categories : catalogue[k] # "live" }
                 clean == Violations(claim[c].items, policy[v].rules) = {}
                 outcome == IF clean THEN "submitted" ELSE "editable"
                 noted == IF clean /\ claim[c].edits # {} THEN "open" ELSE "none"
      <3>4. claim' = [claim EXCEPT ![c].applied = v, ![c].rules = policy[v].rules,
                                   ![c].lifted = lifted, ![c].status = outcome,
                                   ![c].behind = noted]
        BY <3>2, Zenon
      <3> HIDE DEF clean, lifted, outcome, noted
      <3>5. claim[c] \in ClaimRow
        BY <1>0
      <3>6. /\ claim'[c].items = claim[c].items
            /\ claim'[c].rules = policy[v].rules
            /\ claim'[c].lifted = lifted
            /\ claim'[c].status = outcome
        BY <1>0, <3>4, <3>5 DEF ClaimRow
      <3>7. Violations(claim[c].items, policy[v].rules) = {}
        BY <1>1, <3>6 DEF outcome, clean
      <3> QED BY <3>3, <3>6, <3>7 DEF lifted
    <2> QED BY <2>1, <2>2, <2>3, <2>4 DEF ClaimNext
  <1>2. ASSUME NEW c \in Claims, claim'[c].status = "submitted", claim'[c].behind # "committed"
        PROVE  Within(claim'[c].items, claim'[c].rules, claim'[c].lifted)
    <2>1. CASE SameClaim(c)
      <3>1. claim[c].status = "submitted" /\ claim[c].behind # "committed"
        BY <1>2, <2>1
      <3>2. Within(claim[c].items, claim[c].rules, claim[c].lifted)
        BY <3>1, Zenon DEF SubmittedWithinLimits, Within
      <3> QED BY <2>1, <3>2
    <2>2. CASE ~ SameClaim(c)
      <3>1. PICK rules \in SUBSET AllRules :
                 /\ claim'[c].items = claim[c].items
                 /\ claim'[c].rules = rules
                 /\ claim'[c].lifted = { k \in Categories : catalogue[k] # "live" }
                 /\ Violations(claim[c].items, rules) = {}
        BY <1>1, <1>2, <2>2
      <3>2. claim[c].items \in Baskets
        BY <1>0 DEF ClaimRow
      <3> QED BY <3>1, <3>2, UnviolatedIsWithin
    <2> QED BY <2>1, <2>2
  <1> QED BY <1>2, Zenon DEF SubmittedWithinLimits, Within

-----------------------------------------------------------------------------
\* The invariant holds at the start ...
LEMMA PolicyInvStart ==
    ASSUME PolicyInit
    PROVE  PolicyInv
  <1>1. policy \in [Versions -> {NoPolicy} \cup KeptPolicy]
    BY DEF PolicyInit, Policy, KeptPolicy, AllRules
  <1>2. claim \in [Claims -> ClaimRow]
    BY DEF PolicyInit, ClaimRow
  <1>3. slow = Idle /\ now \in Times /\ changes \in 0..MaxChanges /\ superseded \cup overlapped \subseteq Versions
    BY PolicyAssumption DEF PolicyInit, Times
  <1>4. catalogue \in [Categories \cup Vendors -> {"absent", "live", "removed"}]
    BY DEF PolicyInit
  <1>5. PolicyTypeOK
    BY <1>1, <1>2, <1>3, <1>4 DEF PolicyTypeOK, Kept, KeptPolicy, AllRules
  <1>6. TypesInv
    BY <1>1, <1>3, <1>5 DEF TypesInv, SlowTypes
  <1>7. SlowInv
    BY <1>3 DEF SlowInv, Idle
  <1>8. \A c \in Claims : claim[c].applied = NoVersion /\ claim[c].status = "editable"
    BY DEF PolicyInit
  <1>9. FrozenInv /\ BehindInv /\ SubmittedWithinLimits
    BY <1>8 DEF FrozenInv, BehindInv, SubmittedWithinLimits
  <1> QED BY <1>6, <1>7, <1>9 DEF PolicyInv

\* ... and every step keeps it.
LEMMA PolicyInvStep ==
    ASSUME PolicyInv, [PolicyNext]_policyVars
    PROVE  PolicyInv'
  <1>1. CASE PolicyNext
    BY <1>1, TypesStep, SlowStep, FrozenStep, BehindStep, SubmittedStep DEF PolicyInv
  <1>2. CASE UNCHANGED policyVars
    <2>1. UNCHANGED <<policy, catalogue, claim, now, slow, superseded, overlapped, changes>>
      BY <1>2 DEF policyVars
    <2>2. TypesInv'
      BY <2>1, PolicyTypesNext DEF PolicyInv, TypesInv, PolicyTypeOK
    <2>3. SlowInv'
      BY <2>1, Zenon DEF PolicyInv, SlowInv, Kept, Active
    <2>4. FrozenInv'
      BY <2>1, Zenon DEF PolicyInv, FrozenInv, Kept, Active
    <2>5. SubmittedWithinLimits'
      BY <2>1, SubmittedStep DEF PolicyInv
    <2>6. BehindInv'
      BY <2>1, BehindStep DEF PolicyInv
    <2> QED BY <2>2, <2>3, <2>4, <2>5, <2>6 DEF PolicyInv
  <1> QED BY <1>1, <1>2

\* Versions, catalogues, claims and the slow request hold what the requests
\* may store in them, and what a slow request and a claim rely on stays true.
THEOREM PolicyInvariant == PolicySpec => []PolicyInv
  BY PolicyInvStart, PolicyInvStep, PTL DEF PolicySpec

\* The types of policies, policy_rules, catalogues and claims.
THEOREM PolicyTypesCorrect == PolicySpec => []PolicyTypeOK
  BY PolicyInvariant, PTL DEF PolicyInv, TypesInv

\* update_policy_version, "Active policy versions are immutable": the rules a
\* claim was validated with are those its version has, until the version is
\* superseded or was edited while it was activated.
THEOREM ClaimsKeepTheirRules == PolicySpec => []AppliedRulesFrozen
  <1>1. PolicyInv => AppliedRulesFrozen
    BY DEF PolicyInv, FrozenInv, AppliedRulesFrozen
  <1> QED BY <1>1, PolicyInvariant, PTL

\* validate_report: a submitted claim respects every cap of its rules, day by
\* day, category by category and as a whole, although lines are flagged one by
\* one, unless an item edit that was open when it was submitted has been
\* committed since.
THEOREM SubmittedClaimsAreWithinLimits == PolicySpec => []SubmittedWithinLimits
  BY PolicyInvariant, PTL DEF PolicyInv

-----------------------------------------------------------------------------
\* Only activations clear a version, and only others than their own.
LEMMA OnlyActivationsClear ==
    ASSUME TypesInv, SlowInv, PolicyNext, NEW v \in Versions, Active(v), ~ policy'[v].is_active
    PROVE  \/ \E w \in Versions \ {v} :
                ActivateVersion(w) /\ policy[w].window.from <= now
           \/ CommitActivate /\ slow.version # v /\ slow.seen.window.from <= slow.at
  <1>0. /\ policy \in [Versions -> {NoPolicy} \cup KeptPolicy]
        /\ policy[v] \in KeptPolicy
        /\ policy[v] # NoPolicy
    BY KeptIsTyped DEF TypesInv, Kept, Active
  <1>1. policy'[v].is_active # policy[v].is_active
    BY Zenon DEF Active
  <1>2. ASSUME NEW w \in Versions, NEW cleared \in SUBSET (Versions \ {w}), NEW becomes \in BOOLEAN,
               policy' = Activated(w, cleared, becomes), policy[w].is_active => becomes
        PROVE  v \in cleared
    <2>1. SUFFICES ASSUME v \notin cleared PROVE FALSE
      OBVIOUS
    <2>2. v = w
      BY <1>1, <1>2, <2>1 DEF Activated
    <2>3. policy'[v].is_active = becomes
      BY <1>0, <1>2, <2>1, <2>2 DEF Activated, KeptPolicy
    <2>4. policy[v].is_active
      BY Zenon DEF Active
    <2> QED BY <1>2, <2>2, <2>3, <2>4, Zenon
  <1>3. ASSUME NEW w \in Versions, ActivateVersion(w)
        PROVE  w # v /\ policy[w].window.from <= now
    <2> DEFINE cleared == Cleared(w, policy[w].window.from, now)
    <2>1. /\ cleared \in SUBSET (Versions \ {w})
          /\ \A u \in cleared : policy[w].window.from <= now
          /\ policy' = Activated(w, cleared, TRUE)
      BY <1>3 DEF Cleared, ActivateVersion
    <2> HIDE DEF cleared
    <2>2. v \in cleared
      BY <1>2, <2>1
    <2> QED BY <2>1, <2>2
  <1>4. ASSUME CommitActivate
        PROVE  slow.version # v /\ slow.seen.window.from <= slow.at
    <2> DEFINE w == slow.version
               becomes == slow.seen.is_active => policy[w].is_active
    <2>1. PICK cleared \in SUBSET (Versions \ {w}) :
            /\ \A u \in cleared : slow.seen.window.from <= slow.at
            /\ policy' = Activated(w, cleared, becomes)
      BY <1>4 DEF CommitActivate, Cleared
    <2>2. w \in Versions
      BY <1>4 DEF TypesInv, CommitActivate, SlowTypes, Idle
    <2>3. becomes \in BOOLEAN /\ (policy[w].is_active => becomes)
      BY Zenon
    <2> HIDE DEF w, becomes
    <2>4. v \in cleared
      BY <1>2, <2>1, <2>2, <2>3
    <2> QED BY <2>1, <2>4 DEF w
  <1>5. ASSUME UNCHANGED policy
        PROVE  FALSE
    BY <1>1, <1>5
  <1>6. ASSUME NEW w \in Versions, NEW window \in Windows, NEW rules \in RuleSets,
               CreateVersion(w, window, rules)
        PROVE  FALSE
    BY <1>0, <1>1, <1>6 DEF CreateVersion, Kept
  <1>7. ASSUME NEW w \in Versions, NEW e \in Edits(w), UpdateVersion(w, e.window, e.given, e.rules)
        PROVE  FALSE
    <2>1. policy'[v].is_active = policy[v].is_active
      BY <1>0, <1>7 DEF UpdateVersion, KeptPolicy
    <2> QED BY <1>1, <2>1
  <1>8. ASSUME CommitUpdate
        PROVE  FALSE
    <2>1. policy'[v].is_active = policy[v].is_active
      BY <1>0, <1>8 DEF CommitUpdate, KeptPolicy
    <2> QED BY <1>1, <2>1
  <1>9. ASSUME NEW w \in Versions,
               AttachDocument(w) \/ ReadToActivate(w)
                 \/ \E e \in Edits(w) : ReadToUpdate(w, e.window, e.given, e.rules)
        PROVE  FALSE
    BY <1>5, <1>9 DEF AttachDocument, ReadToActivate, ReadToUpdate
  <1>10. ASSUME NEW x, NEW state, Catalogued(x, state)
         PROVE  FALSE
    BY <1>5, <1>10 DEF Catalogued
  <1>11. ASSUME NEW c \in Claims, ClaimNext(c)
         PROVE  FALSE
    BY <1>5, <1>11 DEF ClaimNext, OpenItems, CommitItems, GiveUpItems, Submit, Return
  <1>12. ASSUME Abandon \/ Tick
         PROVE  FALSE
    BY <1>5, <1>12 DEF Abandon, Tick
  <1> QED
    BY <1>3, <1>4, <1>6, <1>7, <1>8, <1>9, <1>10, <1>11, <1>12
       DEF PolicyNext, VersionNext, AddCategory, DeactivateCategory, CreateVendor, DeactivateVendor

\* A version activated on a day it has begun is in force, unless it is over.
LEMMA ActivatedIsInForce ==
    ASSUME TypesInv, UNCHANGED now, NEW w \in Versions, WillBeActive(w),
           policy'[w].window = policy[w].window, Kept(w), policy[w].window.from <= now,
           InForce(now)' = {}
    PROVE  \E v \in Versions : policy'[v] # NoPolicy /\ policy'[v].is_active
                                 /\ policy'[v].window.to < now
  <1>1. policy[w].window.to \in Nat /\ now \in Nat
    BY KeptIsTyped, PolicyAssumption DEF KeptPolicy, TypesInv, PolicyTypeOK, Times
  <1>2. w \notin InForce(now)'
    OBVIOUS
  <1>3. ~ (now <= policy'[w].window.to)
    BY <1>2 DEF InForce, WillBeActive, Active, Kept
  <1> QED BY <1>1, <1>3 DEF WillBeActive

\* A step that leaves no policy in force.
LEMMA NoGapStep ==
    ASSUME PolicyInv, PolicyNext, UNCHANGED now, InForce(now) # {}, InForce(now)' = {}
    PROVE  \/ \E v \in Versions : policy'[v] # NoPolicy /\ policy'[v].is_active
                                    /\ policy'[v].window.to < now
           \/ /\ slow.kind = "activate"
              /\ slow.seen.is_active
              /\ ~ Active(slow.version) \/ "activation" \in slow.met
  <1> USE DEF PolicyInv
  <1>1. PICK v \in Versions : Active(v) /\ policy[v].window.from <= now /\ now <= policy[v].window.to
    BY DEF InForce
  <1>2. Evolves(v)
    BY <1>1, VersionStep DEF Active
  <1>3. policy[v].is_active
    BY <1>1, Zenon DEF Active
  <1>4. policy'[v] # NoPolicy /\ policy'[v].window = policy[v].window
    BY <1>2, <1>3, Zenon DEF Evolves
  <1>5. ~ policy'[v].is_active
    <2>1. v \notin InForce(now)'
      OBVIOUS
    <2> QED BY <1>1, <1>4, <2>1 DEF InForce, Active, Kept
  <1>6. ASSUME NEW w \in Versions, ActivateVersion(w), policy[w].window.from <= now
        PROVE  \E u \in Versions : policy'[u] # NoPolicy /\ policy'[u].is_active
                                     /\ policy'[u].window.to < now
    <2>1. Kept(w) /\ policy[w] \in KeptPolicy
      BY <1>6, KeptIsTyped DEF ActivateVersion
    <2>2. policy'[w] = [policy[w] EXCEPT !.is_active = TRUE]
      BY <1>6 DEF ActivateVersion, Activated, Cleared
    <2>3. policy'[w].state = "kept" /\ policy'[w].is_active /\ policy'[w].window = policy[w].window
      BY <2>1, <2>2 DEF KeptPolicy
    <2>4. WillBeActive(w)
      BY <2>3 DEF WillBeActive, NoPolicy
    <2> QED BY <1>6, <2>1, <2>3, <2>4, ActivatedIsInForce
  <1>7. ASSUME CommitActivate, slow.seen.window.from <= slow.at,
               ~ (slow.seen.is_active /\ (~ Active(slow.version) \/ "activation" \in slow.met))
        PROVE  \E u \in Versions : policy'[u] # NoPolicy /\ policy'[u].is_active
                                     /\ policy'[u].window.to < now
    <2> DEFINE w == slow.version
               becomes == slow.seen.is_active => policy[w].is_active
    <2>1. slow.kind = "activate" /\ slow # Idle /\ w \in Versions
      BY <1>7 DEF TypesInv, CommitActivate, SlowTypes, Idle
    <2>2. Kept(w) /\ policy[w] \in KeptPolicy
      BY <2>1, KeptIsTyped DEF SlowInv
    <2>3. becomes
      BY <1>7, Zenon DEF Active
    <2>4. policy[w].window = slow.seen.window
      <3>1. CASE slow.seen.is_active
        <4>1. Active(w) /\ "activation" \notin slow.met
          BY <1>7, <3>1, Zenon
        <4> QED BY <2>1, <3>1, <4>1 DEF SlowInv
      <3>2. CASE ~ slow.seen.is_active
        <4>1. "row" \notin slow.met
          BY <1>7, <3>2, Zenon DEF CommitActivate
        <4> QED BY <2>1, <4>1 DEF SlowInv
      <3> QED BY <3>1, <3>2
    <2>5. policy'[w] = [policy[w] EXCEPT !.is_active = becomes]
      BY <1>7, <2>1 DEF CommitActivate, Activated, Cleared
    <2>6. policy'[w].state = "kept" /\ policy'[w].window = policy[w].window
      BY <2>2, <2>5 DEF KeptPolicy
    <2>7. policy'[w].is_active = becomes
      BY <2>2, <2>5 DEF KeptPolicy
    <2>8. WillBeActive(w)
      <3>1. policy'[w] # NoPolicy
        BY <2>6 DEF NoPolicy
      <3> QED BY <2>3, <2>7, <3>1, Zenon DEF WillBeActive
    <2>9. policy[w].window.from <= now
      <3>1. slow.at <= now /\ slow.at \in Nat /\ now \in Nat
        BY <2>1, PolicyAssumption DEF SlowInv, TypesInv, PolicyTypeOK, SlowTypes, Idle, Times
      <3>2. policy[w].window.from \in Nat
        BY <2>2, PolicyAssumption DEF KeptPolicy
      <3> QED BY <1>7, <2>4, <3>1, <3>2
    <2> HIDE DEF w
    <2> QED BY <2>1, <2>2, <2>6, <2>8, <2>9, ActivatedIsInForce
  <1>8. CommitActivate => slow.kind = "activate"
    BY DEF CommitActivate
  <1>9. \/ \E w \in Versions : ActivateVersion(w) /\ policy[w].window.from <= now
        \/ CommitActivate /\ slow.seen.window.from <= slow.at
    BY <1>1, <1>5, OnlyActivationsClear
  <1> QED BY <1>6, <1>7, <1>8, <1>9, Zenon

\* activate_policy, "without creating a future-effective gap": a request
\* leaves no policy in force only by activating a version that is over, or by
\* renewing an activation that another one has superseded.
THEOREM RequestsLeaveNoGap == PolicySpec => NoGap
  <1>1. PolicyInv /\ [PolicyNext]_policyVars =>
          [ (now' = now /\ InForce(now) # {} /\ InForce(now)' = {}) =>
              \/ \E v \in Versions : policy'[v] # NoPolicy /\ policy'[v].is_active
                                       /\ policy'[v].window.to < now
              \/ /\ slow.kind = "activate"
                 /\ slow.seen.is_active
                 /\ ~ Active(slow.version) \/ "activation" \in slow.met ]_policyVars
    BY NoGapStep
  <1> QED BY <1>1, PolicyInvariant, PTL DEF PolicySpec, NoGap

\* activate_policy: a version that is scheduled stays so until its day.
THEOREM SchedulesAreKept == PolicySpec => ScheduleKept
  <1>1. ASSUME PolicyInv, PolicyNext, NEW v \in Versions, Active(v), policy[v].window.from > now
        PROVE  policy'[v].is_active /\ policy'[v].window = policy[v].window
    <2>1. Evolves(v)
      BY <1>1, VersionStep DEF PolicyInv, Active
    <2>2. policy[v].is_active
      BY <1>1, Zenon DEF Active
    <2>3. ~ (policy[v].window.from <= now)
      <3>1. policy[v].window.from \in Nat /\ now \in Nat
        BY <1>1, KeptIsTyped, PolicyAssumption
           DEF PolicyInv, TypesInv, PolicyTypeOK, Active, KeptPolicy, Times
      <3> QED BY <1>1, <3>1
    <2> QED BY <2>1, <2>2, <2>3, Zenon DEF Evolves
  <1>2. PolicyInv /\ [PolicyNext]_policyVars =>
          [ \A v \in Versions : Active(v) /\ policy[v].window.from > now =>
              policy'[v].is_active /\ policy'[v].window = policy[v].window ]_policyVars
    BY <1>1
  <1> QED BY <1>2, PolicyInvariant, PTL DEF PolicySpec, ScheduleKept

=============================================================================
