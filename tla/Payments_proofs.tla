--------------------------- MODULE Payments_proofs ---------------------------
(***************************************************************************)
(* Proofs about Payments.  The batches, downloads and outcomes are right   *)
(* because of what the rows agree on at every moment: a payment row exists *)
(* only for a report that can no longer be edited, a row in a batch tells  *)
(* how far the batch has come, and a batch that has been exported has one  *)
(* file, the one its rows still give.                                      *)
(***************************************************************************)
EXTENDS Payments, FiniteSetTheorems, TLAPS

Settled == {"exported", "paid", "failed"}

\* What a payment row tells of its report and of its batch.
RowInv(r) ==
    /\ payment[r].status = "absent" => payment[r] = NoPayment
    /\ payment[r].status # "absent" =>
            report[r].status \in {"approved_pending_payment", "paid"}
    /\ payment[r].batch = NoBatch <=> payment[r].status \in {"absent", "pending"}
    /\ payment[r].status = "batched" => batch[payment[r].batch].status = "created"
    /\ payment[r].status \in Settled => batch[payment[r].batch].status = "exported"

\* What a batch tells of the files that were downloaded of it.
FileInv(b) ==
    files[b] = IF batch[b].status = "exported" THEN {Lines(b)} ELSE {}

PaymentsInv ==
    /\ TypeOK
    /\ \A r \in Reports : RowInv(r)
    /\ \A b \in Batches : FileInv(b)
    /\ BatchMatchesRows

-----------------------------------------------------------------------------
(***************************************************************************)
(* Types.                                                                  *)
(***************************************************************************)

\* Whatever a batch adds up is a possible total.
LEMMA SumsAreTotals ==
    ASSUME TypeOK, NEW S \in SUBSET Reports
    PROVE  SumOf(S) \in Totals
  <1> DEFINE f == [r \in S |-> payment[r].amount]
  <1>1. f \in [S -> Amounts \cup {0}]
    BY DEF TypeOK, Payment
  <1> QED BY <1>1 DEF SumOf, Totals

\* A batch counts finitely many rows.
LEMMA CountsAreNaturals ==
    ASSUME NEW S \in SUBSET Reports
    PROVE  Cardinality(S) \in Nat
  BY FS_Subset, FS_CardinalityType, PaymentsAssumption

\* The content of a file is made of lines.
LEMMA LinesAreLines ==
    ASSUME TypeOK, NEW b \in Batches
    PROVE  Lines(b) \in SUBSET Line
  <1>1. ASSUME NEW r \in BatchRows(b)
        PROVE  [report |-> r, amount |-> payment[r].amount,
                currency |-> report[r].currency] \in Line
    BY <1>1 DEF TypeOK, Payment, Report, Line, BatchRows
  <1> QED BY <1>1 DEF Lines

\* Every step of a claim keeps the types.
LEMMA ClaimTypes ==
    ASSUME TypeOK, NEW r \in Reports, ClaimNext(r)
    PROVE  TypeOK'
  <1>1. ASSUME NEW total \in Amounts, NEW currency \in Currencies,
               EditClaim(r, total, currency)
        PROVE  TypeOK'
    BY <1>1 DEF TypeOK, EditClaim, Report
  <1>2. CASE Submit(r)
    BY <1>2 DEF TypeOK, Submit, Report, ReportStatus
  <1>3. ASSUME NEW status \in {"draft", "sent_back", "rejected"}, TurnBack(r, status)
        PROVE  TypeOK'
    BY <1>3 DEF TypeOK, TurnBack, Report, ReportStatus
  <1>4. CASE ApproveReport(r)
    <2>1. report' \in [Reports -> Report]
      BY <1>4 DEF TypeOK, ApproveReport, Report, ReportStatus
    <2>2. [status |-> "pending", amount |-> report[r].total, batch |-> NoBatch] \in Payment
      BY DEF TypeOK, Payment, Report, PAYMENT_STATUSES
    <2>3. payment' \in [Reports -> Payment]
      BY <1>4, <2>2 DEF TypeOK, ApproveReport, EnsurePendingPayment
    <2> QED BY <1>4, <2>1, <2>3 DEF TypeOK, ApproveReport
  <1>5. CASE MarkPaid(r)
    <2>1. payment' \in [Reports -> Payment]
      BY <1>5 DEF TypeOK, MarkPaid, Payment, PAYMENT_STATUSES
    <2>2. report' \in [Reports -> Report]
      BY <1>5 DEF TypeOK, MarkPaid, Report, ReportStatus
    <2> QED BY <1>5, <2>1, <2>2 DEF TypeOK, MarkPaid
  <1>6. CASE MarkFailed(r)
    BY <1>6 DEF TypeOK, MarkFailed, Payment, PAYMENT_STATUSES
  <1> QED BY <1>1, <1>2, <1>3, <1>4, <1>5, <1>6 DEF ClaimNext

\* Every step of a batch keeps the types.
LEMMA BatchTypes ==
    ASSUME TypeOK, NEW b \in Batches, BatchNext(b)
    PROVE  TypeOK'
  <1>1. ASSUME NEW S \in SUBSET Reports, CreateBatch(b, S)
        PROVE  TypeOK'
    <2> DEFINE cur == CHOOSE c \in Currencies : \A r \in S : report[r].currency = c
    <2>1. PICK q \in S : TRUE
      BY <1>1 DEF CreateBatch
    <2>2. report[q].currency \in Currencies
      BY <2>1 DEF TypeOK, Report
    <2>3. \A r \in S : report[r].currency = report[q].currency
      BY <1>1, <2>1 DEF CreateBatch
    <2>4. cur \in Currencies
      BY <2>2, <2>3
    <2>5. [status |-> "created", count |-> Cardinality(S), total |-> SumOf(S),
           currency |-> cur] \in Batch
      BY <2>4, SumsAreTotals, CountsAreNaturals DEF Batch, BATCH_STATUSES
    <2>6. batch' \in [Batches -> Batch]
      BY <1>1, <2>5 DEF TypeOK, CreateBatch
    <2>7. payment' \in [Reports -> Payment]
      <3>1. ASSUME NEW r \in Reports
            PROVE  [payment[r] EXCEPT !.status = "batched", !.batch = b] \in Payment
        BY DEF TypeOK, Payment, PAYMENT_STATUSES
      <3>2. payment \in [Reports -> Payment]
        BY DEF TypeOK
      <3>3. payment' = [r \in Reports |->
                          IF r \in S THEN [payment[r] EXCEPT !.status = "batched", !.batch = b]
                          ELSE payment[r]]
        BY <1>1, Zenon DEF CreateBatch
      <3> QED BY <3>1, <3>2, <3>3
    <2> QED BY <1>1, <2>6, <2>7 DEF TypeOK, CreateBatch
  <1>2. CASE ExportBatch(b)
    <2>1. batch' \in [Batches -> Batch]
      BY <1>2 DEF TypeOK, ExportBatch, Batch, BATCH_STATUSES
    <2>2. payment' \in [Reports -> Payment]
      BY <1>2 DEF TypeOK, ExportBatch, Payment, PAYMENT_STATUSES
    <2>3. files' \in [Batches -> SUBSET (SUBSET Line)]
      BY <1>2, LinesAreLines DEF TypeOK, ExportBatch, Downloaded
    <2> QED BY <1>2, <2>1, <2>2, <2>3 DEF TypeOK, ExportBatch
  <1>3. CASE DownloadAgain(b)
    <2>1. files' \in [Batches -> SUBSET (SUBSET Line)]
      BY <1>3, LinesAreLines DEF TypeOK, DownloadAgain, Downloaded
    <2> QED BY <1>3, <2>1 DEF TypeOK, DownloadAgain
  <1> QED BY <1>1, <1>2, <1>3 DEF BatchNext

-----------------------------------------------------------------------------
(***************************************************************************)
(* What two states agree on when they agree on the rows of a batch.        *)
(***************************************************************************)

\* The same amounts have the same sum.
LEMMA SameSum ==
    ASSUME NEW S \in SUBSET Reports,
           \A r \in S : payment'[r].amount = payment[r].amount
    PROVE  SumOf(S)' = SumOf(S)
  <1>1. [r \in S |-> payment[r].amount]' = [r \in S |-> payment[r].amount]
    OBVIOUS
  <1> QED BY <1>1 DEF SumOf

\* The same rows, amounts and currencies give the same file.
LEMMA SameLines ==
    ASSUME NEW b \in Batches,
           BatchRows(b)' = BatchRows(b),
           \A r \in BatchRows(b) : /\ payment'[r].amount = payment[r].amount
                                   /\ report'[r].currency = report[r].currency
    PROVE  Lines(b)' = Lines(b)
  BY DEF Lines

\* A batch whose rows, status and totals stay as they are stays right.
LEMMA SameBatch ==
    ASSUME PaymentsInv, NEW b \in Batches,
           batch'[b] = batch[b],
           BatchRows(b)' = BatchRows(b),
           \A r \in BatchRows(b) : /\ payment'[r].amount = payment[r].amount
                                   /\ report'[r].currency = report[r].currency,
           batch[b].status = "created" =>
               \A r \in BatchRows(b) : payment'[r].status = "batched",
           files'[b] = files[b]
    PROVE  /\ FileInv(b)'
           /\ batch'[b].status = "created" =>
                /\ Cardinality(BatchRows(b)') = batch'[b].count
                /\ SumOf(BatchRows(b))' = batch'[b].total
                /\ \A r \in BatchRows(b)' :
                      /\ payment'[r].status = "batched"
                      /\ report'[r].currency = batch'[b].currency
  <1>1. Lines(b)' = Lines(b)
    BY SameLines
  <1>2. FileInv(b)'
    BY <1>1 DEF PaymentsInv, FileInv
  <1>3. SumOf(BatchRows(b))' = SumOf(BatchRows(b))
    <2>1. BatchRows(b) \in SUBSET Reports
      BY DEF BatchRows
    <2>2. [r \in BatchRows(b) |-> payment[r].amount]' = [r \in BatchRows(b) |-> payment[r].amount]
      OBVIOUS
    <2> QED BY <2>2 DEF SumOf
  <1> QED BY <1>2, <1>3 DEF PaymentsInv, BatchMatchesRows

-----------------------------------------------------------------------------
(***************************************************************************)
(* Claims.                                                                 *)
(***************************************************************************)

\* The four handlers that leave every payment row alone change only reports
\* that have none.
LEMMA ReportStep ==
    ASSUME PaymentsInv, NEW r \in Reports, TypeOK',
           payment[r].status = "absent",
           \A q \in Reports \ {r} : report'[q] = report[q],
           UNCHANGED <<payment, batch, files>>
    PROVE  PaymentsInv'
  <1>1. ASSUME NEW q \in Reports PROVE RowInv(q)'
    BY DEF PaymentsInv, RowInv
  <1>2. ASSUME NEW b \in Batches
        PROVE  /\ BatchRows(b)' = BatchRows(b)
               /\ r \notin BatchRows(b)
    <2>1. BatchRows(b)' = BatchRows(b)
      BY DEF BatchRows
    <2>2. r \notin BatchRows(b)
      BY PaymentsAssumption DEF PaymentsInv, RowInv, BatchRows
    <2> QED BY <2>1, <2>2
  <1>3. ASSUME NEW b \in Batches
        PROVE  \A q \in BatchRows(b) : /\ payment'[q].amount = payment[q].amount
                                       /\ report'[q].currency = report[q].currency
    BY <1>2 DEF BatchRows
  <1>4. ASSUME NEW b \in Batches, batch[b].status = "created"
        PROVE  \A q \in BatchRows(b) : payment'[q].status = "batched"
    BY <1>4 DEF PaymentsInv, BatchMatchesRows
  <1> QED BY <1>1, <1>2, <1>3, <1>4, SameBatch DEF PaymentsInv, BatchMatchesRows

\* A payment that is settled or created belongs to no batch that is open.
LEMMA PaymentStep ==
    ASSUME PaymentsInv, NEW r \in Reports, TypeOK', RowInv(r)',
           \A q \in Reports \ {r} : payment'[q] = payment[q] /\ report'[q] = report[q],
           payment'[r].batch = payment[r].batch,
           payment[r].batch # NoBatch =>
               /\ payment[r].status \in Settled
               /\ payment'[r].amount = payment[r].amount
               /\ report'[r].currency = report[r].currency,
           UNCHANGED <<batch, files>>
    PROVE  PaymentsInv'
  <1>1. ASSUME NEW q \in Reports PROVE RowInv(q)'
    BY DEF PaymentsInv, RowInv
  <1>2. ASSUME NEW b \in Batches
        PROVE  BatchRows(b)' = BatchRows(b)
    BY DEF BatchRows
  <1>3. ASSUME NEW b \in Batches
        PROVE  \A q \in BatchRows(b) : /\ payment'[q].amount = payment[q].amount
                                       /\ report'[q].currency = report[q].currency
    BY PaymentsAssumption DEF BatchRows
  <1>4. ASSUME NEW b \in Batches, batch[b].status = "created"
        PROVE  \A q \in BatchRows(b) : payment'[q].status = "batched"
    <2>1. ASSUME NEW q \in BatchRows(b)
          PROVE  payment[q].status = "batched" /\ q # r
      <3>1. payment[q].status = "batched"
        BY <1>4 DEF PaymentsInv, BatchMatchesRows
      <3> QED BY <3>1, PaymentsAssumption DEF BatchRows, Settled
    <2> QED BY <2>1 DEF BatchRows
  <1> QED BY <1>1, <1>2, <1>3, <1>4, SameBatch DEF PaymentsInv, BatchMatchesRows

LEMMA ClaimStep ==
    ASSUME PaymentsInv, NEW r \in Reports, ClaimNext(r)
    PROVE  PaymentsInv'
  <1>0. TypeOK /\ RowInv(r) /\ TypeOK'
    BY ClaimTypes DEF PaymentsInv
  <1>1. ASSUME NEW total \in Amounts, NEW currency \in Currencies,
               EditClaim(r, total, currency)
        PROVE  PaymentsInv'
    <2>1. payment[r].status = "absent"
      BY <1>0, <1>1 DEF EditClaim, RowInv
    <2>2. \A q \in Reports \ {r} : report'[q] = report[q]
      BY <1>0, <1>1 DEF EditClaim, TypeOK
    <2>3. UNCHANGED <<payment, batch, files>>
      BY <1>1 DEF EditClaim
    <2> QED BY <1>0, <2>1, <2>2, <2>3, ReportStep
  <1>2. CASE Submit(r)
    <2>1. payment[r].status = "absent"
      BY <1>0, <1>2 DEF Submit, RowInv
    <2>2. \A q \in Reports \ {r} : report'[q] = report[q]
      BY <1>0, <1>2 DEF Submit, TypeOK
    <2>3. UNCHANGED <<payment, batch, files>>
      BY <1>2 DEF Submit
    <2> QED BY <1>0, <2>1, <2>2, <2>3, ReportStep
  <1>3. ASSUME NEW status \in {"draft", "sent_back", "rejected"}, TurnBack(r, status)
        PROVE  PaymentsInv'
    <2>1. payment[r].status = "absent"
      BY <1>0, <1>3 DEF TurnBack, RowInv
    <2>2. \A q \in Reports \ {r} : report'[q] = report[q]
      BY <1>0, <1>3 DEF TurnBack, TypeOK
    <2>3. UNCHANGED <<payment, batch, files>>
      BY <1>3 DEF TurnBack
    <2> QED BY <1>0, <2>1, <2>2, <2>3, ReportStep
  <1>4. CASE ApproveReport(r)
    <2>1. payment[r].status = "absent"
      BY <1>0, <1>4 DEF ApproveReport, RowInv
    <2>2. payment' = [payment EXCEPT ![r] = [status |-> "pending", amount |-> report[r].total,
                                             batch |-> NoBatch]]
      BY <1>4, <2>1 DEF ApproveReport, EnsurePendingPayment
    <2>3. \A q \in Reports \ {r} : payment'[q] = payment[q] /\ report'[q] = report[q]
      BY <1>0, <1>4, <2>2 DEF ApproveReport, TypeOK
    <2>4. payment[r].batch = NoBatch
      BY <1>0, <2>1 DEF RowInv
    <2>5. payment'[r].batch = NoBatch /\ payment'[r].status = "pending"
      BY <1>0, <2>2 DEF TypeOK
    <2>6. report'[r].status = "approved_pending_payment"
      BY <1>0, <1>4 DEF ApproveReport, TypeOK, Report
    <2>7. RowInv(r)'
      BY <2>5, <2>6 DEF RowInv, Settled
    <2>8. UNCHANGED <<batch, files>>
      BY <1>4 DEF ApproveReport
    <2> QED BY <1>0, <2>3, <2>4, <2>5, <2>7, <2>8, PaymentStep
  <1>5. CASE MarkPaid(r)
    <2>1. payment[r].status = "exported" /\ payment[r].batch # NoBatch
      BY <1>0, <1>5 DEF MarkPaid, RowInv
    <2>2. /\ payment'[r].status = "paid"
          /\ payment'[r].batch = payment[r].batch
          /\ payment'[r].amount = payment[r].amount
      BY <1>0, <1>5 DEF MarkPaid, TypeOK, Payment
    <2>3. \A q \in Reports \ {r} : payment'[q] = payment[q] /\ report'[q] = report[q]
      BY <1>0, <1>5 DEF MarkPaid, TypeOK
    <2>4. /\ report'[r].status = "paid"
          /\ report'[r].currency = report[r].currency
      BY <1>0, <1>5, <2>1 DEF MarkPaid, TypeOK, Report, RowInv
    <2>5. UNCHANGED <<batch, files>>
      BY <1>5 DEF MarkPaid
    <2>6. RowInv(r)'
      BY <1>0, <2>1, <2>2, <2>4, <2>5 DEF RowInv, Settled
    <2> QED BY <1>0, <2>1, <2>2, <2>3, <2>4, <2>5, <2>6, PaymentStep DEF Settled
  <1>6. CASE MarkFailed(r)
    <2>1. payment[r].status = "exported" /\ payment[r].batch # NoBatch
      BY <1>0, <1>6 DEF MarkFailed, Failable, RowInv
    <2>2. /\ payment'[r].status = "failed"
          /\ payment'[r].batch = payment[r].batch
          /\ payment'[r].amount = payment[r].amount
      BY <1>0, <1>6 DEF MarkFailed, TypeOK, Payment
    <2>3. \A q \in Reports \ {r} : payment'[q] = payment[q] /\ report'[q] = report[q]
      BY <1>0, <1>6 DEF MarkFailed, TypeOK
    <2>4. report'[r] = report[r]
      BY <1>6 DEF MarkFailed
    <2>5. UNCHANGED <<batch, files>>
      BY <1>6 DEF MarkFailed
    <2>6. RowInv(r)'
      BY <1>0, <2>1, <2>2, <2>4, <2>5 DEF RowInv, Settled
    <2> QED BY <1>0, <2>1, <2>2, <2>3, <2>4, <2>5, <2>6, PaymentStep DEF Settled
  <1> QED BY <1>1, <1>2, <1>3, <1>4, <1>5, <1>6 DEF ClaimNext

-----------------------------------------------------------------------------
(***************************************************************************)
(* Batches.                                                                *)
(***************************************************************************)

\* What is right of batch b after a step.
Matches(b) ==
    batch[b].status = "created" =>
        /\ Cardinality(BatchRows(b)) = batch[b].count
        /\ SumOf(BatchRows(b)) = batch[b].total
        /\ \A r \in BatchRows(b) :
              /\ payment[r].status = "batched"
              /\ report[r].currency = batch[b].currency

LEMMA CreateStep ==
    ASSUME PaymentsInv, TypeOK', NEW b \in Batches, NEW S \in SUBSET Reports, CreateBatch(b, S)
    PROVE  PaymentsInv'
  <1> DEFINE cur == CHOOSE c \in Currencies : \A r \in S : report[r].currency = c
             new == [status |-> "created", count |-> Cardinality(S), total |-> SumOf(S),
                     currency |-> cur]
  <1>1. /\ batch[b].status = "absent"
        /\ S # {}
        /\ \A r \in S : payment[r].status = "pending"
        /\ \A r, q \in S : report[r].currency = report[q].currency
        /\ batch' = [batch EXCEPT ![b] = new]
        /\ report' = report
        /\ files' = files
    BY DEF CreateBatch, Batchable
  <1>2. payment' = [r \in Reports |->
                      IF r \in S THEN [payment[r] EXCEPT !.status = "batched", !.batch = b]
                      ELSE payment[r]]
    BY Zenon DEF CreateBatch
  <1> HIDE DEF new, cur
  <1>3. TypeOK /\ \A r \in Reports : RowInv(r)
    BY DEF PaymentsInv
  <1>4. /\ batch'[b] = new
        /\ \A c \in Batches \ {b} : batch'[c] = batch[c]
    BY <1>1, <1>3 DEF TypeOK
  <1>5. ASSUME NEW r \in S
        PROVE  /\ payment'[r].status = "batched"
               /\ payment'[r].batch = b
               /\ payment'[r].amount = payment[r].amount
    BY <1>2, <1>3 DEF TypeOK, Payment
  <1>6. \A r \in Reports \ S : payment'[r] = payment[r]
    BY <1>2
  <1>7. ASSUME NEW r \in Reports PROVE RowInv(r)'
    <2>1. RowInv(r)
      BY <1>3
    <2>2. CASE r \in S
      <3>1. report[r].status \in {"approved_pending_payment", "paid"}
        BY <1>1, <2>1, <2>2 DEF RowInv
      <3>2. batch'[b].status = "created"
        BY <1>4 DEF new
      <3> QED BY <1>1, <1>5, <2>2, <3>1, <3>2, PaymentsAssumption DEF RowInv, Settled
    <2>3. CASE r \notin S
      <3>1. payment'[r] = payment[r] /\ report'[r] = report[r]
        BY <1>1, <1>6, <2>3
      <3>2. payment[r].status \in Settled \cup {"batched"} => payment[r].batch # b
        BY <1>1, <2>1 DEF RowInv, Settled
      <3>3. payment[r].status \in Settled \cup {"batched"} => payment[r].batch \in Batches \ {b}
        BY <1>3, <2>1, <3>2 DEF RowInv, TypeOK, Payment, Settled
      <3> QED BY <1>4, <2>1, <3>1, <3>3 DEF RowInv, Settled
    <2> QED BY <2>2, <2>3
  <1>8. ASSUME NEW c \in Batches \ {b} PROVE FileInv(c)' /\ Matches(c)'
    <2>1. ASSUME NEW r \in S PROVE payment[r].batch = NoBatch /\ payment'[r].batch # c
      BY <1>1, <1>3, <1>5 DEF RowInv
    <2>2. BatchRows(c)' = BatchRows(c) /\ \A r \in BatchRows(c) : r \notin S
      BY <1>6, <2>1, PaymentsAssumption DEF BatchRows
    <2>3. \A r \in BatchRows(c) : payment'[r] = payment[r]
      BY <1>6, <2>2 DEF BatchRows
    <2>4. batch[c].status = "created" => \A r \in BatchRows(c) : payment'[r].status = "batched"
      BY <2>3 DEF PaymentsInv, BatchMatchesRows
    <2> QED BY <1>1, <1>4, <2>2, <2>3, <2>4, SameBatch DEF Matches
  <1>9. FileInv(b)' /\ Matches(b)'
    <2>1. ASSUME NEW r \in Reports \ S PROVE payment'[r].batch # b
      BY <1>1, <1>3, <1>6, PaymentsAssumption DEF RowInv, TypeOK, Payment, PAYMENT_STATUSES, Settled
    <2>2. BatchRows(b)' = S
      BY <1>5, <2>1 DEF BatchRows
    <2>3. SumOf(S)' = SumOf(S)
      BY <1>5, SameSum
    <2>4. SumOf(BatchRows(b))' = SumOf(S)
      BY <2>2, <2>3 DEF SumOf
    <2>5. ASSUME NEW r \in S PROVE report'[r].currency = cur
      <3>1. report[r].currency \in Currencies
        BY <1>3 DEF TypeOK, Report
      <3>2. \A q \in S : report[q].currency = report[r].currency
        BY <1>1
      <3>3. \A q \in S : report[q].currency = cur
        BY <3>1, <3>2 DEF cur
      <3> QED BY <1>1, <3>3
    <2>6. Matches(b)'
      BY <1>4, <1>5, <2>2, <2>4, <2>5 DEF Matches, new
    <2>7. FileInv(b)'
      <3>1. files[b] = {}
        BY <1>1 DEF PaymentsInv, FileInv
      <3>2. batch'[b].status = "created"
        BY <1>4 DEF new
      <3> QED BY <1>1, <3>1, <3>2 DEF FileInv
    <2> QED BY <2>6, <2>7
  <1>10. ASSUME NEW c \in Batches PROVE FileInv(c)' /\ Matches(c)'
    BY <1>8, <1>9
  <1> QED BY <1>7, <1>10 DEF PaymentsInv, BatchMatchesRows, Matches

LEMMA ExportStep ==
    ASSUME PaymentsInv, TypeOK', NEW b \in Batches, ExportBatch(b)
    PROVE  PaymentsInv'
  <1>1. TypeOK /\ \A r \in Reports : RowInv(r)
    BY DEF PaymentsInv
  <1>2. /\ batch[b].status = "created"
        /\ batch'[b].status = "exported"
        /\ \A c \in Batches \ {b} : batch'[c] = batch[c]
    BY <1>1 DEF ExportBatch, TypeOK, Batch
  <1>3. ASSUME NEW r \in BatchRows(b)
        PROVE  /\ payment[r].status = "batched"
               /\ payment'[r].status = "exported"
               /\ payment'[r].batch = payment[r].batch
               /\ payment'[r].amount = payment[r].amount
    BY <1>1 DEF ExportBatch, TypeOK, Payment, BatchRows
  <1>4. \A r \in Reports \ BatchRows(b) : payment'[r] = payment[r]
    BY DEF ExportBatch
  <1>5. ASSUME NEW r \in Reports PROVE RowInv(r)'
    <2>1. RowInv(r) /\ report' = report
      BY <1>1 DEF ExportBatch
    <2>2. CASE r \in BatchRows(b)
      BY <1>2, <1>3, <2>1, <2>2 DEF RowInv, BatchRows, Settled
    <2>3. CASE r \notin BatchRows(b)
      <3>1. payment[r].status \in Settled \cup {"batched"} => payment[r].batch \in Batches \ {b}
        BY <1>1, <2>1, <2>3 DEF RowInv, TypeOK, Payment, Settled, BatchRows
      <3> QED BY <1>2, <1>4, <2>1, <2>3, <3>1 DEF RowInv, Settled
    <2> QED BY <2>2, <2>3
  <1>6. ASSUME NEW c \in Batches PROVE BatchRows(c)' = BatchRows(c)
    BY <1>3, <1>4 DEF BatchRows
  <1>7. ASSUME NEW c \in Batches \ {b} PROVE FileInv(c)' /\ Matches(c)'
    <2>1. \A r \in BatchRows(c) : payment'[r] = payment[r]
      BY <1>4 DEF BatchRows
    <2>2. batch[c].status = "created" => \A r \in BatchRows(c) : payment'[r].status = "batched"
      BY <2>1 DEF PaymentsInv, BatchMatchesRows
    <2>3. files'[c] = files[c] /\ report' = report
      BY <1>1 DEF ExportBatch, Downloaded, TypeOK
    <2> QED BY <1>2, <1>6, <2>1, <2>2, <2>3, SameBatch DEF Matches
  <1>8. FileInv(b)' /\ Matches(b)'
    <2>1. Lines(b)' = Lines(b)
      BY <1>3, <1>6, SameLines DEF ExportBatch
    <2>2. files[b] = {}
      BY <1>2 DEF PaymentsInv, FileInv
    <2>3. files'[b] = {Lines(b)}
      BY <1>1, <2>2 DEF ExportBatch, Downloaded, TypeOK
    <2> QED BY <1>2, <2>1, <2>3 DEF FileInv, Matches
  <1>9. ASSUME NEW c \in Batches PROVE FileInv(c)' /\ Matches(c)'
    BY <1>7, <1>8
  <1> QED BY <1>5, <1>9 DEF PaymentsInv, BatchMatchesRows, Matches

\* A second download finds what the first one gave.
LEMMA DownloadChangesNothing ==
    ASSUME PaymentsInv, NEW b \in Batches, DownloadAgain(b)
    PROVE  UNCHANGED vars
  <1>1. files[b] = {Lines(b)}
    BY DEF PaymentsInv, FileInv, DownloadAgain
  <1>2. files' = files
    BY <1>1 DEF DownloadAgain, Downloaded, PaymentsInv, TypeOK
  <1> QED BY <1>2 DEF DownloadAgain, vars

LEMMA Unchanged ==
    ASSUME PaymentsInv, UNCHANGED vars
    PROVE  PaymentsInv'
  <1>1. TypeOK'
    BY DEF PaymentsInv, vars, TypeOK
  <1>2. \A r \in Reports : RowInv(r)'
    BY DEF PaymentsInv, vars, RowInv
  <1>3. ASSUME NEW b \in Batches
        PROVE  FileInv(b)' /\ BatchRows(b)' = BatchRows(b)
    <2>1. BatchRows(b)' = BatchRows(b)
      BY DEF vars, BatchRows
    <2>2. Lines(b)' = Lines(b)
      BY <2>1, SameLines DEF vars
    <2> QED BY <2>1, <2>2 DEF PaymentsInv, vars, FileInv
  <1>4. BatchMatchesRows'
    BY <1>3, Zenon DEF PaymentsInv, vars, BatchMatchesRows, BatchRows, SumOf
  <1> QED BY <1>1, <1>2, <1>3, <1>4 DEF PaymentsInv

-----------------------------------------------------------------------------
(***************************************************************************)
(* The invariant, and what it implies.                                     *)
(***************************************************************************)
LEMMA InitInv == Init => PaymentsInv
  <1> SUFFICES ASSUME Init PROVE PaymentsInv
    OBVIOUS
  <1>1. TypeOK
    <2>1. report \in [Reports -> Report]
      BY DEF Init, Report, ReportStatus
    <2>2. payment \in [Reports -> Payment]
      BY DEF Init, Payment, NoPayment
    <2>3. batch \in [Batches -> Batch]
      <3>1. (CHOOSE c \in Currencies : TRUE) \in Currencies
        BY PaymentsAssumption
      <3> QED BY <3>1 DEF Init, Batch
    <2> QED BY <2>1, <2>2, <2>3 DEF TypeOK, Init
  <1>2. \A r \in Reports : RowInv(r)
    BY DEF Init, RowInv, NoPayment, Settled
  <1>3. \A b \in Batches : batch[b].status = "absent"
    BY DEF Init
  <1> QED BY <1>1, <1>2, <1>3 DEF Init, PaymentsInv, FileInv, BatchMatchesRows

LEMMA NextInv == PaymentsInv /\ [Next]_vars => PaymentsInv'
  <1> SUFFICES ASSUME PaymentsInv, [Next]_vars PROVE PaymentsInv'
    OBVIOUS
  <1>1. ASSUME NEW r \in Reports, ClaimNext(r) PROVE PaymentsInv'
    BY <1>1, ClaimStep
  <1>2. ASSUME NEW b \in Batches, BatchNext(b) PROVE PaymentsInv'
    <2>1. TypeOK'
      BY <1>2, BatchTypes DEF PaymentsInv
    <2>2. ASSUME NEW S \in SUBSET Reports, CreateBatch(b, S) PROVE PaymentsInv'
      BY <2>1, <2>2, CreateStep
    <2>3. CASE ExportBatch(b)
      BY <2>1, <2>3, ExportStep
    <2>4. CASE DownloadAgain(b)
      BY <2>4, DownloadChangesNothing, Unchanged
    <2> QED BY <1>2, <2>2, <2>3, <2>4 DEF BatchNext
  <1>3. CASE UNCHANGED vars
    BY <1>3, Unchanged
  <1> QED BY <1>1, <1>2, <1>3 DEF Next

LEMMA PaymentsInvariant == Spec => []PaymentsInv
  BY InitInv, NextInv, PTL DEF Spec

\* Every column holds what the code may store in it.
THEOREM TypeCorrect == Spec => []TypeOK
  <1>1. PaymentsInv => TypeOK
    BY DEF PaymentsInv
  <1> QED BY <1>1, PaymentsInvariant, PTL

\* However many reports and batches there are, a batch that waits for its
\* export has the rows, the total and the currency it was created with
\* (create_batch, export_batch and mark_failed of payment_service).
THEOREM BatchesMatchTheirRows == Spec => []BatchMatchesRows
  <1>1. PaymentsInv => BatchMatchesRows
    BY DEF PaymentsInv
  <1> QED BY <1>1, PaymentsInvariant, PTL

\* All downloads of a batch have the same content (export_batch).
THEOREM DownloadsAreEqual == Spec => []DownloadsAgree
  <1>1. PaymentsInv => DownloadsAgree
    BY DEF PaymentsInv, FileInv, DownloadsAgree
  <1> QED BY <1>1, PaymentsInvariant, PTL

-----------------------------------------------------------------------------
(***************************************************************************)
(* Payments implements Reimbursement.                                      *)
(***************************************************************************)
claims == [r \in Reports |-> ClaimOf(payment[r])]
ledger == Instructions(files)

\* A report that is approved is a claim that is approved; the amount is its
\* total, which is none of 0.
LEMMA ApproveSimulates ==
    ASSUME PaymentsInv, NEW r \in Reports, ApproveReport(r)
    PROVE  Abstract!Approve(r, report[r].total) /\ report[r].total \in Amounts
  <1>1. TypeOK /\ RowInv(r)
    BY DEF PaymentsInv
  <1>2. payment[r] = NoPayment
    BY <1>1 DEF ApproveReport, RowInv
  <1>3. payment' = [payment EXCEPT ![r] = [status |-> "pending", amount |-> report[r].total,
                                           batch |-> NoBatch]]
    BY <1>2 DEF ApproveReport, EnsurePendingPayment, NoPayment
  <1>4. ClaimOf(payment[r]) = [state |-> "open", amount |-> 0]
    BY <1>2 DEF ClaimOf, ClaimState, NoPayment
  <1>5. ClaimOf(payment'[r]) = [state |-> "approved", amount |-> report[r].total]
    BY <1>1, <1>3 DEF TypeOK, ClaimOf, ClaimState
  <1>6. \A q \in Reports \ {r} : payment'[q] = payment[q]
    BY <1>1, <1>3 DEF TypeOK
  <1>7. claims' = [claims EXCEPT ![r] = [state |-> "approved", amount |-> report[r].total]]
    BY <1>5, <1>6 DEF claims, ClaimOf, ClaimState
  <1>8. ledger' = ledger
    BY DEF ApproveReport, ledger, Instructions
  <1>9. report[r].total \in Amounts
    BY <1>1 DEF TypeOK, Report
  <1> QED BY <1>4, <1>7, <1>8, <1>9
          DEF Abstract!Approve, Abstract!Open, claims, ledger

\* An outcome that is recorded settles the claim.
LEMMA SettleSimulates ==
    ASSUME PaymentsInv, NEW r \in Reports, MarkPaid(r) \/ MarkFailed(r)
    PROVE  \E outcome \in {"paid", "failed"} : Abstract!Settle(r, outcome)
  <1>1. TypeOK
    BY DEF PaymentsInv
  <1>2. payment[r].status = "exported" /\ files' = files
    BY DEF MarkPaid, MarkFailed, Failable
  <1>3. PICK outcome \in {"paid", "failed"} :
            payment' = [payment EXCEPT ![r] = [@ EXCEPT !.status = outcome]]
    BY DEF MarkPaid, MarkFailed
  <1>4. ClaimOf(payment[r]) = [state |-> "instructed", amount |-> payment[r].amount]
    BY <1>2 DEF ClaimOf, ClaimState
  <1>5. payment'[r].status = outcome /\ payment'[r].amount = payment[r].amount
    BY <1>1, <1>3 DEF TypeOK, Payment
  <1>6. ClaimOf(payment'[r]) = [state |-> outcome, amount |-> payment[r].amount]
    BY <1>5 DEF ClaimOf, ClaimState
  <1>7. \A q \in Reports \ {r} : payment'[q] = payment[q]
    BY <1>1, <1>3 DEF TypeOK
  <1>8. claims[r] = ClaimOf(payment[r])
    BY DEF claims
  <1>9. [claims[r] EXCEPT !.state = outcome] = [state |-> outcome, amount |-> payment[r].amount]
    BY <1>4, <1>8
  <1>10. claims' = [claims EXCEPT ![r] = [claims[r] EXCEPT !.state = outcome]]
    <2>1. ASSUME NEW q \in Reports
          PROVE  claims'[q] = [claims EXCEPT ![r] = [claims[r] EXCEPT !.state = outcome]][q]
      BY <1>6, <1>7, <1>9 DEF claims
    <2> QED BY <2>1 DEF claims
  <1>11. ledger' = ledger
    BY <1>2 DEF ledger, Instructions
  <1>12. claims[r].state = "instructed"
    BY <1>4, <1>8
  <1>13. Abstract!Settle(r, outcome)
    BY <1>10, <1>11, <1>12 DEF Abstract!Settle, claims, ledger
  <1> QED BY <1>13

\* The first download of a batch instructs all its claims at once.
LEMMA ExportSimulates ==
    ASSUME PaymentsInv, NEW b \in Batches, ExportBatch(b)
    PROVE  Abstract!Instruct(BatchRows(b))
  <1> DEFINE S == BatchRows(b)
  <1>1. TypeOK
    BY DEF PaymentsInv
  <1>2. ASSUME NEW r \in S
        PROVE  /\ ClaimOf(payment[r]) = [state |-> "approved", amount |-> payment[r].amount]
               /\ ClaimOf(payment'[r]) = [state |-> "instructed", amount |-> payment[r].amount]
    <2>1. payment[r].status = "batched" /\ r \in Reports
      BY DEF ExportBatch, BatchRows
    <2>2. payment'[r].status = "exported" /\ payment'[r].amount = payment[r].amount
      BY <1>1, <2>1 DEF ExportBatch, TypeOK, Payment
    <2> QED BY <2>1, <2>2 DEF ClaimOf, ClaimState
  <1>3. \A r \in Reports \ S : payment'[r] = payment[r]
    BY DEF ExportBatch
  <1>4. S \subseteq Reports
    BY DEF BatchRows
  <1>5. \A r \in Reports : claims[r] = ClaimOf(payment[r]) /\ claims'[r] = ClaimOf(payment'[r])
    BY DEF claims
  <1>6. ASSUME NEW r \in S
        PROVE  /\ claims[r].state = "approved"
               /\ claims[r].amount = payment[r].amount
               /\ claims'[r] = [claims[r] EXCEPT !.state = "instructed"]
    <2>1. r \in Reports
      BY <1>4
    <2>2. claims[r] = ClaimOf(payment[r])
      BY <1>5, <2>1
    <2>3. claims'[r] = ClaimOf(payment'[r])
      BY <1>5, <2>1
    <2>4. claims[r] = [state |-> "approved", amount |-> payment[r].amount]
      BY <1>2, <2>2
    <2>5. claims'[r] = [state |-> "instructed", amount |-> payment[r].amount]
      BY <1>2, <2>3
    <2> QED BY <2>4, <2>5
  <1> HIDE DEF S
  <1>7. claims' = [r \in Reports |-> IF r \in S THEN [claims[r] EXCEPT !.state = "instructed"]
                                     ELSE claims[r]]
    <2>1. ASSUME NEW r \in S
          PROVE  claims'[r] = [claims[r] EXCEPT !.state = "instructed"]
      BY <1>6
    <2>2. ASSUME NEW r \in Reports \ S
          PROVE  claims'[r] = claims[r]
      BY <1>3, <1>5
    <2>3. \A r \in Reports :
            claims'[r] = IF r \in S THEN [claims[r] EXCEPT !.state = "instructed"]
                         ELSE claims[r]
      BY <2>1, <2>2
    <2>4. claims' = [r \in Reports |-> claims'[r]]
      BY DEF claims
    <2> QED BY <2>3, <2>4
  <1>8. ledger' = ledger \cup { <<r, claims[r].amount>> : r \in S }
    <2>1. files' = [files EXCEPT ![b] = files[b] \cup {Lines(b)}]
      BY DEF ExportBatch, Downloaded
    <2>2. files \in [Batches -> SUBSET (SUBSET Line)]
      BY <1>1 DEF TypeOK
    <2>3. /\ files'[b] = files[b] \cup {Lines(b)}
          /\ \A c \in Batches \ {b} : files'[c] = files[c]
      BY <2>1, <2>2
    <2>4. ASSUME NEW l
          PROVE  l \in UNION UNION { files'[c] : c \in Batches }
                    <=> l \in (UNION UNION { files[c] : c \in Batches }) \cup Lines(b)
      <3>1. l \in UNION UNION { files'[c] : c \in Batches }
                <=> \E c \in Batches : \E f \in files'[c] : l \in f
        BY Zenon
      <3>2. l \in UNION UNION { files[c] : c \in Batches }
                <=> \E c \in Batches : \E f \in files[c] : l \in f
        BY Zenon
      <3> HIDE DEF Lines
      <3> QED BY <2>3, <3>1, <3>2, Zenon
    <2>5. UNION UNION { files'[c] : c \in Batches }
            = (UNION UNION { files[c] : c \in Batches }) \cup Lines(b)
      BY <2>4, Zenon
    <2>6. \A r \in S : claims[r].amount = payment[r].amount
      BY <1>6
    <2>7. { <<l.report, l.amount>> : l \in Lines(b) } = { <<r, payment[r].amount>> : r \in S }
      <3> DEFINE line(r) == [report |-> r, amount |-> payment[r].amount,
                             currency |-> report[r].currency]
      <3>1. Lines(b) = { line(r) : r \in S }
        BY DEF Lines, S
      <3>2. ASSUME NEW r \in S
            PROVE  /\ line(r) \in Lines(b)
                   /\ <<line(r).report, line(r).amount>> = <<r, payment[r].amount>>
        BY <3>1
      <3>3. ASSUME NEW l \in Lines(b)
            PROVE  \E r \in S : <<l.report, l.amount>> = <<r, payment[r].amount>>
        <4>1. PICK r \in S : l = line(r)
          BY <3>1
        <4>2. <<l.report, l.amount>> = <<r, payment[r].amount>>
          BY <4>1
        <4> QED BY <4>2
      <3> HIDE DEF line
      <3>4. { <<l.report, l.amount>> : l \in Lines(b) } \subseteq { <<r, payment[r].amount>> : r \in S }
        BY <3>3
      <3>5. ASSUME NEW r \in S
            PROVE  <<r, payment[r].amount>> \in { <<l.report, l.amount>> : l \in Lines(b) }
        BY <3>2
      <3> QED BY <3>4, <3>5
    <2>8. { <<r, payment[r].amount>> : r \in S } = { <<r, claims[r].amount>> : r \in S }
      BY <2>6
    <2> QED BY <2>5, <2>7, <2>8 DEF ledger, Instructions
  <1>9. \A r \in S : claims[r].state = "approved"
    BY <1>6
  <1> QED BY <1>7, <1>8, <1>9 DEF S, Abstract!Instruct, claims, ledger

LEMMA StepSimulates ==
    PaymentsInv /\ [Next]_vars => [Abstract!Next]_(Abstract!vars)
  <1> SUFFICES ASSUME PaymentsInv, [Next]_vars PROVE [Abstract!Next]_(Abstract!vars)
    OBVIOUS
  <1>0. ASSUME UNCHANGED <<payment, files>> PROVE UNCHANGED Abstract!vars
    BY <1>0 DEF Abstract!vars, Instructions, ClaimOf, ClaimState
  <1>1. ASSUME NEW r \in Reports, ClaimNext(r) PROVE [Abstract!Next]_(Abstract!vars)
    <2>1. CASE ApproveReport(r)
      BY <2>1, ApproveSimulates DEF Abstract!Next
    <2>2. CASE MarkPaid(r) \/ MarkFailed(r)
      BY <2>2, SettleSimulates DEF Abstract!Next
    <2>3. CASE UNCHANGED <<payment, files>>
      BY <1>0, <2>3
    <2> QED BY <1>1, <2>1, <2>2, <2>3 DEF ClaimNext, EditClaim, Submit, TurnBack
  <1>2. ASSUME NEW b \in Batches, BatchNext(b) PROVE [Abstract!Next]_(Abstract!vars)
    <2>1. ASSUME NEW S \in SUBSET Reports, CreateBatch(b, S) PROVE UNCHANGED Abstract!vars
      <3>1. payment' = [r \in Reports |->
                          IF r \in S THEN [payment[r] EXCEPT !.status = "batched", !.batch = b]
                          ELSE payment[r]]
        BY <2>1, Zenon DEF CreateBatch
      <3>2. \A r \in S : payment[r].status = "pending"
        BY <2>1 DEF CreateBatch, Batchable
      <3>3. ASSUME NEW r \in Reports PROVE ClaimOf(payment'[r]) = ClaimOf(payment[r])
        <4>1. CASE r \in S
          <5>1. payment'[r].status = "batched" /\ payment'[r].amount = payment[r].amount
            BY <3>1, <4>1 DEF PaymentsInv, TypeOK, Payment
          <5> QED BY <3>2, <4>1, <5>1 DEF ClaimOf, ClaimState
        <4>2. CASE r \notin S
          BY <3>1, <4>2
        <4> QED BY <4>1, <4>2
      <3>4. files' = files
        BY <2>1 DEF CreateBatch
      <3> QED BY <3>3, <3>4 DEF Abstract!vars, Instructions
    <2>2. CASE ExportBatch(b)
      <3>1. BatchRows(b) \in SUBSET Reports
        BY DEF BatchRows
      <3> QED BY <2>2, <3>1, ExportSimulates DEF Abstract!Next
    <2>3. CASE DownloadAgain(b)
      BY <1>0, <2>3, DownloadChangesNothing DEF vars
    <2> QED BY <1>2, <2>1, <2>2, <2>3 DEF BatchNext
  <1>3. CASE UNCHANGED vars
    BY <1>0, <1>3 DEF vars
  <1> QED BY <1>1, <1>2, <1>3 DEF Next

LEMMA InitSimulates == Init => Abstract!Init
  <1> SUFFICES ASSUME Init PROVE Abstract!Init
    OBVIOUS
  <1>1. [r \in Reports |-> ClaimOf(payment[r])]
            = [r \in Reports |-> [state |-> "open", amount |-> 0]]
    BY DEF Init, ClaimOf, ClaimState, NoPayment
  <1>2. Instructions(files) = {}
    BY DEF Init, Instructions
  <1> QED BY <1>1, <1>2 DEF Abstract!Init, Abstract!Open

\* For every set of reports, batches and amounts, the batches, exports,
\* repeated downloads and failures of payment_service do nothing but approve
\* a claim once, instruct it once with the approved amount, and settle it.
THEOREM PaymentsImplementReimbursement == Spec => RefinesReimbursement
  <1>1. Init => Abstract!Init
    BY InitSimulates
  <1>2. PaymentsInv /\ [Next]_vars => [Abstract!Next]_(Abstract!vars)
    BY StepSimulates
  <1> QED BY <1>1, <1>2, PaymentsInvariant, PTL DEF Spec, RefinesReimbursement, Abstract!Spec

=============================================================================
