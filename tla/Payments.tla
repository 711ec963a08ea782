------------------------------ MODULE Payments ------------------------------
(***************************************************************************)
(* Payments: the row the last approval creates, its way through an export  *)
(* batch to the payment rail, and the outcome finance records.             *)
(*                                                                         *)
(* Sources: backend/app/services/payment_service.py and its routes; the    *)
(* report handlers only as far as they touch what a payment reads.  One    *)
(* action is one committed transaction: every payment handler locks the    *)
(* rows it changes (FOR UPDATE) before it looks at their status.           *)
(***************************************************************************)
EXTENDS Naturals, FiniteSets, Functions

CONSTANTS
    Reports,    \* the expense reports of one organisation
    Batches,    \* bound: the export batches finance can create
    NoBatch,    \* NULL in payment_batch_id
    Amounts,    \* totals of a report
    Currencies  \* currency codes

ASSUME PaymentsAssumption ==
    /\ NoBatch \notin Batches
    /\ Amounts \subseteq Nat \ {0}
    /\ IsFiniteSet(Reports)
    /\ Currencies # {}

VARIABLES
    report,     \* expense_reports: status, total_amount, currency_code
    payment,    \* payment_records: status, amount, payment_batch_id
    batch,      \* payment_batches: status, count, total, currency
    files       \* history: the different contents downloaded of each batch

vars == <<report, payment, batch, files>>

-----------------------------------------------------------------------------
ReportStatus == {"draft", "submitted", "sent_back", "rejected",
                 "approved_pending_payment", "paid"}
PAYMENT_STATUSES == {"pending", "batched", "exported", "paid", "failed"}
BATCH_STATUSES == {"created", "exported"}

Report == [status : ReportStatus, total : Amounts, currency : Currencies]

Payment == [status : PAYMENT_STATUSES \cup {"absent"},
            amount : Amounts \cup {0},
            batch  : Batches \cup {NoBatch}]

\* What the rows of a batch can add up to.
Totals == { SumFunction(f) : f \in UNION { [S -> Amounts \cup {0}] : S \in SUBSET Reports } }

Batch == [status   : BATCH_STATUSES \cup {"absent"},
          count    : Nat,
          total    : Totals \cup {0},
          currency : Currencies]

Line == [report : Reports, amount : Amounts \cup {0}, currency : Currencies]

NoPayment == [status |-> "absent", amount |-> 0, batch |-> NoBatch]

SumOf(S) == SumFunction([r \in S |-> payment[r].amount])

\* _batch_rows_for_export.
BatchRows(b) == { r \in Reports : payment[r].batch = b }

\* _csv_for_batch, _export_values: one line per row, in the report's currency.
Lines(b) == { [report |-> r, amount |-> payment[r].amount, currency |-> report[r].currency]
                : r \in BatchRows(b) }

-----------------------------------------------------------------------------
(***************************************************************************)
(* The report until it is approved.                                        *)
(***************************************************************************)

\* Fault: an approved claim can still be edited.
EditAnyClaim(r, total, currency) ==
    /\ report' = [report EXCEPT ![r] = [@ EXCEPT !.total = total, !.currency = currency]]
    /\ UNCHANGED <<payment, batch, files>>

\* update_draft and the item handlers.
EditClaim(r, total, currency) ==
    /\ report[r].status \in {"draft", "sent_back"}
    /\ report' = [report EXCEPT ![r] = [@ EXCEPT !.total = total, !.currency = currency]]
    /\ UNCHANGED <<payment, batch, files>>

Submit(r) ==
    /\ report[r].status \in {"draft", "sent_back"}
    /\ report' = [report EXCEPT ![r] = [@ EXCEPT !.status = "submitted"]]
    /\ UNCHANGED <<payment, batch, files>>

\* A withdrawal, a rejection or a return to the owner.
TurnBack(r, status) ==
    /\ report[r].status = "submitted"
    /\ report' = [report EXCEPT ![r] = [@ EXCEPT !.status = status]]
    /\ UNCHANGED <<payment, batch, files>>

\* ensure_pending_payment: a row that exists is kept.
EnsurePendingPayment(r) ==
    IF payment[r].status # "absent"
    THEN payment
    ELSE [payment EXCEPT ![r] = [status |-> "pending", amount |-> report[r].total,
                                 batch |-> NoBatch]]

\* The last approval, with the payment row in the same transaction.
ApproveReport(r) ==
    /\ report[r].status = "submitted"
    /\ report' = [report EXCEPT ![r] = [@ EXCEPT !.status = "approved_pending_payment"]]
    /\ payment' = EnsurePendingPayment(r)
    /\ UNCHANGED <<batch, files>>

-----------------------------------------------------------------------------
(***************************************************************************)
(* Finance.                                                                *)
(***************************************************************************)

\* Fault: a failed payment may be tried again in another batch.
BatchableAgain(r) == payment[r].status \in {"pending", "failed"}

Batchable(r) == payment[r].status = "pending"

CreateBatch(b, S) ==
    /\ batch[b].status = "absent"
    /\ S # {}
    /\ \A r \in S : Batchable(r)
    /\ \A r, q \in S : report[r].currency = report[q].currency
    /\ batch' = [batch EXCEPT ![b] =
                    [status   |-> "created",
                     count    |-> Cardinality(S),
                     total    |-> SumOf(S),
                     currency |-> CHOOSE c \in Currencies : \A r \in S : report[r].currency = c]]
    /\ payment' = [r \in Reports |->
                    IF r \in S THEN [payment[r] EXCEPT !.status = "batched", !.batch = b]
                    ELSE payment[r]]
    /\ UNCHANGED <<report, files>>

\* Every download of a batch first checks that its rows are all there.
Downloadable(b) ==
    /\ batch[b].status \in BATCH_STATUSES
    /\ Cardinality(BatchRows(b)) = batch[b].count

Downloaded(b) == [files EXCEPT ![b] = @ \cup {Lines(b)}]

ExportBatch(b) ==
    /\ Downloadable(b)
    /\ batch[b].status = "created"
    /\ \A r \in BatchRows(b) : payment[r].status = "batched"
    /\ batch' = [batch EXCEPT ![b] = [@ EXCEPT !.status = "exported"]]
    /\ payment' = [r \in Reports |->
                    IF r \in BatchRows(b) THEN [payment[r] EXCEPT !.status = "exported"]
                    ELSE payment[r]]
    /\ files' = Downloaded(b)
    /\ UNCHANGED report

\* An exported batch is downloaded again, in any format, with no other effect.
DownloadAgain(b) ==
    /\ Downloadable(b)
    /\ batch[b].status = "exported"
    /\ files' = Downloaded(b)
    /\ UNCHANGED <<report, payment, batch>>

MarkPaid(r) ==
    /\ payment[r].status = "exported"
    /\ payment' = [payment EXCEPT ![r] = [@ EXCEPT !.status = "paid"]]
    /\ report' = IF report[r].status = "approved_pending_payment"
                 THEN [report EXCEPT ![r] = [@ EXCEPT !.status = "paid"]]
                 ELSE report
    /\ UNCHANGED <<batch, files>>

\* Fault: a payment can fail while its batch has not been exported.
FailableEarly(r) == payment[r].status \in {"batched", "exported"}

Failable(r) == payment[r].status = "exported"

MarkFailed(r) ==
    /\ Failable(r)
    /\ payment' = [payment EXCEPT ![r] = [@ EXCEPT !.status = "failed"]]
    /\ UNCHANGED <<report, batch, files>>

-----------------------------------------------------------------------------
Init ==
    /\ report \in [Reports -> [status : {"draft"}, total : Amounts, currency : Currencies]]
    /\ payment = [r \in Reports |-> NoPayment]
    /\ batch \in [Batches -> [status : {"absent"}, count : {0}, total : {0},
                              currency : {CHOOSE c \in Currencies : TRUE}]]
    /\ files = [b \in Batches |-> {}]

ClaimNext(r) ==
    \/ \E total \in Amounts, currency \in Currencies : EditClaim(r, total, currency)
    \/ Submit(r)
    \/ \E status \in {"draft", "sent_back", "rejected"} : TurnBack(r, status)
    \/ ApproveReport(r)
    \/ MarkPaid(r)
    \/ MarkFailed(r)

BatchNext(b) ==
    \/ \E S \in SUBSET Reports : CreateBatch(b, S)
    \/ ExportBatch(b)
    \/ DownloadAgain(b)

Next ==
    \/ \E r \in Reports : ClaimNext(r)
    \/ \E b \in Batches : BatchNext(b)

Spec == Init /\ [][Next]_vars

-----------------------------------------------------------------------------
(***************************************************************************)
(* Correctness.                                                            *)
(***************************************************************************)

\* The columns hold what the code may store in them.
TypeOK ==
    /\ report \in [Reports -> Report]
    /\ payment \in [Reports -> Payment]
    /\ batch \in [Batches -> Batch]
    /\ files \in [Batches -> SUBSET (SUBSET Line)]

\* mark_failed: a failure "would leave the batch's persisted count and total
\* out of sync, and make that batch impossible to export".  No sequence of
\* operations on payments and claims does: until it is exported a batch has
\* the rows, the total and the one currency it was created with, and its
\* export is not refused.
BatchMatchesRows ==
    \A b \in Batches : batch[b].status = "created" =>
        /\ Cardinality(BatchRows(b)) = batch[b].count
        /\ SumOf(BatchRows(b)) = batch[b].total
        /\ \A r \in BatchRows(b) :
              /\ payment[r].status = "batched"
              /\ report[r].currency = batch[b].currency

\* export_batch: downloading an exported batch again gives the content it was
\* exported with, whatever has happened to its payments and reports since.
DownloadsAgree ==
    \A b \in Batches : \A f, g \in files[b] : f = g

-----------------------------------------------------------------------------
(***************************************************************************)
(* A payment as the abstract specification sees it.                        *)
(***************************************************************************)
ClaimState(p) ==
    IF p.status = "absent" THEN "open"
    ELSE IF p.status \in {"pending", "batched"} THEN "approved"
    ELSE IF p.status = "exported" THEN "instructed"
    ELSE p.status

ClaimOf(p) == [state |-> ClaimState(p), amount |-> p.amount]

Instructions(f) == { <<l.report, l.amount>> : l \in UNION UNION { f[b] : b \in Batches } }

Abstract == INSTANCE Reimbursement WITH
    Claims <- Reports,
    claim  <- [r \in Reports |-> ClaimOf(payment[r])],
    ledger <- Instructions(files)

\* Batches, repeated downloads and failed payments pay every approved claim
\* at most once, with the approved amount, and never touch a settled one.
RefinesReimbursement == Abstract!Spec

=============================================================================
