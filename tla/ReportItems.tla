---------------------------- MODULE ReportItems ----------------------------
(***************************************************************************)
(* The items of one report and the requests that change them, as database  *)
(* transactions that overlap.  A request reads the report and the item it  *)
(* works on, then sums the items, and writes when it commits; under READ   *)
(* COMMITTED another request may commit in between.  Rows carry a version  *)
(* that the ORM compares when it writes them, but it only writes a row     *)
(* that has changed: the report is not checked by a request that finds its *)
(* old total again.                                                        *)
(*                                                                         *)
(* Sources: backend/app/services/item_service.py, report_service.py and    *)
(* the final decision of approval_service.py; core/database.py             *)
(* (autoflush=False) and models/base.py (version).                         *)
(***************************************************************************)
EXTENDS Naturals, Functions

CONSTANTS
    Items,      \* line items; a deleted one stands for a new one that is added
    Sessions,   \* requests that are served at the same time
    Amounts     \* what an item may cost

ASSUME AmountsAssumption == Amounts \subseteq Nat \ {0}

VARIABLES
    status,     \* expense_reports.status; a report sent back counts as a draft
    total,      \* expense_reports.total_amount
    payment,    \* payment_records.amount, 0 before the row exists
    amount,     \* expense_items.amount, 0 when there is no such item
    tx,         \* the open transaction of each session
    slipped     \* history: an item was changed behind the submitted total

vars == <<status, total, payment, amount, tx, slipped>>

-----------------------------------------------------------------------------
ItemRequests == {"add", "update", "delete"}
ReportRequests == {"submit", "turn_back", "approve"}

(***************************************************************************)
(* A transaction.  "stale" names what others have committed since it read  *)
(* it: the report or the item (whose version has moved), the last line     *)
(* number (uq_expense_items_report_line), or, which the code never looks   *)
(* at, the items it has summed.                                            *)
(***************************************************************************)
NoTx == [request |-> "none"]

Sum(f) == FoldFunction(+, 0, f)

\* Whatever the items are, their sum is one of these.
Totals == {0} \cup { Sum(f) : f \in [Items -> {0} \cup Amounts] }

Stale == SUBSET {"report", "item", "line", "sum"}

ReportTransaction ==
    [ request : ReportRequests,
      loaded  : Totals,                      \* the report's total when it was read
      summed  : BOOLEAN,
      sum     : Totals,
      stale   : Stale ]

ItemTransaction ==
    [ request : ItemRequests,
      item    : Items,
      was     : {0} \cup Amounts,         \* the item's amount when it was read
      to      : {0} \cup Amounts,         \* the amount to be stored
      loaded  : Totals,
      summed  : BOOLEAN,
      sum     : Totals,
      stale   : Stale ]

UnderReview(st) == st # "draft"

\* The reads of a handler that works on an item; a new item gets a row of
\* its own.
OpenItem(s, request, i, a) ==
    /\ tx[s] = NoTx
    /\ status = "draft"
    /\ IF request = "add"
       THEN /\ amount[i] = 0
            /\ \A o \in Sessions : tx[o].request = "add" => tx[o].item # i
       ELSE amount[i] # 0
    /\ (request = "delete") <=> (a = 0)
    /\ tx' = [tx EXCEPT ![s] =
                [request |-> request, item |-> i, was |-> amount[i], to |-> a,
                 loaded |-> total, summed |-> FALSE, sum |-> 0, stale |-> {}]]
    /\ UNCHANGED <<status, total, payment, amount, slipped>>

\* The reads of a handler that works on the report.
OpenReport(s, request) ==
    /\ tx[s] = NoTx
    /\ status = IF request = "submit" THEN "draft" ELSE "submitted"
    /\ tx' = [tx EXCEPT ![s] =
                [request |-> request, loaded |-> total,
                 summed |-> FALSE, sum |-> 0, stale |-> {}]]
    /\ UNCHANGED <<status, total, payment, amount, slipped>>

\* Fault: the item to be deleted is taken off what the database sums.
SumSeenLessDeleted(t) ==
    CASE t.request = "add"    -> Sum([amount EXCEPT ![t.item] = t.to])
      [] t.request = "delete" -> Sum(amount) - t.was
      [] OTHER                -> Sum(amount)

\* recompute_total: add_item has flushed its row, update_item and delete_item
\* have not flushed their change.
SumSeen(t) == Sum(IF t.request = "add" THEN [amount EXCEPT ![t.item] = t.to] ELSE amount)

\* A second INSERT with the same line number waits for the first.
RecomputeTotal(s) ==
    LET t == tx[s] IN
    /\ t.request \in ItemRequests \cup {"submit"}
    /\ ~t.summed
    /\ t.request = "add" =>
          \A o \in Sessions : ~(tx[o].request = "add" /\ tx[o].summed)
    /\ tx' = [tx EXCEPT ![s] = [t EXCEPT
                !.summed = TRUE, !.sum = SumSeen(t), !.stale = @ \ {"sum"}]]
    /\ UNCHANGED <<status, total, payment, amount, slipped>>

-----------------------------------------------------------------------------
WritesItem(t) == t.request \in ItemRequests
WritesReport(t) == t.request \in ReportRequests \/ t.sum # t.loaded

\* Fault: the version of the report is not compared.
FlushesItemOnly(t) ==
    /\ t.request \in {"update", "delete"} => "item" \notin t.stale
    /\ t.request = "add" => "line" \notin t.stale

\* Fault: the version of the item is not compared.
FlushesReportOnly(t) ==
    /\ WritesReport(t) => "report" \notin t.stale
    /\ t.request = "add" => "line" \notin t.stale

\* The version checks of the flush, and the unique line numbers.
Flushes(t) ==
    /\ WritesReport(t) => "report" \notin t.stale
    /\ t.request \in {"update", "delete"} => "item" \notin t.stale
    /\ t.request = "add" => "line" \notin t.stale

\* Others that have read what t writes.
Outdated(t, o) ==
    IF o = NoTx THEN o
    ELSE [o EXCEPT !.stale = @
            \cup (IF WritesReport(t) THEN {"report"} ELSE {})
            \cup (IF WritesItem(t) /\ WritesItem(o) /\ o.item = t.item THEN {"item"} ELSE {})
            \cup (IF t.request = "add" THEN {"line"} ELSE {})
            \cup (IF WritesItem(t) /\ ~WritesReport(t) THEN {"sum"} ELSE {})]

Close(s) ==
    tx' = [o \in Sessions |-> IF o = s THEN NoTx ELSE Outdated(tx[s], tx[o])]

\* The commit of add_item, update_item or delete_item.
CommitItem(s) ==
    LET t == tx[s] IN
    /\ WritesItem(t) /\ t.summed /\ Flushes(t)
    /\ amount' = [amount EXCEPT ![t.item] = t.to]
    /\ total' = IF WritesReport(t) THEN t.sum ELSE total
    /\ slipped' = (slipped \/ (UnderReview(status) /\ ~WritesReport(t)))
    /\ Close(s)
    /\ UNCHANGED <<status, payment>>

\* submit_report: a report without items is refused; the policy checks read
\* the same items.
CommitSubmit(s) ==
    LET t == tx[s] IN
    /\ t.request = "submit" /\ t.summed /\ Flushes(t)
    /\ t.sum # 0
    /\ status' = "submitted"
    /\ total' = t.sum
    /\ slipped' = ("sum" \in t.stale)
    /\ Close(s)
    /\ UNCHANGED <<payment, amount>>

\* withdraw_report and a send-back: the report may be edited again.
CommitTurnBack(s) ==
    LET t == tx[s] IN
    /\ t.request = "turn_back" /\ Flushes(t)
    /\ status' = "draft"
    /\ slipped' = FALSE
    /\ Close(s)
    /\ UNCHANGED <<total, payment, amount>>

\* The last approval: ensure_pending_payment takes the total it has loaded.
CommitApprove(s) ==
    LET t == tx[s] IN
    /\ t.request = "approve" /\ Flushes(t)
    /\ status' = "approved"
    /\ payment' = t.loaded
    /\ Close(s)
    /\ UNCHANGED <<total, amount, slipped>>

\* StaleDataError, IntegrityError, a refusal, a lost connection: rolled back.
Rollback(s) ==
    /\ tx[s] # NoTx
    /\ tx' = [tx EXCEPT ![s] = NoTx]
    /\ UNCHANGED <<status, total, payment, amount, slipped>>

Init ==
    /\ status = "draft"
    /\ total = 0
    /\ payment = 0
    /\ amount = [i \in Items |-> 0]
    /\ tx = [s \in Sessions |-> NoTx]
    /\ slipped = FALSE

Next ==
    \E s \in Sessions :
        \/ \E request \in ItemRequests, i \in Items, a \in {0} \cup Amounts :
              OpenItem(s, request, i, a)
        \/ \E request \in ReportRequests : OpenReport(s, request)
        \/ RecomputeTotal(s)
        \/ CommitItem(s) \/ CommitSubmit(s) \/ CommitTurnBack(s) \/ CommitApprove(s)
        \/ Rollback(s)

Spec == Init /\ [][Next]_vars

-----------------------------------------------------------------------------
(***************************************************************************)
(* Correctness.                                                            *)
(***************************************************************************)

\* The rows and the transactions have their types.
TypeOK ==
    /\ status \in {"draft", "submitted", "approved"}
    /\ total \in Totals
    /\ payment \in Totals
    /\ amount \in [Items -> {0} \cup Amounts]
    /\ tx \in [Sessions -> {NoTx} \cup ItemTransaction \cup ReportTransaction]
    /\ slipped \in BOOLEAN

\* The total under review is the sum of the items, unless an item was changed
\* by a request that left the report row alone, after the items were summed
\* for the submission.  Requests that change the total cannot do that.
SubmittedTotalIsSum ==
    UnderReview(status) /\ ~slipped => total = Sum(amount)

\* The approvers and finance see one total: a request that was opened before
\* the submission cannot change it afterwards.
ReviewedTotalFrozen ==
    [][UnderReview(status) /\ UnderReview(status') => total' = total]_vars

\* What is paid is the total that was under review when the approval took
\* effect, even if the approver's request began in an earlier round.
PaymentIsReviewedTotal ==
    payment = IF status = "approved" THEN total ELSE 0

\* Of two requests that read the same item only one can change it: nobody
\* overwrites or deletes an amount he has not seen.
NoLostEdit ==
    [][\A s \in Sessions : CommitItem(s) => amount[tx[s].item] = tx[s].was]_vars

\* item_service.py: "Only draft or sent-back reports can be edited".
ItemsFrozenUnderReview ==
    [][UnderReview(status) => amount' = amount]_vars

=============================================================================
