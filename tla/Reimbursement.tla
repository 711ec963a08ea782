---------------------------- MODULE Reimbursement ----------------------------
(***************************************************************************)
(* What the payment operations promise, without batches, rows or files: a  *)
(* claim is approved with an amount, the payment rail is instructed to pay *)
(* it at most once and with that amount, and the outcome is final.         *)
(***************************************************************************)
EXTENDS Naturals

CONSTANTS
    Claims,     \* what may be reimbursed
    Amounts     \* the amounts of a claim, none of them 0

VARIABLES
    claim,      \* the state of each claim, and its amount once approved
    ledger      \* the instructions the rail has been given

vars == <<claim, ledger>>

Open == [state |-> "open", amount |-> 0]

Approve(c, a) ==
    /\ claim[c] = Open
    /\ claim' = [claim EXCEPT ![c] = [state |-> "approved", amount |-> a]]
    /\ UNCHANGED ledger

\* Several claims are handed over at once, in one file.
Instruct(S) ==
    /\ \A c \in S : claim[c].state = "approved"
    /\ claim' = [c \in Claims |->
                    IF c \in S THEN [claim[c] EXCEPT !.state = "instructed"] ELSE claim[c]]
    /\ ledger' = ledger \cup { <<c, claim[c].amount>> : c \in S }

Settle(c, outcome) ==
    /\ claim[c].state = "instructed"
    /\ claim' = [claim EXCEPT ![c] = [@ EXCEPT !.state = outcome]]
    /\ UNCHANGED ledger

Init ==
    /\ claim = [c \in Claims |-> Open]
    /\ ledger = {}

Next ==
    \/ \E c \in Claims : \/ \E a \in Amounts : Approve(c, a)
                         \/ \E outcome \in {"paid", "failed"} : Settle(c, outcome)
    \/ \E S \in SUBSET Claims : Instruct(S)

Spec == Init /\ [][Next]_vars

=============================================================================
