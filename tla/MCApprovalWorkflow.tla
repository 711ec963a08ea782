------------------------- MODULE MCApprovalWorkflow -------------------------
(***************************************************************************)
(* Small instances of ApprovalWorkflow: the reports of one employee, emp,  *)
(* and two approvers, ann and bob.                                         *)
(***************************************************************************)
EXTENDS ApprovalWorkflow, TLC

CONSTANTS r1, r2, emp, ann, bob

MCOwner == [r \in Reports |-> emp]

\* ann and bob stand in for each other; or bob for ann only.
MCPairs == {<<ann, bob>>, <<bob, ann>>}
MCOnePair == {<<ann, bob>>}
MCNoPair == {}

\* The users in f have a manager to escalate to.
Chart(chain, f) ==
    [chain    |-> chain,
     superior |-> [u \in Users |-> IF u \in DOMAIN f THEN f[u] ELSE NoUser]]

ForAll(chain) == [r \in Reports |-> chain]

\* ann alone, under bob; or, after a reorganisation, bob then ann by a rule
\* that names them, with the employee himself above bob.
MCOrgCharts ==
    { Chart(ForAll(<<ann>>), ann :> bob),
      Chart(ForAll(<<bob, ann>>), bob :> emp) }

\* Nothing is reorganised: ann has bob above her and bob has nobody.
MCSteadyOrg == { Chart([r \in Reports |-> IF r = r1 THEN <<ann>> ELSE <<bob>>], ann :> bob) }

\* bob takes over from ann as the approver of the employee's reports.
MCTakeover ==
    { Chart(ForAll(<<ann>>), ann :> bob),
      Chart(ForAll(<<bob>>), ann :> bob) }

=============================================================================
