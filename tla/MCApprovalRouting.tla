-------------------------- MODULE MCApprovalRouting --------------------------
(***************************************************************************)
(* Three people, one of them the administrator, and two rules: levels,     *)
(* named users and roles, alone and in a chain.                            *)
(***************************************************************************)
EXTENDS ApprovalRouting

CONSTANTS u1, u2, u3, d1

MCRoleSets == {{"administrator", "approver"}, {"approver"}, {"employee"}}

Manager(n) == [by |-> "manager_level", level |-> n]
User(u) == [by |-> "user_id", user |-> u]
RoleOf(r) == [by |-> "role_code", role |-> r]

MCChains == {<<Manager(1)>>, <<User(u2), Manager(2)>>, <<User(u3)>>, <<RoleOf("approver"), Manager(1)>>}

=============================================================================
