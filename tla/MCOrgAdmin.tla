----------------------------- MODULE MCOrgAdmin -----------------------------
(***************************************************************************)
(* Three people and two departments, two commits: a slow request and the   *)
(* one it overlaps with, or two in a row.                                  *)
(***************************************************************************)
EXTENDS OrgAdmin, TLC

CONSTANTS u1, u2, u3, d1, d2

MCRoleSets == {{"administrator", "approver"}, {"approver"}, {"employee"}}

Interchangeable == Permutations({u2, u3})

=============================================================================
