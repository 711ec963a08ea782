--------------------------- MODULE MCReportItems ---------------------------
(***************************************************************************)
(* Small instances of ReportItems.                                         *)
(***************************************************************************)
EXTENDS ReportItems, TLC

CONSTANTS i1, i2, s1, s2

=============================================================================
