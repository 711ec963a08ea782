--------------------------- MODULE MCAiReviewJobs ---------------------------
(***************************************************************************)
(* Two events, two background tasks and one request for /process.          *)
(***************************************************************************)
EXTENDS AiReviewJobs

CONSTANTS e1, e2, w1, w2, c1

=============================================================================
