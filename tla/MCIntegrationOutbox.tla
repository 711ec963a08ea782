------------------------ MODULE MCIntegrationOutbox ------------------------
(***************************************************************************)
(* Small instances of IntegrationOutbox.                                   *)
(***************************************************************************)
EXTENDS IntegrationOutbox

CONSTANTS w1, w2

=============================================================================
