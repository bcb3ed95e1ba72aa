--------------------------- MODULE MCJobPipeline ---------------------------
(* Instances of JobPipeline for TLC.                                       *)
EXTENDS JobPipeline

(* The transaction after the claim fails.                                  *)
TxFaults == {"tx_error"}
=============================================================================
