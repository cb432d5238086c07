--------------------------- MODULE MCTxCostTracker --------------------------
(***************************************************************************)
(* An instance of TxCostTracker.                                           *)
(***************************************************************************)
EXTENDS TxCostTracker

CONSTANTS t1, t2
=============================================================================
