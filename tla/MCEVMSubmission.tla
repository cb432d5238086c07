--------------------------- MODULE MCEVMSubmission --------------------------
(***************************************************************************)
(* An instance of EVMSubmission.                                           *)
(***************************************************************************)
EXTENDS EVMSubmission

CONSTANTS c1, c2
=============================================================================
