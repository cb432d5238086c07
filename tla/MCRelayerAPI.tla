---------------------------- MODULE MCRelayerAPI ----------------------------
(***************************************************************************)
(* An instance of RelayerAPI: a transaction with three packets, one of     *)
(* them to an unknown destination, whose hash has two spellings, and a     *)
(* transaction of a blacklisted sender.                                    *)
(***************************************************************************)
EXTENDS RelayerAPI

CONSTANTS c1, c2, upper, lower, other, t1, t2

HashesOf == [h \in Hash |-> IF h = other THEN t2 ELSE t1]
Sent == [t \in Tx |-> IF t = t1 THEN {1, 2, 3} ELSE {4}]
=============================================================================
