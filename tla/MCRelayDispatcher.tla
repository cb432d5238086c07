------------------------- MODULE MCRelayDispatcher --------------------------
(***************************************************************************)
(* Instances of RelayDispatcher.                                           *)
(***************************************************************************)
EXTENDS RelayDispatcher

CONSTANTS k1, k2, k3, p1, p2

\* Two transfers share a path, and one has a path of its own.
OnTwoPaths == [k \in Keys |-> IF k \in {k1, k2} THEN p1 ELSE p2]

OnOnePath == [k \in Keys |-> p1]
=============================================================================
