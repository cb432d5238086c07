--------------------------- MODULE TransferCustody --------------------------
(***************************************************************************)
(* Who may touch the row of a transfer, and when: the agreement between    *)
(* the dispatcher, which reads rows and hands the transfers to pipelines,  *)
(* and the pipelines, which write the rows of the transfers they have.     *)
(* RelayDispatcher and TransferPipeline both implement it, the first with  *)
(* its goroutines, channels and mutexes, the second with what the stages   *)
(* do to one transfer.                                                     *)
(***************************************************************************)
CONSTANT Keys   \* the transfers

VARIABLES
    open,       \* the transfers whose rows are unfinished
    polled,     \* those the dispatcher has read and not handed over yet
    inside      \* those that are in a pipeline

vars == <<open, polled, inside>>

Init == open \in SUBSET Keys /\ polled = {} /\ inside = {}

\* A client adds a transfer.
Add(k) ==
    /\ k \notin open \cup polled \cup inside
    /\ open' = open \cup {k} /\ UNCHANGED <<polled, inside>>

\* The dispatcher reads the unfinished rows, once it has done with those it read before.
Poll ==
    /\ polled = {} /\ polled' = open
    /\ UNCHANGED <<open, inside>>

\* It hands a transfer over to a pipeline that does not have it, ...
Enter(k) ==
    /\ k \in polled \ inside
    /\ polled' = polled \ {k} /\ inside' = inside \cup {k}
    /\ UNCHANGED open

\* ... drops it because a pipeline has it, ...
Drop(k) ==
    /\ k \in polled \cap inside
    /\ polled' = polled \ {k}
    /\ UNCHANGED <<open, inside>>

\* ... or gives it up, there being no pipeline for it.
GiveUp(k) ==
    /\ k \in polled \ inside
    /\ polled' = polled \ {k} /\ open' \in {open, open \ {k}}
    /\ UNCHANGED inside

\* A pipeline finishes a transfer that it has, or takes up again one that was finished after
\* the dispatcher read its row.
Write(k) ==
    /\ k \in inside
    /\ open' \in {open \cup {k}, open \ {k}}
    /\ UNCHANGED <<polled, inside>>

\* A transfer leaves its pipeline, finished or not.
Leave(k) ==
    /\ k \in inside /\ inside' = inside \ {k}
    /\ UNCHANGED <<open, polled>>

\* The process stops and is started again.
Restart ==
    /\ polled' = {} /\ inside' = {}
    /\ UNCHANGED open

Next ==
    \/ \E k \in Keys : Add(k) \/ Enter(k) \/ Drop(k) \/ GiveUp(k) \/ Write(k) \/ Leave(k)
    \/ Poll \/ Restart

Spec == Init /\ [][Next]_vars
=============================================================================
