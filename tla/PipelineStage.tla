---------------------------- MODULE PipelineStage ----------------------------
(***************************************************************************)
(* What the stages before and behind it, and the dispatcher, may rely on   *)
(* of a stage of the pipeline, whatever goroutines and channels it is made *)
(* of: a transfer that goes in comes out, once; transfers may overtake     *)
(* each other; only a cancelled context lets the stage drop any; and it    *)
(* closes its output after its input, when nothing is left inside.         *)
(***************************************************************************)
CONSTANT Keys   \* the transfers

VARIABLES
    outside,    \* the transfers that can go in, or in again
    inside,     \* those in the stage
    cancelled,  \* the context is cancelled
    in,         \* "open" or "closed", as is
    out         \* the other end

vars == <<outside, inside, cancelled, in, out>>

Init ==
    /\ outside = Keys /\ inside = {} /\ cancelled = FALSE
    /\ in = "open" /\ out = "open"

Enter(k) ==
    /\ k \in outside /\ in = "open"
    /\ outside' = outside \ {k} /\ inside' = inside \cup {k}
    /\ UNCHANGED <<cancelled, in, out>>

Leave(k) ==
    /\ k \in inside /\ out = "open"
    /\ inside' = inside \ {k} /\ outside' = outside \cup {k}
    /\ UNCHANGED <<cancelled, in, out>>

Cancel ==
    /\ ~cancelled /\ cancelled' = TRUE
    /\ UNCHANGED <<outside, inside, in, out>>

Drop ==
    /\ cancelled /\ inside' \subseteq inside
    /\ UNCHANGED <<outside, cancelled, in, out>>

CloseIn ==
    /\ cancelled /\ in = "open" /\ in' = "closed"
    /\ UNCHANGED <<outside, inside, cancelled, out>>

CloseOut ==
    /\ in = "closed" /\ inside = {} /\ out = "open" /\ out' = "closed"
    /\ UNCHANGED <<outside, inside, cancelled, in>>

Next ==
    \/ \E k \in Keys : Enter(k) \/ Leave(k)
    \/ Cancel \/ Drop \/ CloseIn \/ CloseOut

Spec == Init /\ [][Next]_vars
=============================================================================
