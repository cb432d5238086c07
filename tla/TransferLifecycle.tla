-------------------------- MODULE TransferLifecycle -------------------------
(***************************************************************************)
(* What the relayer promises about one transfer, without saying how: no    *)
(* rows, copies, stages, hashes, retries or restarts.  A client of the     *)
(* relayer sees the packet on its two chains and the outcome the relayer   *)
(* reports; the chains see the relayer submit transactions.  The promise   *)
(* is that it submits only what is due, and reports only what happened.    *)
(***************************************************************************)
CONSTANTS
    Acknowledgement,    \* what a destination may write when it receives the packet
    Wanted              \* those of them the source chain is to get

VARIABLES
    packet,         \* the packet on the source: "committed", "acked" or "timedOut"
    receipt,        \* the acknowledgement the destination wrote, or "NONE"
    sendFinal,      \* the send is final on the source
    receiptFinal,   \* the receipt is final on the destination
    inFlight,       \* the kinds of transaction the relayer submitted and that did not land yet
    outcome         \* the final status the relayer reports, or "OPEN"

vars == <<packet, receipt, sendFinal, receiptFinal, inFlight, outcome>>

Kind == {"recv", "ack", "timeout"}
Outcome == {"COMPLETE_WITH_ACK", "COMPLETE_WITH_TIMEOUT",
            "COMPLETE_WITH_WRITE_ACK_SUCCESS", "COMPLETE_WITH_WRITE_ACK_ERROR"}

Init ==
    /\ packet = "committed" /\ receipt = "NONE"
    /\ sendFinal \in BOOLEAN /\ receiptFinal = FALSE
    /\ inFlight = {} /\ outcome = "OPEN"

-----------------------------------------------------------------------------
(* The relayer.                                                            *)

\* A transaction about the packet may be submitted.
Due(k) ==
    IF k = "ack" THEN receipt \in Wanted /\ receiptFinal ELSE sendFinal

\* To submit is to be open: no transaction is submitted for a transfer that is, and stays,
\* reported as finished.
Submit(k) ==
    /\ Due(k)
    /\ inFlight' = inFlight \cup {k} /\ outcome' = "OPEN"
    /\ UNCHANGED <<packet, receipt, sendFinal, receiptFinal>>

\* The chains bear out a final status.
Justified(s) ==
    CASE s = "COMPLETE_WITH_ACK"     -> packet = "acked"
      [] s = "COMPLETE_WITH_TIMEOUT" -> packet # "committed"
      [] OTHER                       -> receipt \in Acknowledgement \ Wanted

Finish(s) ==
    /\ outcome = "OPEN" /\ Justified(s)
    /\ outcome' = s
    /\ UNCHANGED <<packet, receipt, sendFinal, receiptFinal, inFlight>>

\* A finished transfer may be looked at once more, from a copy read before it was finished.
Reopen ==
    /\ outcome # "OPEN" /\ outcome' = "OPEN"
    /\ UNCHANGED <<packet, receipt, sendFinal, receiptFinal, inFlight>>

-----------------------------------------------------------------------------
(* The chains.                                                             *)

Land == inFlight' \in SUBSET inFlight /\ UNCHANGED <<sendFinal, outcome>>

\* Transactions land without an effect on the packet, ...
LandWithoutEffect == Land /\ UNCHANGED <<packet, receipt, receiptFinal>>

\* ... or one, of this relayer or of another, delivers it, its acknowledgement or its
\* timeout.
Receive(a) ==
    /\ packet = "committed" /\ receipt = "NONE"
    /\ receipt' = a /\ receiptFinal' \in BOOLEAN
    /\ Land /\ UNCHANGED packet

Resolve(how) ==
    /\ packet = "committed" /\ (how = "acked" <=> receipt # "NONE")
    /\ packet' = how
    /\ Land /\ UNCHANGED <<receipt, receiptFinal>>

BecomeFinal ==
    /\ \/ sendFinal' = TRUE /\ UNCHANGED receiptFinal
       \/ receipt # "NONE" /\ receiptFinal' = TRUE /\ UNCHANGED sendFinal
    /\ UNCHANGED <<packet, receipt, inFlight, outcome>>

Next ==
    \/ \E k \in Kind : Submit(k)
    \/ \E s \in Outcome : Finish(s)
    \/ Reopen
    \/ LandWithoutEffect \/ BecomeFinal
    \/ \E a \in Acknowledgement : Receive(a)
    \/ \E how \in {"acked", "timedOut"} : Resolve(how)

Spec == Init /\ [][Next]_vars
=============================================================================
