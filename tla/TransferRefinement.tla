------------------------- MODULE TransferRefinement -------------------------
(***************************************************************************)
(* The pipeline of TransferPipeline, with its chains, implements the       *)
(* promise of TransferLifecycle, and the part of TransferCustody that is   *)
(* the pipeline's.                                                         *)
(***************************************************************************)
EXTENDS TransferPipeline

\* What the destination's client makes of an acknowledgement in PacketWriteAckStatus.
AckStatus(a) ==
    IF DestType = "COSMOS"
    THEN IF a = "OPAQUE" THEN "UNKNOWN" ELSE a
    ELSE IF a = "ERROR" THEN "ERROR" ELSE "SUCCESS"

WantedAcks == {a \in Ack : ShouldRelayAck(AckStatus(a))}

\* Only the relayer's own transactions are ever pending.
Pending == {i \in TxId : txStatus[i] = "pending"}
InFlight == {txKind[i] : i \in Pending}

\* What the row says to a client.
Reported == IF row.status \in Finished THEN row.status ELSE "OPEN"

\* The refinement mapping: the row is its final status, and the copies, the stages and the
\* identity of the transactions are hidden.
Lifecycle == INSTANCE TransferLifecycle WITH
    Acknowledgement <- Ack,
    Wanted          <- WantedAcks,
    packet          <- srcPacket,
    receipt         <- writeAck,
    receiptFinal    <- recvFinal,
    inFlight        <- InFlight,
    outcome         <- Reported

\* The relayer keeps the promise of TransferLifecycle through every retry, crash, lost
\* answer and stale copy: it submits a recv or a timeout only for a final send, an ack only
\* for a final receipt whose acknowledgement the source is to get, nothing for a transfer
\* it goes on reporting as finished, and StateFinisher reports an outcome only when the
\* chains bear it out, and never over another one.
ImplementsLifecycle == Lifecycle!Spec

-----------------------------------------------------------------------------
\* The one transfer, in the terms of TransferCustody.
Transfer == "transfer"
If(b) == IF b THEN {Transfer} ELSE {}
Custody == INSTANCE TransferCustody WITH
    Keys   <- {Transfer},
    open   <- If(row.status \notin Finished),
    polled <- If(polled),
    inside <- If(pc # "idle")

\* The pipeline asks nothing of the dispatcher but TransferCustody, which RelayDispatcher
\* implements with its goroutines and channels: its rows are read, handed over, written and let
\* go of as agreed there, and it writes the row only while it has the transfer.
ImplementsCustody == Custody!Spec
=============================================================================
