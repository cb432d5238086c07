-------------------------- MODULE TransferPipeline --------------------------
(***************************************************************************)
(* The life of one transfer in the relayer: its row in the database, the   *)
(* snapshot of that row the dispatcher holds between its query and its     *)
(* submission, and the copy that travels through the processing pipeline   *)
(* of relayer/ibcv2, one action per processor.                             *)
(*                                                                         *)
(* A processor is wrapped in the middleware of processor_mw.go: it is      *)
(* skipped when its ShouldProcess says no, it first writes its state to    *)
(* the row, and an error it returns marks the transfer as errored.  Every  *)
(* later stage lets an errored transfer through untouched, so here it is   *)
(* at the pipeline's output at once.  The state update, a query and the    *)
(* database write of its result are one step: what the chains say about a  *)
(* packet is never taken back, so their steps can be moved out of it.      *)
(* Submitting a transaction and recording it are two steps, and the        *)
(* process may stop between any two.                                       *)
(***************************************************************************)
EXTENDS BridgeClients

CONSTANTS
    RelaySuccessAcks,   \* ShouldRelaySuccessAcks of the source chain
    RelayErrorAcks,     \* ShouldRelayErrorAcks of the source chain
    SourceGas,          \* gas costs are tracked: prices and the source's gas token are configured
    DestGas,            \* ... and the destination's gas token
    SharedLookups       \* Relay requests, which may be given up, name the relayer's transactions

ASSUME PipelineAssumption ==
    /\ RelaySuccessAcks \in BOOLEAN
    /\ RelayErrorAcks \in BOOLEAN
    /\ SourceGas \in BOOLEAN
    /\ DestGas \in BOOLEAN
    /\ SharedLookups \in BOOLEAN

VARIABLES
    row,        \* the row of table ibcv2_transfers
    polled,     \* the dispatcher holds a snapshot it has not submitted yet
    snap,       \* that snapshot
    pc,         \* the stage the pipeline's copy is at, "idle" if PipelineDeduper knows none
    mem,        \* the pipeline's copy (IBCV2Transfer)
    phase,      \* in a batch stage: "enter", "batch" accumulating, "sent" submitted
    sent,       \* the transaction submitted and not recorded yet
    submissions \* transactions in table ibcv2_relayer_tx_submissions

relayVars == <<row, polled, snap, pc, mem, phase, sent, submissions>>
vars == <<relayVars, chainVars>>

-----------------------------------------------------------------------------
(* The pipeline.                                                           *)

\* NewPipeline: the stages in order.  A gas stage exists only if it is configured.
After(st) ==
    CASE st = "CheckRecvPacketDelivery"  -> "CheckPacketCommitment"
      [] st = "CheckPacketCommitment"    -> "CheckSendFinality"
      [] st = "CheckSendFinality"        -> "CheckTimeoutFinality"
      [] st = "CheckTimeoutFinality"     -> "BatchTimeout"
      [] st = "BatchTimeout"             -> "RetryTimeout"
      [] st = "RetryTimeout"             -> IF SourceGas THEN "TimeoutTxGas" ELSE "BatchRecv"
      [] st = "TimeoutTxGas"             -> "BatchRecv"
      [] st = "BatchRecv"                -> "RetryRecv"
      [] st = "RetryRecv"                -> IF DestGas THEN "RecvTxGas" ELSE "WaitForWriteAck"
      [] st = "RecvTxGas"                -> "WaitForWriteAck"
      [] st = "WaitForWriteAck"          -> "CheckWriteAckFinality"
      [] st = "CheckWriteAckFinality"    -> "CheckPacketCommitment2"
      [] st = "CheckPacketCommitment2"   -> "BatchAck"
      [] st = "BatchAck"                 -> "RetryAck"
      [] st = "RetryAck"                 -> IF SourceGas THEN "AckTxGas" ELSE "StateFinisher"
      [] st = "AckTxGas"                 -> "StateFinisher"
      [] st = "StateFinisher"            -> "Output"

BatchStage == {"BatchTimeout", "BatchRecv", "BatchAck"}
MWStage ==
    BatchStage \cup
    {"CheckRecvPacketDelivery", "CheckPacketCommitment", "CheckSendFinality",
     "CheckTimeoutFinality", "RetryTimeout", "TimeoutTxGas", "RetryRecv", "RecvTxGas",
     "WaitForWriteAck", "CheckWriteAckFinality", "CheckPacketCommitment2", "RetryAck",
     "AckTxGas"}
Stage == MWStage \cup {"StateFinisher", "Output", "dropped", "idle"}
\* Those that look a transaction up through txOnce.
LookupStage ==
    {"RetryTimeout", "TimeoutTxGas", "RetryRecv", "RecvTxGas", "WaitForWriteAck", "RetryAck",
     "AckTxGas"}

\* The statuses GetUnfinishedIBCV2Transfers leaves out.
Finished == {"COMPLETE_WITH_ACK", "COMPLETE_WITH_TIMEOUT", "FAILED",
             "COMPLETE_WITH_WRITE_ACK_SUCCESS", "COMPLETE_WITH_WRITE_ACK_ERROR"}

\* State() of every processor, and PENDING: nothing tells these statuses apart.
InProgress == "IN_PROGRESS"
RowStatus == Finished \cup {InProgress}

\* The columns the pipeline decides on.  A hash and its time are set and cleared
\* together; a gas cost is represented by the transaction it is the cost of.
Row == [status : RowStatus,
        recv : TxRef, writeAck : TxRef, ack : TxRef, timeout : TxRef,
        writeAckStatus : {"NONE", "SUCCESS", "ERROR", "UNKNOWN"},
        sendFinalized : BOOLEAN, writeAckFinalized : BOOLEAN,
        recvGas : TxRef, ackGas : TxRef, timeoutGas : TxRef]

\* A row as InsertIBCV2Transfer leaves it.
NewRow == [status |-> InProgress,
           recv |-> NoTx, writeAck |-> NoTx, ack |-> NoTx, timeout |-> NoTx,
           writeAckStatus |-> "NONE",
           sendFinalized |-> FALSE, writeAckFinalized |-> FALSE,
           recvGas |-> NoTx, ackGas |-> NoTx, timeoutGas |-> NoTx]

\* The acknowledgements the source chain is configured to have relayed to it.
ShouldRelayAck(status) ==
    \/ status \in {"ERROR", "UNKNOWN"} /\ RelayErrorAcks
    \/ status = "SUCCESS" /\ RelaySuccessAcks

\* IsTimedOut reads the relayer's clock at the moment of the call.
IsTimedOut == localPast

\* IsComplete of a transfer that has no ProcessingError.
IsComplete(t) ==
    \/ t.timeout # NoTx
    \/ /\ t.recv # NoTx /\ t.writeAck # NoTx
       /\ \/ t.ack # NoTx
          \/ t.writeAckStatus # "NONE" /\ ~ShouldRelayAck(t.writeAckStatus)

-----------------------------------------------------------------------------
(* ShouldProcess of each processor.                                        *)

\* Mutant: a packet past its timeout is not looked for on the destination.
CheckRecvPacketDeliveryUntilTimeout(t) ==
    t.recv = NoTx /\ t.ack = NoTx /\ t.timeout = NoTx /\ ~IsTimedOut
CheckRecvPacketDeliveryShouldProcess(t) ==
    t.recv = NoTx /\ t.ack = NoTx /\ t.timeout = NoTx
CheckPacketCommitmentShouldProcess(t) == t.ack = NoTx /\ t.timeout = NoTx
\* Mutant: finality only matters to a packet that will be delivered.
CheckSendFinalityUntilTimeout(t) == t.recv = NoTx /\ ~IsTimedOut
CheckSendFinalityShouldProcess(t) == t.recv = NoTx
CheckTimeoutFinalityShouldProcess(t) ==
    IsTimedOut /\ t.recv = NoTx /\ t.ack = NoTx /\ t.timeout = NoTx
TimeoutPacketShouldProcess(t) ==
    IsTimedOut /\ t.recv = NoTx /\ t.ack = NoTx /\ t.timeout = NoTx
RetryTimeoutPacketShouldProcess(t) == t.timeout # NoTx
TimeoutTxGasShouldProcess(t) == t.timeoutGas = NoTx /\ t.timeout # NoTx
BatchRecvPacketShouldProcess(t) == t.recv = NoTx /\ ~IsTimedOut
RetryRecvPacketShouldProcess(t) == t.recv # NoTx /\ t.writeAck = NoTx
RecvTxGasShouldProcess(t) == t.recvGas = NoTx /\ t.recv # NoTx
WaitForWriteAckShouldProcess(t) ==
    t.recv # NoTx /\ t.writeAck = NoTx /\ t.timeout = NoTx
CheckWriteAckFinalityShouldProcess(t) ==
    t.writeAck # NoTx /\ ShouldRelayAck(t.writeAckStatus)
\* Mutant: acknowledgements are relayed whatever the source chain is configured to get.
BatchEveryAckPacket(t) == t.writeAck # NoTx /\ t.ack = NoTx /\ t.timeout = NoTx
BatchAckPacketShouldProcess(t) ==
    /\ t.writeAck # NoTx /\ ShouldRelayAck(t.writeAckStatus)
    /\ t.ack = NoTx /\ t.timeout = NoTx
RetryAckPacketShouldProcess(t) == t.ack # NoTx
AckTxGasShouldProcess(t) == t.ackGas = NoTx /\ t.ack # NoTx

ShouldProcess(st, t) ==
    \/ st = "CheckRecvPacketDelivery" /\ CheckRecvPacketDeliveryShouldProcess(t)
    \/ /\ st \in {"CheckPacketCommitment", "CheckPacketCommitment2"}
       /\ CheckPacketCommitmentShouldProcess(t)
    \/ st = "CheckSendFinality" /\ CheckSendFinalityShouldProcess(t)
    \/ st = "CheckTimeoutFinality" /\ CheckTimeoutFinalityShouldProcess(t)
    \/ st = "BatchTimeout" /\ TimeoutPacketShouldProcess(t)
    \/ st = "RetryTimeout" /\ RetryTimeoutPacketShouldProcess(t)
    \/ st = "TimeoutTxGas" /\ TimeoutTxGasShouldProcess(t)
    \/ st = "BatchRecv" /\ BatchRecvPacketShouldProcess(t)
    \/ st = "RetryRecv" /\ RetryRecvPacketShouldProcess(t)
    \/ st = "RecvTxGas" /\ RecvTxGasShouldProcess(t)
    \/ st = "WaitForWriteAck" /\ WaitForWriteAckShouldProcess(t)
    \/ st = "CheckWriteAckFinality" /\ CheckWriteAckFinalityShouldProcess(t)
    \/ st = "BatchAck" /\ BatchAckPacketShouldProcess(t)
    \/ st = "RetryAck" /\ RetryAckPacketShouldProcess(t)
    \/ st = "AckTxGas" /\ AckTxGasShouldProcess(t)

-----------------------------------------------------------------------------
(* The dispatcher and the deduplicating front of the pipeline.             *)

\* Mutant: the query does not know one of the final statuses.
GetUnacknowledgedTransfers ==
    /\ ~polled /\ row.status \notin Finished \ {"COMPLETE_WITH_WRITE_ACK_SUCCESS"}
    /\ polled' = TRUE /\ snap' = row
    /\ UNCHANGED <<row, pc, mem, phase, sent, submissions, chainVars>>
\* SubmitWaitingUnfinishedTransfers, first half: the query for unfinished rows.
GetUnfinishedTransfers ==
    /\ ~polled /\ row.status \notin Finished
    /\ polled' = TRUE /\ snap' = row
    /\ UNCHANGED <<row, pc, mem, phase, sent, submissions, chainVars>>

\* ... second half: SubmitTransfer pushes the snapshot, which PipelineDeduper drops if
\* a copy of the transfer is in the pipeline.
SubmitTransfer ==
    /\ polled /\ polled' = FALSE /\ snap' = NewRow
    /\ IF pc = "idle"
       THEN pc' = "CheckRecvPacketDelivery" /\ mem' = snap
       ELSE UNCHANGED <<pc, mem>>
    /\ UNCHANGED <<row, phase, sent, submissions, chainVars>>

\* PipelineDeduper's goroutine takes the transfer off the output and forgets its key.
DrainOutput ==
    /\ pc = "Output"
    /\ pc' = "idle" /\ mem' = NewRow
    /\ UNCHANGED <<row, polled, snap, phase, sent, submissions, chainVars>>

\* The process stops, at any moment, and is started again: all that is left is the
\* database.
Restart ==
    /\ polled \/ pc # "idle"
    /\ polled' = FALSE /\ snap' = NewRow
    /\ pc' = "idle" /\ mem' = NewRow /\ phase' = "enter" /\ sent' = NoTx
    /\ UNCHANGED <<row, submissions, chainVars>>

-----------------------------------------------------------------------------
(* The middleware of processor_mw.go around a processor.                   *)

Skipped(st) == mem.status = "FAILED" \/ ~ShouldProcess(st, mem)

\* The transfer passes a stage unprocessed.
Skip ==
    /\ pc \in MWStage /\ phase = "enter" /\ Skipped(pc)
    /\ pc' = After(pc)
    /\ UNCHANGED <<row, polled, snap, mem, phase, sent, submissions, chainVars>>

Runs(st) == pc = st /\ phase = "enter" /\ ~Skipped(st)

\* Mutant: the update does not touch a row that is finished.
InStateUnlessFinished(t) == IF t.status \in Finished THEN t ELSE [t EXCEPT !.status = InProgress]

\* UpdateTransferState and the copy's State, before the processor is called.
InState(t) == [t EXCEPT !.status = InProgress]

\* The transfer moves on to the next stage, ...
MoveOn ==
    /\ pc' = After(pc) /\ phase' = "enter" /\ sent' = NoTx
    /\ UNCHANGED <<polled, snap>>

\* ... or gets a ProcessingError.
Fail ==
    /\ pc' = "Output" /\ mem' = NewRow /\ phase' = "enter" /\ sent' = NoTx
    /\ UNCHANGED <<polled, snap>>

\* The lookup ran under the context of a Relay request for the same transaction, which was
\* cancelled: the middleware returns context.Canceled, and the worker drops the transfer
\* without telling PipelineDeduper, which goes on taking it for one in the pipeline.
LookupCancelled ==
    /\ SharedLookups /\ pc \in LookupStage /\ Runs(pc)
    /\ row' = InState(row)
    /\ pc' = "dropped" /\ mem' = NewRow /\ phase' = "enter" /\ sent' = NoTx
    /\ UNCHANGED <<polled, snap, submissions, chainVars>>

\* The state update fails, or the processor fails: an RPC or database error, a
\* transaction not found yet, a send, timeout or acknowledgement not final yet.
ProcessError ==
    /\ pc \in MWStage \ BatchStage /\ Runs(pc)
    /\ row' = row \/ row' = InState(row)
    /\ Fail
    /\ UNCHANGED <<submissions, chainVars>>

-----------------------------------------------------------------------------
(* The processors.                                                         *)

CheckRecvPacketDelivery ==
    /\ Runs("CheckRecvPacketDelivery")
    /\ IF IsPacketReceived
       THEN /\ row' = [InState(row) EXCEPT !.recv = FindRecvTx]
            /\ mem' = [InState(mem) EXCEPT !.recv = FindRecvTx]
       ELSE row' = InState(row) /\ mem' = InState(mem)
    /\ MoveOn
    /\ UNCHANGED <<submissions, chainVars>>

CheckPacketCommitment ==
    /\ Runs("CheckPacketCommitment") \/ Runs("CheckPacketCommitment2")
    /\ \/ /\ IsPacketCommitted
          /\ row' = InState(row) /\ mem' = InState(mem)
       \/ /\ ~IsPacketCommitted /\ FindAckTx # NoTx
          /\ row' = [InState(row) EXCEPT !.ack = FindAckTx]
          /\ mem' = [InState(mem) EXCEPT !.ack = FindAckTx]
       \/ /\ ~IsPacketCommitted /\ FindTimeoutTx # NoTx
          /\ row' = [InState(row) EXCEPT !.timeout = FindTimeoutTx]
          /\ mem' = [InState(mem) EXCEPT !.timeout = FindTimeoutTx]
    /\ MoveOn
    /\ UNCHANGED <<submissions, chainVars>>

CheckSendFinality ==
    /\ Runs("CheckSendFinality")
    /\ IsTxFinalized(SourceType, sendFinal)
    /\ IF mem.sendFinalized
       THEN row' = InState(row)
       ELSE row' = [InState(row) EXCEPT !.sendFinalized = TRUE]
    /\ mem' = [InState(mem) EXCEPT !.sendFinalized = TRUE]
    /\ MoveOn
    /\ UNCHANGED <<submissions, chainVars>>

CheckTimeoutFinality ==
    /\ Runs("CheckTimeoutFinality")
    /\ IsTimestampFinalized
    /\ row' = InState(row) /\ mem' = InState(mem)
    /\ MoveOn
    /\ UNCHANGED <<submissions, chainVars>>

\* The retry processors: a submitted transaction is left alone, or its hash is cleared
\* in the row and the transfer is marked as errored, to be picked up again without it.
RetryTimeoutPacket ==
    /\ Runs("RetryTimeout")
    /\ IF ShouldRetryTx(SourceType, mem.timeout)
       THEN row' = [InState(row) EXCEPT !.timeout = NoTx] /\ Fail
       ELSE row' = InState(row) /\ mem' = InState(mem) /\ MoveOn
    /\ UNCHANGED <<submissions, chainVars>>

RetryRecvPacket ==
    /\ Runs("RetryRecv")
    /\ IF ShouldRetryTx(DestType, mem.recv)
       THEN row' = [InState(row) EXCEPT !.recv = NoTx] /\ Fail
       ELSE row' = InState(row) /\ mem' = InState(mem) /\ MoveOn
    /\ UNCHANGED <<submissions, chainVars>>

RetryAckPacket ==
    /\ Runs("RetryAck")
    /\ IF ShouldRetryTx(SourceType, mem.ack)
       THEN row' = [InState(row) EXCEPT !.ack = NoTx] /\ Fail
       ELSE row' = InState(row) /\ mem' = InState(mem) /\ MoveOn
    /\ UNCHANGED <<submissions, chainVars>>

\* The gas calculators write the cost to the row and not to the copy.
TimeoutTxGas ==
    /\ Runs("TimeoutTxGas") /\ TxFeeKnown(SourceType, mem.timeout)
    /\ row' = [InState(row) EXCEPT !.timeoutGas = mem.timeout]
    /\ mem' = InState(mem) /\ MoveOn
    /\ UNCHANGED <<submissions, chainVars>>

RecvTxGas ==
    /\ Runs("RecvTxGas") /\ TxFeeKnown(DestType, mem.recv)
    /\ row' = [InState(row) EXCEPT !.recvGas = mem.recv]
    /\ mem' = InState(mem) /\ MoveOn
    /\ UNCHANGED <<submissions, chainVars>>

AckTxGas ==
    /\ Runs("AckTxGas") /\ TxFeeKnown(SourceType, mem.ack)
    /\ row' = [InState(row) EXCEPT !.ackGas = mem.ack]
    /\ mem' = InState(mem) /\ MoveOn
    /\ UNCHANGED <<submissions, chainVars>>

\* Mutant: a recv transaction without a write acknowledgement is not forgotten.
WaitForWriteAckKeepingRecv ==
    /\ Runs("WaitForWriteAck") /\ InBlock(mem.recv)
    /\ LET status == PacketWriteAckStatus(mem.recv) IN
       IF status = "NONE"
       THEN row' = InState(row) /\ mem' = InState(mem) /\ MoveOn
       ELSE /\ row' = [InState(row) EXCEPT !.writeAck = mem.recv, !.writeAckStatus = status]
            /\ mem' = [InState(mem) EXCEPT !.writeAck = mem.recv, !.writeAckStatus = status]
            /\ MoveOn
    /\ UNCHANGED <<submissions, chainVars>>

\* The write acknowledgement is looked for in the recv transaction.  If that is in a
\* block without one, the recv hash is cleared and the transfer errors.
WaitForWriteAck ==
    /\ Runs("WaitForWriteAck") /\ InBlock(mem.recv)
    /\ LET status == PacketWriteAckStatus(mem.recv) IN
       IF status = "NONE"
       THEN row' = [InState(row) EXCEPT !.recv = NoTx] /\ Fail
       ELSE /\ row' = [InState(row) EXCEPT !.writeAck = mem.recv, !.writeAckStatus = status]
            /\ mem' = [InState(mem) EXCEPT !.writeAck = mem.recv, !.writeAckStatus = status]
            /\ MoveOn
    /\ UNCHANGED <<submissions, chainVars>>

\* The update of the finalized time names no row, so it changes none.
CheckWriteAckFinality ==
    /\ Runs("CheckWriteAckFinality")
    /\ IsTxFinalized(DestType, recvFinal)
    /\ row' = InState(row)
    /\ mem' = [InState(mem) EXCEPT !.writeAckFinalized = TRUE]
    /\ MoveOn
    /\ UNCHANGED <<submissions, chainVars>>

-----------------------------------------------------------------------------
(* The batch processors, seen by one transfer of the batch.                *)

\* The splitter of ConditionallyBatch puts the transfer into the accumulating batch.
EnterBatch ==
    /\ pc \in BatchStage /\ Runs(pc)
    /\ phase' = "batch"
    /\ UNCHANGED <<row, polled, snap, pc, mem, sent, submissions, chainVars>>

BatchKind(st) ==
    CASE st = "BatchTimeout" -> "timeout" [] st = "BatchRecv" -> "recv" [] st = "BatchAck" -> "ack"

\* The batch is full or its time is up.  The middleware asks ShouldProcess again, and a
\* transfer that need not be processed any more is passed on.
LeaveBatch ==
    /\ phase = "batch" /\ ~ShouldProcess(pc, mem)
    /\ MoveOn
    /\ UNCHANGED <<row, mem, submissions, chainVars>>

\* RelayByTx and DeliverTx.
Deliver(st) ==
    /\ pc = st /\ phase = "batch" /\ ShouldProcess(st, mem)
    /\ row' = InState(row) /\ mem' = InState(mem)
    /\ Broadcast(BatchKind(st))
    /\ phase' = "sent" /\ sent' = nTx + 1
    /\ UNCHANGED <<polled, snap, pc, submissions, packetVars, clockVars>>

TimeoutPacket == Deliver("BatchTimeout")
BatchRecvPacket == Deliver("BatchRecv")
BatchAckPacket == Deliver("BatchAck")
DeliverTx == TimeoutPacket \/ BatchRecvPacket \/ BatchAckPacket

\* The state update, the proof API, the wait for the chain or DeliverTx fails, the last
\* possibly after the transaction reached the chain.
DeliverTxError ==
    /\ phase = "batch" /\ ShouldProcess(pc, mem)
    /\ \/ (row' = row \/ row' = InState(row)) /\ UNCHANGED chainVars
       \/ /\ row' = InState(row)
          /\ Broadcast(BatchKind(pc)) /\ UNCHANGED <<packetVars, clockVars>>
    /\ Fail
    /\ UNCHANGED submissions

\* The hash each processor stores.
WithTimeoutTx(t) == [t EXCEPT !.timeout = sent]
WithRecvTx(t) == [t EXCEPT !.recv = sent]
WithAckTx(t) == [t EXCEPT !.ack = sent]
WithTx(t) ==
    CASE pc = "BatchTimeout" -> WithTimeoutTx(t)
      [] pc = "BatchRecv"    -> WithRecvTx(t)
      [] pc = "BatchAck"     -> WithAckTx(t)

\* ExecTx: the hash, the submission and their mapping are stored in one database
\* transaction, ...
RecordTx ==
    /\ phase = "sent"
    /\ row' = WithTx(row) /\ mem' = WithTx(mem)
    /\ submissions' = submissions \cup {sent}
    /\ MoveOn
    /\ UNCHANGED chainVars

\* Mutant: without the database transaction the hash is stored and the submission lost.
RecordTxHalf ==
    /\ phase = "sent"
    /\ row' = WithTx(row)
    /\ Fail
    /\ UNCHANGED <<submissions, chainVars>>

\* ... or not at all.
RecordTxError ==
    /\ phase = "sent"
    /\ Fail
    /\ UNCHANGED <<row, submissions, chainVars>>

-----------------------------------------------------------------------------
(* The last stage.                                                         *)

\* Mutant: without an ack, the status is taken from the write acknowledgement's presence.
FinalStatusWithoutCheck(t) ==
    CASE t.timeout # NoTx -> "COMPLETE_WITH_TIMEOUT"
      [] t.timeout = NoTx /\ t.ack # NoTx -> "COMPLETE_WITH_ACK"
      [] OTHER -> "COMPLETE_WITH_WRITE_ACK_SUCCESS"

FinalStatus(t) ==
    CASE t.timeout # NoTx -> "COMPLETE_WITH_TIMEOUT"
      [] t.timeout = NoTx /\ t.ack # NoTx -> "COMPLETE_WITH_ACK"
      [] t.timeout = NoTx /\ t.ack = NoTx /\ t.writeAckStatus = "SUCCESS"
            -> "COMPLETE_WITH_WRITE_ACK_SUCCESS"
      [] OTHER -> "COMPLETE_WITH_WRITE_ACK_ERROR"

Finishes == pc = "StateFinisher" /\ IsComplete(mem)

StateFinisher ==
    /\ Finishes
    /\ row' = [row EXCEPT !.status = FinalStatus(mem)]
    /\ mem' = [mem EXCEPT !.status = FinalStatus(mem)]
    /\ MoveOn
    /\ UNCHANGED <<submissions, chainVars>>

StateFinisherError ==
    /\ Finishes
    /\ Fail
    /\ UNCHANGED <<row, submissions, chainVars>>

\* An incomplete transfer is let through; it will be picked up again.
StateFinisherSkip ==
    /\ pc = "StateFinisher" /\ ~Finishes
    /\ MoveOn
    /\ UNCHANGED <<row, mem, submissions, chainVars>>

-----------------------------------------------------------------------------
Init ==
    /\ row = NewRow
    /\ polled = FALSE /\ snap = NewRow
    /\ pc = "idle" /\ mem = NewRow /\ phase = "enter" /\ sent = NoTx
    /\ submissions = {}
    /\ ChainInit

Processor ==
    \/ CheckRecvPacketDelivery \/ CheckPacketCommitment \/ CheckSendFinality
    \/ CheckTimeoutFinality \/ RetryTimeoutPacket \/ RetryRecvPacket \/ RetryAckPacket
    \/ TimeoutTxGas \/ RecvTxGas \/ AckTxGas
    \/ WaitForWriteAck \/ CheckWriteAckFinality

Batch ==
    EnterBatch \/ LeaveBatch \/ DeliverTx \/ DeliverTxError \/ RecordTx \/ RecordTxError

Relayer ==
    \/ GetUnfinishedTransfers \/ SubmitTransfer \/ DrainOutput \/ Restart
    \/ Skip \/ ProcessError \/ LookupCancelled \/ Processor \/ Batch
    \/ StateFinisher \/ StateFinisherError \/ StateFinisherSkip

Next == Relayer \/ (ChainNext /\ UNCHANGED relayVars)

Spec == Init /\ [][Next]_vars

TypeOK ==
    /\ ChainTypeOK
    /\ row \in Row
    /\ polled \in BOOLEAN /\ snap \in Row
    /\ pc \in Stage /\ mem \in Row
    /\ phase \in {"enter", "batch", "sent"} /\ sent \in TxRef
    /\ submissions \subseteq TxId

-----------------------------------------------------------------------------
(* Properties.                                                             *)

\* A status StateFinisher writes is backed by the chains, whatever was retried, lost,
\* cleared, relayed by others or written from a stale copy before: COMPLETE_WITH_ACK means
\* the source acknowledged the packet, COMPLETE_WITH_TIMEOUT that its commitment is gone
\* for good, and a completion without an ack that the packet was received and that its
\* acknowledgement is one the source chain does not want relayed.
CompletionIsReal ==
    /\ row.status = "COMPLETE_WITH_ACK" => srcPacket = "acked"
    /\ row.status = "COMPLETE_WITH_TIMEOUT" => srcPacket # "committed"
    /\ row.status = "COMPLETE_WITH_WRITE_ACK_SUCCESS"
         => recvBy # NoTx /\ writeAck # "ERROR" /\ ~RelaySuccessAcks
    /\ row.status = "COMPLETE_WITH_WRITE_ACK_ERROR"
         => recvBy # NoTx /\ writeAck # "SUCCESS" /\ ~RelayErrorAcks

\* A write acknowledgement that WaitForWriteAck recorded, in the row or in any copy of it,
\* is the one the destination wrote when it received the packet, also after the recv hash
\* it came from was cleared or replaced.
WriteAckIsReal ==
    \A t \in {row, snap, mem} :
        t.writeAck # NoTx =>
            t.writeAck = recvBy /\ t.writeAckStatus = PacketWriteAckStatus(recvBy)

\* A hash in the row is that of a transaction with an effect on the packet, found by a
\* chain search, or of one of the relayer's own whose submission ExecTx stored with it: a
\* row never points to a transaction the cost tracker does not know.
RecordedTxIsKnown ==
    \A tx \in {row.recv, row.ack, row.timeout} \ {NoTx} :
        txStatus[tx] = "effect" \/ tx \in submissions

\* The relayer hands a transaction of kind k to the chain.
Submits(k) == nTx' = nTx + 1 /\ txKind'[nTx'] = k /\ txStatus'[nTx'] = "pending"

\* CheckSendFinality guards both ways on: neither a recv nor a timeout is submitted for a
\* packet whose send is not final on the source, even from a stale copy.
SubmitAfterSendFinality ==
    [][Submits("recv") \/ Submits("timeout") => sendFinal]_vars

\* An ack is only submitted for a packet that was received in a final transaction, and
\* only if its acknowledgement is of a kind the source chain is configured to get.
AckSubmittedWhenDue ==
    [][Submits("ack") => recvBy # NoTx /\ recvFinal
                         /\ ShouldRelayAck(PacketWriteAckStatus(recvBy))]_vars

\* Once the row has a write acknowledgement no timeout is submitted for it, even from a
\* copy taken before: CheckRecvPacketDelivery finds the receipt first.
NoTimeoutAfterWriteAck ==
    [][Submits("timeout") => row.writeAck = NoTx]_vars

\* The row keeps the write acknowledgement it has: no copy taken before it was recorded, no retry
\* and no other recv transaction puts another one in its place or takes it away.
WriteAckStays ==
    [][row.writeAck # NoTx =>
         row'.writeAck = row.writeAck /\ row'.writeAckStatus = row.writeAckStatus]_vars

-----------------------------------------------------------------------------
(* Liveness.                                                               *)

Fault ==
    \/ Restart \/ ProcessError \/ LookupCancelled
    \/ DeliverTxError \/ RecordTxError \/ StateFinisherError

DispatcherStep == GetUnfinishedTransfers \/ SubmitTransfer

PipelineStep ==
    \/ Skip \/ Processor \/ EnterBatch \/ LeaveBatch \/ DeliverTx \/ RecordTx
    \/ StateFinisher \/ StateFinisherSkip \/ DrainOutput

ChainStep ==
    /\ \/ \E i \in TxId : LandEffect(i) \/ LandNoop(i) \/ LandFailed(i) \/ CacheExpires(i)
       \/ SendBecomesFinal \/ RecvBecomesFinal
       \/ LocalClockPasses \/ DestClockPasses \/ DestClockPassesFinal
    /\ UNCHANGED relayVars

\* From some time on nothing fails any more; the goroutines of the relayer run, and the
\* chains go on: transactions land, blocks become final and time passes.
Fairness ==
    /\ <>[][~Fault]_vars
    /\ WF_vars(DispatcherStep) /\ WF_vars(PipelineStep) /\ WF_vars(ChainStep)

FairSpec == Spec /\ Fairness

\* The bound on transactions keeps the relayer from submitting one more.
OutOfTxs == phase = "batch" /\ nTx = MaxTx

\* The packet does not stay where it is: in the end its commitment on the source is gone,
\* or the transfer is finished without an ack, unless transactions keep failing.  (With
\* SharedLookups a transfer may be dropped and stays where it is until the next restart.)
PacketResolved ==
    <>(srcPacket # "committed" \/ row.status \in Finished) \/ []<>OutOfTxs

\* service.proto: "Relay will track the status of a transfer, and submit the
\* transactions required to complete the transfer".
EventuallyFinished == <>(row.status \in Finished) \/ []<>OutOfTxs
=============================================================================
