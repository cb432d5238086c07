---------------------------- MODULE BridgeClients ---------------------------
(***************************************************************************)
(* The queries of the two bridge clients (shared/bridges/ibcv2), as the    *)
(* answers they can give about the packet in a state of its chains.  Every *)
(* query may fail as well: an RPC error is a step of the pipeline, not an  *)
(* answer.  Where the COSMOS and the EVM client differ, each has its own   *)
(* operator and the operator with the interface's name picks one.          *)
(***************************************************************************)
EXTENDS PacketChains

\* IsPacketReceived: is there a packet receipt on the destination?
CosmosIsPacketReceived == recvBy # NoTx
EVMIsPacketReceived == recvBy # NoTx
IsPacketReceived ==
    IF DestType = "COSMOS" THEN CosmosIsPacketReceived ELSE EVMIsPacketReceived

\* IsPacketCommitted: is the packet commitment still on the source?
CosmosIsPacketCommitted == srcPacket = "committed"
EVMIsPacketCommitted == srcPacket = "committed"
IsPacketCommitted ==
    IF SourceType = "COSMOS" THEN CosmosIsPacketCommitted ELSE EVMIsPacketCommitted

\* The searches for the transaction that received, acknowledged or timed out the
\* packet: by event attributes on COSMOS, by router logs on EVM.  Both only match a
\* transaction that had its effect on this packet.  NoTx stands for ErrTxNotFound.
CosmosFindRecvTx == recvBy
EVMFindRecvTx == recvBy
FindRecvTx == IF DestType = "COSMOS" THEN CosmosFindRecvTx ELSE EVMFindRecvTx

CosmosFindAckTx == IF srcPacket = "acked" THEN resolvedBy ELSE NoTx
EVMFindAckTx == IF srcPacket = "acked" THEN resolvedBy ELSE NoTx
FindAckTx == IF SourceType = "COSMOS" THEN CosmosFindAckTx ELSE EVMFindAckTx

CosmosFindTimeoutTx == IF srcPacket = "timedOut" THEN resolvedBy ELSE NoTx
EVMFindTimeoutTx == IF srcPacket = "timedOut" THEN resolvedBy ELSE NoTx
FindTimeoutTx == IF SourceType = "COSMOS" THEN CosmosFindTimeoutTx ELSE EVMFindTimeoutTx

\* IsTxFinalized: a COSMOS client calls every transaction final; an EVM client compares
\* its block with the finalized one, or with the latest one less an offset.
CosmosIsTxFinalized(final) == TRUE
EVMIsTxFinalized(final) == final
IsTxFinalized(type, final) ==
    IF type = "COSMOS" THEN CosmosIsTxFinalized(final) ELSE EVMIsTxFinalized(final)

\* IsTimestampFinalized: the destination's block time reached the packet timeout, in the
\* latest block (COSMOS) or in a final one (EVM).
CosmosIsTimestampFinalized == destPast
EVMIsTimestampFinalized == destPastFinal
IsTimestampFinalized ==
    IF DestType = "COSMOS" THEN CosmosIsTimestampFinalized ELSE EVMIsTimestampFinalized

\* A lookup by hash finds the transaction in a block.
InBlock(tx) == txStatus[tx] \in {"effect", "noop", "failed"} /\ tx \notin missing

\* ShouldRetryTx: a transaction in a block is to be retried iff it failed.  One that is
\* not found is to be retried once its expiry is past by the chain's clock, which may or
\* may not be now; before that there is no answer but the error ErrTxNotFound.
CosmosShouldRetryTx(tx) == ~InBlock(tx) \/ txStatus[tx] = "failed"
EVMShouldRetryTx(tx) == ~InBlock(tx) \/ txStatus[tx] = "failed"
ShouldRetryTx(type, tx) ==
    IF type = "COSMOS" THEN CosmosShouldRetryTx(tx) ELSE EVMShouldRetryTx(tx)

\* PacketWriteAckStatus: the status of the acknowledgement written in transaction tx.
\* "NONE" stands for ErrWriteAckNotFoundForPacket, tx being in a block without one.  An
\* acknowledgement in no standard format is UNKNOWN to the COSMOS client, which fails
\* to decode it, and SUCCESS to the EVM client, which only knows the error value.
\* Mutant: an acknowledgement is taken for this packet's whatever transaction wrote it.
CosmosPacketWriteAckStatusOfAnyTx(tx) ==
    IF writeAck = "OPAQUE" THEN "UNKNOWN" ELSE writeAck
CosmosPacketWriteAckStatus(tx) ==
    IF tx # recvBy THEN "NONE" ELSE IF writeAck = "OPAQUE" THEN "UNKNOWN" ELSE writeAck
EVMPacketWriteAckStatus(tx) ==
    IF tx # recvBy THEN "NONE" ELSE IF writeAck = "ERROR" THEN "ERROR" ELSE "SUCCESS"
PacketWriteAckStatus(tx) ==
    IF DestType = "COSMOS" THEN CosmosPacketWriteAckStatus(tx) ELSE EVMPacketWriteAckStatus(tx)

\* TxFee is known once the transaction is in a block.
CosmosTxFeeKnown(tx) == InBlock(tx)
EVMTxFeeKnown(tx) == InBlock(tx)
TxFeeKnown(type, tx) ==
    IF type = "COSMOS" THEN CosmosTxFeeKnown(tx) ELSE EVMTxFeeKnown(tx)
=============================================================================
