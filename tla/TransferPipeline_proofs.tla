----------------------- MODULE TransferPipeline_proofs ----------------------
(***************************************************************************)
(* Proofs about module TransferPipeline, for every kind of chain, every    *)
(* configuration and any number of transactions.                           *)
(***************************************************************************)
EXTENDS TransferPipeline, TLAPS

-----------------------------------------------------------------------------
(* The inductive invariant.                                                *)

\* What the chains guarantee about the packet and the transactions that touch it.
ChainInv ==
    /\ \A i \in TxId : txStatus[i] = "unsent" <=> i > nTx
    /\ \A i \in TxId : txStatus[i] \in {"effect", "noop"} /\ txKind[i] # "recv"
                         => srcPacket # "committed"
    /\ \A i \in TxId : txKind[i] = "ack" => recvBy # NoTx
    /\ recvBy # NoTx => txStatus[recvBy] = "effect" /\ writeAck # "NONE"
    /\ srcPacket = "acked" => recvBy # NoTx /\ txKind[resolvedBy] = "ack"
    /\ srcPacket = "timedOut" => recvBy = NoTx /\ destPast /\ txKind[resolvedBy] = "timeout"
    /\ srcPacket # "committed" => resolvedBy # NoTx /\ txStatus[resolvedBy] = "effect"
    /\ SourceType = "COSMOS" => sendFinal
    /\ DestType = "COSMOS" /\ recvBy # NoTx => recvFinal

\* A hash that may be in a row: of a transaction with an effect, or of one of the
\* relayer's own that was stored as a submission.
Known(tx) == txStatus[tx] # "unsent" /\ (txStatus[tx] = "effect" \/ tx \in submissions)

\* What holds of the row and of every copy of it, however old.
Copy(t) ==
    /\ t.status # "FAILED"
    /\ t.writeAck # NoTx =>
         t.writeAck = recvBy /\ t.writeAckStatus = PacketWriteAckStatus(recvBy)
    /\ t.recv # NoTx => Known(t.recv)
    /\ t.ack # NoTx => Known(t.ack) /\ txKind[t.ack] = "ack"
    /\ t.timeout # NoTx => Known(t.timeout) /\ txKind[t.timeout] = "timeout"

\* A transfer is only part of a batch at a batch stage.
PhaseInv ==
    /\ phase # "enter" => pc \in BatchStage
    /\ phase = "sent" => sent \in TxId

\* The transaction between DeliverTx and ExecTx.
SentInv == phase = "sent" => txStatus[sent] # "unsent" /\ txKind[sent] = BatchKind(pc)

\* What a copy that is past a stage has learnt there.
BeforeBatchTimeout ==
    {"CheckPacketCommitment", "CheckSendFinality", "CheckTimeoutFinality", "BatchTimeout"}
AfterSendFinality ==
    {"CheckTimeoutFinality", "BatchTimeout", "RetryTimeout", "TimeoutTxGas", "BatchRecv"}
AfterRetryTimeout ==
    {"TimeoutTxGas", "BatchRecv", "RetryRecv", "RecvTxGas", "WaitForWriteAck",
     "CheckWriteAckFinality", "CheckPacketCommitment2", "BatchAck", "RetryAck", "AckTxGas",
     "StateFinisher"}

PassedInv ==
    /\ pc \in BeforeBatchTimeout /\ mem.recv = NoTx /\ mem.ack = NoTx /\ mem.timeout = NoTx
         => row.writeAck = NoTx
    /\ pc \in AfterSendFinality /\ mem.recv = NoTx => sendFinal
    /\ pc \in AfterRetryTimeout /\ mem.timeout # NoTx => srcPacket # "committed"
    /\ pc \in {"CheckPacketCommitment2", "BatchAck"} /\ CheckWriteAckFinalityShouldProcess(mem)
         => recvFinal
    /\ pc \in {"AckTxGas", "StateFinisher"} /\ mem.ack # NoTx => srcPacket = "acked"

SubmissionsInv == \A tx \in submissions : txStatus[tx] # "unsent"

IInv ==
    /\ TypeOK /\ ChainInv /\ Copy(row) /\ Copy(snap) /\ Copy(mem)
    /\ PhaseInv /\ SentInv /\ PassedInv /\ CompletionIsReal /\ SubmissionsInv

-----------------------------------------------------------------------------
(* The three batch processors deliver alike.                               *)

\* What DeliverTx does, whichever processor it is a step of.
DeliverAny ==
    /\ phase = "batch" /\ ShouldProcess(pc, mem)
    /\ row' = InState(row) /\ mem' = InState(mem)
    /\ Broadcast(BatchKind(pc))
    /\ phase' = "sent" /\ sent' = nTx + 1
    /\ UNCHANGED <<polled, snap, pc, submissions, packetVars, clockVars>>

\* TimeoutPacket, BatchRecvPacket and BatchAckPacket are all this step.
LEMMA DeliverTxAny == DeliverTx => DeliverAny
BY Zenon DEF DeliverTx, TimeoutPacket, BatchRecvPacket, BatchAckPacket, Deliver, DeliverAny

-----------------------------------------------------------------------------
(* Types.                                                                  *)

\* An effect on the packet keeps the types of what it changes.
LEMMA EffectTypes ==
    ASSUME ChainTypeOK, NEW k \in Kind, NEW i \in TxId, Effect(k, i)
    PROVE  /\ srcPacket' \in {"committed", "acked", "timedOut"}
           /\ recvBy' \in TxRef /\ writeAck' \in Ack \cup {"NONE"} /\ resolvedBy' \in TxRef
           /\ recvFinal' \in BOOLEAN
<1>1. i \in TxRef
  BY DEF TxId, TxRef
<1>2. CASE Receive(i)
  BY <1>1, <1>2 DEF ChainTypeOK, Receive
<1>3. CASE Acknowledge(i) \/ TimeOut(i)
  BY <1>1, <1>3 DEF ChainTypeOK, Acknowledge, TimeOut
<1> QED BY <1>2, <1>3 DEF Effect

\* The chains keep their types: whatever lands, becomes final or passes its timeout.
LEMMA ChainTypes ==
    ASSUME ChainTypeOK, ChainNext
    PROVE  ChainTypeOK'
<1>1. ASSUME NEW i \in TxId, LandEffect(i)
      PROVE  ChainTypeOK'
  <2>1. txKind[i] \in Kind /\ Effect(txKind[i], i)
    BY <1>1 DEF ChainTypeOK, LandEffect
  <2>2. missing' \subseteq TxId
    BY <1>1 DEF ChainTypeOK, LandEffect, StaysMissing
  <2> QED BY <1>1, <2>1, <2>2, EffectTypes DEF ChainTypeOK, LandEffect, clockVars, Status
<1>2. ASSUME NEW i \in TxId, LandNoop(i) \/ LandFailed(i)
      PROVE  ChainTypeOK'
  <2>1. missing' \subseteq TxId
    BY <1>2 DEF ChainTypeOK, LandNoop, LandFailed, StaysMissing
  <2> QED BY <1>2, <2>1 DEF ChainTypeOK, LandNoop, LandFailed, packetVars, clockVars, Status
<1>3. ASSUME NEW k \in Kind, OtherRelayer(k)
      PROVE  ChainTypeOK'
  <2>1. nTx + 1 \in TxId /\ nTx' \in TxRef
    BY <1>3, ChainAssumption DEF ChainTypeOK, OtherRelayer, TxId, TxRef
  <2> QED BY <1>3, <2>1, EffectTypes DEF ChainTypeOK, OtherRelayer, clockVars, Status
<1>4. CASE SendBecomesFinal \/ RecvBecomesFinal \/ LocalClockPasses
             \/ DestClockPasses \/ DestClockPassesFinal
  BY <1>4 DEF ChainTypeOK, SendBecomesFinal, RecvBecomesFinal, LocalClockPasses,
       DestClockPasses, DestClockPassesFinal, packetVars, clockVars
<1>5. ASSUME NEW i \in TxId, CacheExpires(i)
      PROVE  ChainTypeOK'
  BY <1>5 DEF ChainTypeOK, CacheExpires, packetVars, clockVars
<1> QED BY <1>1, <1>2, <1>3, <1>4, <1>5 DEF ChainNext

\* Broadcast keeps the types as well.
LEMMA BroadcastTypes ==
    ASSUME ChainTypeOK, NEW k \in Kind, Broadcast(k), UNCHANGED <<packetVars, clockVars>>
    PROVE  ChainTypeOK' /\ nTx + 1 \in TxId
BY ChainAssumption DEF ChainTypeOK, Broadcast, packetVars, clockVars, TxId, TxRef, Kind, Status

\* What follows a stage is a stage.
LEMMA AfterTypes == \A st \in MWStage \cup {"StateFinisher"} : After(st) \in Stage
BY DEF After, MWStage, BatchStage, Stage

\* The bridge clients answer within their types.
LEMMA AnswerTypes ==
    ASSUME ChainTypeOK
    PROVE  /\ FindRecvTx \in TxRef /\ FindAckTx \in TxRef /\ FindTimeoutTx \in TxRef
           /\ \A tx \in TxRef :
                PacketWriteAckStatus(tx) \in {"NONE", "SUCCESS", "ERROR", "UNKNOWN"}
BY ChainAssumption
   DEF ChainTypeOK, FindRecvTx, FindAckTx, FindTimeoutTx, CosmosFindRecvTx, EVMFindRecvTx,
       CosmosFindAckTx, EVMFindAckTx, CosmosFindTimeoutTx, EVMFindTimeoutTx,
       PacketWriteAckStatus, CosmosPacketWriteAckStatus, EVMPacketWriteAckStatus,
       TxRef, NoTx, Ack, ChainType

\* A new row is a row, and a row stays one under a change of its status.
LEMMA RowTypes ==
    /\ NewRow \in Row
    /\ \A t \in Row : InState(t) \in Row
    /\ \A t, u \in Row : [t EXCEPT !.status = FinalStatus(u)] \in Row
<1>1. NewRow \in Row
  BY ChainAssumption DEF NewRow, Row, RowStatus, InProgress, TxRef, NoTx
<1>2. \A t \in Row : InState(t) \in Row
  BY DEF InState, Row, RowStatus, InProgress
<1>3. \A u : FinalStatus(u) \in RowStatus
  BY DEF FinalStatus, RowStatus, Finished
<1>4. \A t, u \in Row : [t EXCEPT !.status = FinalStatus(u)] \in Row
  BY <1>3 DEF Row
<1> QED BY <1>1, <1>2, <1>4

\* The fields of a row have their types.
LEMMA FieldTypes ==
    \A t \in Row : /\ t.recv \in TxRef /\ t.writeAck \in TxRef /\ t.ack \in TxRef
                   /\ t.timeout \in TxRef
                   /\ t.writeAckStatus \in {"NONE", "SUCCESS", "ERROR", "UNKNOWN"}
BY DEF Row

\* No step of the relayer or of the chains leaves the types.
LEMMA TypeStep ==
    ASSUME TypeOK, PhaseInv, [Next]_vars
    PROVE  TypeOK'
<1> USE DEF TypeOK
<1>0. NoTx \in TxRef /\ TxId \subseteq TxRef
  BY ChainAssumption DEF NoTx, TxRef, TxId
<1>1. ASSUME MoveOn, pc \in MWStage \cup {"StateFinisher"}
      PROVE  /\ pc' \in Stage /\ phase' \in {"enter", "batch", "sent"} /\ sent' \in TxRef
             /\ polled' \in BOOLEAN /\ snap' \in Row
  BY <1>0, <1>1, AfterTypes DEF MoveOn
<1>2. ASSUME Fail
      PROVE  /\ pc' \in Stage /\ phase' \in {"enter", "batch", "sent"} /\ sent' \in TxRef
             /\ polled' \in BOOLEAN /\ snap' \in Row /\ mem' \in Row
  BY <1>0, <1>2, RowTypes DEF Fail, Stage
<1>3. ASSUME UNCHANGED chainVars
      PROVE  ChainTypeOK'
  BY <1>3 DEF ChainTypeOK, chainVars
<1>4. CASE GetUnfinishedTransfers
  BY <1>3, <1>4 DEF GetUnfinishedTransfers
<1>5. CASE SubmitTransfer
  BY <1>3, <1>5, RowTypes DEF SubmitTransfer, Stage, MWStage
<1>6. CASE DrainOutput
  BY <1>3, <1>6, RowTypes DEF DrainOutput, Stage
<1>7. CASE Restart
  BY <1>0, <1>3, <1>7, RowTypes DEF Restart, Stage
<1>8. CASE Skip
  BY <1>3, <1>8, AfterTypes DEF Skip
<1>9. CASE ProcessError
  BY <1>2, <1>3, <1>9, RowTypes DEF ProcessError
<1>21. CASE LookupCancelled
  <2>1. InState(row) \in Row /\ NewRow \in Row BY RowTypes
  <2> QED BY <1>0, <1>3, <1>21, <2>1 DEF LookupCancelled, Stage
<1>10. CASE Processor
  <2>0. InState(row) \in Row /\ InState(mem) \in Row
    BY RowTypes
  <2>1. CASE CheckRecvPacketDelivery
    <3>1. row' \in Row /\ mem' \in Row
      BY <2>0, <2>1, AnswerTypes DEF CheckRecvPacketDelivery, Row
    <3> QED BY <1>1, <1>3, <2>1, <3>1 DEF CheckRecvPacketDelivery, Runs, MWStage
  <2>2. CASE CheckPacketCommitment
    <3>1. row' \in Row /\ mem' \in Row
      BY <2>0, <2>2, AnswerTypes DEF CheckPacketCommitment, Row
    <3> QED BY <1>1, <1>3, <2>2, <3>1 DEF CheckPacketCommitment, Runs, MWStage
  <2>3. CASE CheckSendFinality
    <3>1. row' \in Row /\ mem' \in Row
      BY <2>0, <2>3 DEF CheckSendFinality, Row
    <3> QED BY <1>1, <1>3, <2>3, <3>1 DEF CheckSendFinality, Runs, MWStage
  <2>4. CASE CheckTimeoutFinality
    BY <1>1, <1>3, <2>0, <2>4 DEF CheckTimeoutFinality, Runs, MWStage
  <2>5. CASE RetryTimeoutPacket
    <3>1. row' \in Row
      BY <1>0, <2>0, <2>5 DEF RetryTimeoutPacket, Row
    <3> QED BY <1>1, <1>2, <1>3, <2>0, <2>5, <3>1 DEF RetryTimeoutPacket, Runs, MWStage
  <2>6. CASE RetryRecvPacket
    <3>1. row' \in Row
      BY <1>0, <2>0, <2>6 DEF RetryRecvPacket, Row
    <3> QED BY <1>1, <1>2, <1>3, <2>0, <2>6, <3>1 DEF RetryRecvPacket, Runs, MWStage
  <2>7. CASE RetryAckPacket
    <3>1. row' \in Row
      BY <1>0, <2>0, <2>7 DEF RetryAckPacket, Row
    <3> QED BY <1>1, <1>2, <1>3, <2>0, <2>7, <3>1 DEF RetryAckPacket, Runs, MWStage
  <2>8. CASE TimeoutTxGas \/ RecvTxGas \/ AckTxGas
    <3>1. row' \in Row
      BY <2>0, <2>8, FieldTypes DEF TimeoutTxGas, RecvTxGas, AckTxGas, Row
    <3> QED BY <1>1, <1>3, <2>0, <2>8, <3>1
            DEF TimeoutTxGas, RecvTxGas, AckTxGas, Runs, MWStage
  <2>9. CASE WaitForWriteAck
    <3> DEFINE status == PacketWriteAckStatus(mem.recv)
    <3>1. mem.recv \in TxRef /\ status \in {"NONE", "SUCCESS", "ERROR", "UNKNOWN"}
      BY AnswerTypes, FieldTypes
    <3>2. CASE status = "NONE"
      <4>1. row' \in Row
        BY <1>0, <2>0, <2>9, <3>2 DEF WaitForWriteAck, Row
      <4> QED BY <1>2, <1>3, <2>9, <3>2, <4>1 DEF WaitForWriteAck
    <3>3. CASE status # "NONE"
      <4>0. /\ row' = [InState(row) EXCEPT !.writeAck = mem.recv, !.writeAckStatus = status]
            /\ mem' = [InState(mem) EXCEPT !.writeAck = mem.recv, !.writeAckStatus = status]
        BY <2>9, <3>3 DEF WaitForWriteAck
      <4> HIDE DEF status
      <4>1. row' \in Row /\ mem' \in Row
        BY <2>0, <3>1, <4>0 DEF Row
      <4> QED BY <1>1, <1>3, <2>9, <3>3, <4>1 DEF WaitForWriteAck, Runs, MWStage, status
    <3> QED BY <3>2, <3>3
  <2>10. CASE CheckWriteAckFinality
    <3>1. row' \in Row /\ mem' \in Row
      BY <2>0, <2>10 DEF CheckWriteAckFinality, Row
    <3> QED BY <1>1, <1>3, <2>10, <3>1 DEF CheckWriteAckFinality, Runs, MWStage
  <2> QED BY <1>10, <2>1, <2>2, <2>3, <2>4, <2>5, <2>6, <2>7, <2>8, <2>9, <2>10 DEF Processor
<1>11. CASE EnterBatch
  BY <1>3, <1>11 DEF EnterBatch
<1>12. CASE LeaveBatch
  BY <1>1, <1>3, <1>12 DEF LeaveBatch, PhaseInv, MWStage
<1>13. CASE DeliverTx
  <2>1. BatchKind(pc) \in Kind
    BY <1>13, DeliverTxAny DEF DeliverAny, PhaseInv, BatchStage, BatchKind, Kind
  <2>2. ChainTypeOK' /\ nTx + 1 \in TxRef
    BY <1>0, <1>13, <2>1, BroadcastTypes, DeliverTxAny DEF DeliverAny
  <2> QED BY <1>13, <2>2, RowTypes, DeliverTxAny DEF DeliverAny
<1>14. CASE DeliverTxError
  <2>1. BatchKind(pc) \in Kind
    BY <1>14 DEF DeliverTxError, PhaseInv, BatchStage, BatchKind, Kind
  <2>2. ChainTypeOK'
    BY <1>3, <1>14, <2>1, BroadcastTypes DEF DeliverTxError
  <2> QED BY <1>2, <1>14, <2>2, RowTypes DEF DeliverTxError
<1>15. CASE RecordTx
  <2>1. pc \in BatchStage /\ sent \in TxId
    BY <1>15 DEF RecordTx, PhaseInv
  <2>2. row' \in Row /\ mem' \in Row
    BY <1>15, <2>1 DEF RecordTx, WithTx, WithTimeoutTx, WithRecvTx, WithAckTx, BatchStage, Row
  <2> QED BY <1>1, <1>3, <1>15, <2>1, <2>2 DEF RecordTx, MWStage
<1>16. CASE RecordTxError \/ StateFinisherError
  BY <1>2, <1>3, <1>16 DEF RecordTxError, StateFinisherError
<1>17. CASE StateFinisher
  <2>1. row' \in Row /\ mem' \in Row
    BY <1>17, RowTypes DEF StateFinisher
  <2> QED BY <1>1, <1>3, <1>17, <2>1 DEF StateFinisher, Finishes
<1>18. CASE StateFinisherSkip
  BY <1>1, <1>3, <1>18 DEF StateFinisherSkip
<1>19. CASE ChainNext /\ UNCHANGED relayVars
  BY <1>19, ChainTypes DEF relayVars
<1>20. CASE UNCHANGED vars
  BY <1>3, <1>20 DEF vars, relayVars
<1> QED
  BY <1>4, <1>5, <1>6, <1>7, <1>8, <1>9, <1>10, <1>11, <1>12, <1>13, <1>14, <1>15, <1>16,
     <1>17, <1>18, <1>19, <1>20, <1>21
  DEF Next, Relayer, Batch

\* Nothing but the batch processors enters a batch or submits a transaction.
LEMMA PhaseStep ==
    ASSUME TypeOK, PhaseInv, [Next]_vars
    PROVE  PhaseInv'
<1> USE DEF PhaseInv
<1>1. CASE GetUnfinishedTransfers \/ SubmitTransfer \/ DrainOutput \/ Restart \/ Skip
  BY <1>1 DEF GetUnfinishedTransfers, SubmitTransfer, DrainOutput, Restart, Skip, BatchStage
<1>2. CASE MoveOn \/ Fail
  BY <1>2 DEF MoveOn, Fail
<1>3. CASE Processor
  BY <1>2, <1>3 DEF Processor, CheckRecvPacketDelivery, CheckPacketCommitment,
       CheckSendFinality, CheckTimeoutFinality, RetryTimeoutPacket, RetryRecvPacket,
       RetryAckPacket, TimeoutTxGas, RecvTxGas, AckTxGas, WaitForWriteAck,
       CheckWriteAckFinality
<1>4. CASE EnterBatch
  BY <1>4 DEF EnterBatch
<1>5. CASE DeliverTx
  <2>1. nTx + 1 \in TxId
    BY <1>5, ChainAssumption, DeliverTxAny DEF DeliverAny, Broadcast, TypeOK, ChainTypeOK, TxId, TxRef
  <2> QED BY <1>5, <2>1, DeliverTxAny DEF DeliverAny
<1>6. CASE ProcessError \/ LookupCancelled \/ LeaveBatch \/ DeliverTxError \/ RecordTx \/ RecordTxError
  BY <1>2, <1>6 DEF ProcessError, LookupCancelled, LeaveBatch, DeliverTxError, RecordTx, RecordTxError
<1>7. CASE StateFinisher \/ StateFinisherError \/ StateFinisherSkip
  BY <1>2, <1>7 DEF StateFinisher, StateFinisherError, StateFinisherSkip
<1>8. CASE UNCHANGED relayVars
  BY <1>8 DEF relayVars
<1> QED BY <1>1, <1>3, <1>4, <1>5, <1>6, <1>7, <1>8 DEF Next, Relayer, Batch, vars

\* Initially everything has its type, and no transfer is in a batch.
LEMMA TypeInit ==
    ASSUME Init
    PROVE  TypeOK /\ PhaseInv
<1>1. 0 \in TxRef
  BY ChainAssumption DEF TxRef
<1>2. ChainTypeOK
  BY <1>1 DEF Init, ChainInit, ChainTypeOK, NoTx, Kind, Status
<1>3. row \in Row /\ snap \in Row /\ mem \in Row
  BY RowTypes DEF Init
<1> QED BY <1>1, <1>2, <1>3 DEF Init, TypeOK, PhaseInv, Stage, NoTx

\* Every state of the relayer and of the chains has its type.
THEOREM TypeCorrect == Spec => []TypeOK
<1>1. Init => TypeOK /\ PhaseInv
  BY TypeInit
<1>2. TypeOK /\ PhaseInv /\ [Next]_vars => (TypeOK /\ PhaseInv)'
  BY TypeStep, PhaseStep
<1> QED BY <1>1, <1>2, PTL DEF Spec

-----------------------------------------------------------------------------
(* The chains.                                                             *)

\* What no step takes back.
Grows ==
    /\ \A i \in TxId : txStatus[i] # "unsent" => txStatus'[i] # "unsent" /\ txKind'[i] = txKind[i]
    /\ \A i \in TxId : txStatus[i] = "effect" => txStatus'[i] = "effect"
    /\ recvBy # NoTx => recvBy' = recvBy /\ writeAck' = writeAck
    /\ recvBy # NoTx /\ recvFinal => recvFinal'
    /\ srcPacket # "committed" => srcPacket' = srcPacket
    /\ sendFinal => sendFinal'

\* A transaction has an effect: on a packet that is still open for it.
LEMMA EffectGrows ==
    ASSUME ChainTypeOK, ChainInv, NEW k \in Kind, NEW i \in TxId, Effect(k, i)
    PROVE  /\ recvBy # NoTx => recvBy' = recvBy /\ writeAck' = writeAck
           /\ recvBy # NoTx /\ recvFinal => recvFinal'
           /\ srcPacket # "committed" => srcPacket' = srcPacket
BY DEF Effect, Receive, Acknowledge, TimeOut

\* Every step of the chains keeps what there is.
LEMMA ChainGrows ==
    ASSUME ChainTypeOK, ChainInv, ChainNext
    PROVE  Grows
<1>1. ASSUME NEW i \in TxId, LandEffect(i)
      PROVE  Grows
  <2>1. txKind[i] \in Kind /\ Effect(txKind[i], i)
    BY <1>1 DEF ChainTypeOK, LandEffect
  <2> QED BY <1>1, <2>1, EffectGrows DEF Grows, ChainTypeOK, LandEffect, clockVars
<1>2. ASSUME NEW i \in TxId, LandNoop(i) \/ LandFailed(i)
      PROVE  Grows
  BY <1>2 DEF Grows, ChainTypeOK, LandNoop, LandFailed, packetVars, clockVars
<1>3. ASSUME NEW k \in Kind, OtherRelayer(k)
      PROVE  Grows
  <2>1. nTx + 1 \in TxId /\ txStatus[nTx + 1] = "unsent"
    BY <1>3, ChainAssumption DEF ChainTypeOK, ChainInv, OtherRelayer, TxId, TxRef
  <2> QED BY <1>3, <2>1, EffectGrows DEF Grows, ChainTypeOK, OtherRelayer, clockVars
<1>4. CASE SendBecomesFinal \/ RecvBecomesFinal \/ LocalClockPasses
             \/ DestClockPasses \/ DestClockPassesFinal
  BY <1>4 DEF Grows, SendBecomesFinal, RecvBecomesFinal, LocalClockPasses,
       DestClockPasses, DestClockPassesFinal, packetVars, clockVars
<1>5. ASSUME NEW i \in TxId, CacheExpires(i)
      PROVE  Grows
  BY <1>5 DEF Grows, CacheExpires, packetVars, clockVars
<1> QED BY <1>1, <1>2, <1>3, <1>4, <1>5 DEF ChainNext

\* A new transaction changes nothing about the others.
LEMMA BroadcastGrows ==
    ASSUME ChainTypeOK, ChainInv, NEW k \in Kind, Broadcast(k),
           UNCHANGED <<packetVars, clockVars>>
    PROVE  Grows
<1>1. nTx + 1 \in TxId /\ txStatus[nTx + 1] = "unsent"
  BY ChainAssumption DEF ChainTypeOK, ChainInv, Broadcast, TxId, TxRef
<1> QED BY <1>1 DEF Grows, ChainTypeOK, Broadcast, packetVars, clockVars

\* The relayer submits an ack only for a packet that was received: then the chains keep
\* their invariant.
LEMMA BroadcastChainInv ==
    ASSUME ChainTypeOK, ChainInv, NEW k \in Kind, Broadcast(k),
           UNCHANGED <<packetVars, clockVars>>, k = "ack" => recvBy # NoTx
    PROVE  ChainInv'
<1>1. nTx + 1 \in TxId /\ txStatus[nTx + 1] = "unsent"
  BY ChainAssumption DEF ChainTypeOK, ChainInv, Broadcast, TxId, TxRef
<1>2. \A i \in TxId : txStatus'[i] = "unsent" <=> i > nTx'
  BY <1>1 DEF ChainTypeOK, ChainInv, Broadcast, TxId, TxRef
<1>3. \A i \in TxId : i # nTx + 1 => txStatus'[i] = txStatus[i] /\ txKind'[i] = txKind[i]
  BY DEF ChainTypeOK, Broadcast
<1>4. txStatus'[nTx + 1] = "pending" /\ txKind'[nTx + 1] = k
  BY <1>1 DEF ChainTypeOK, Broadcast
<1>5. recvBy # NoTx => recvBy \in TxId /\ recvBy # nTx + 1
  BY <1>1 DEF ChainTypeOK, ChainInv, TxId, TxRef, NoTx
<1>6. srcPacket # "committed" => resolvedBy \in TxId /\ resolvedBy # nTx + 1
  BY <1>1 DEF ChainTypeOK, ChainInv, TxId, TxRef, NoTx
<1> QED BY <1>2, <1>3, <1>4, <1>5, <1>6 DEF ChainInv, ChainTypeOK, packetVars, clockVars

\* The chains keep their invariant when transaction i of kind k has its effect, be it one
\* that was pending or a new one of another relayer.
LEMMA EffectChainInv ==
    ASSUME ChainTypeOK, ChainTypeOK', ChainInv, NEW k \in Kind, NEW i \in TxId, Effect(k, i),
           txKind' = [txKind EXCEPT ![i] = k],
           txStatus' = [txStatus EXCEPT ![i] = "effect"],
           \A j \in TxId : txStatus'[j] = "unsent" <=> j > nTx',
           txStatus[i] \in {"unsent", "pending"},
           UNCHANGED clockVars
    PROVE  ChainInv'
<1>1. \A j \in TxId : j # i => txStatus'[j] = txStatus[j] /\ txKind'[j] = txKind[j]
  BY DEF ChainTypeOK
<1>2. txStatus'[i] = "effect" /\ txKind'[i] = k
  BY DEF ChainTypeOK
<1>3. i # NoTx
  BY DEF TxId, NoTx
<1>4. recvBy # NoTx => recvBy \in TxId /\ recvBy # i
  BY DEF ChainTypeOK, ChainInv, TxId, TxRef, NoTx
<1>5. srcPacket # "committed" => resolvedBy \in TxId /\ resolvedBy # i
  BY DEF ChainTypeOK, ChainInv, TxId, TxRef, NoTx
<1>6. CASE k = "recv" /\ Receive(i)
  <2>1. recvBy = NoTx /\ ~destPast /\ recvBy' = i /\ UNCHANGED <<srcPacket, resolvedBy>>
    BY <1>6 DEF Receive
  <2>2. writeAck' # "NONE"
    BY <1>6 DEF Receive, Ack
  <2>3. DestType = "COSMOS" => recvFinal'
    BY <1>6 DEF Receive
  <2>4. UNCHANGED <<sendFinal, destPast>>
    BY DEF clockVars
  <2> QED BY <1>1, <1>2, <1>3, <1>5, <1>6, <2>1, <2>2, <2>3, <2>4 DEF ChainInv, ChainTypeOK
<1>7. CASE k = "ack" /\ Acknowledge(i)
  BY <1>1, <1>2, <1>3, <1>4, <1>5, <1>7 DEF ChainInv, ChainTypeOK, Acknowledge, clockVars, Kind
<1>8. CASE k = "timeout" /\ TimeOut(i)
  BY <1>1, <1>2, <1>3, <1>4, <1>5, <1>8 DEF ChainInv, ChainTypeOK, TimeOut, clockVars, Kind
<1> QED BY <1>6, <1>7, <1>8 DEF Effect

\* The chains keep their invariant.
LEMMA ChainStepInv ==
    ASSUME ChainTypeOK, ChainInv, ChainNext
    PROVE  ChainInv'
<1>0. ChainTypeOK'
  BY ChainTypes
<1>1. ASSUME NEW i \in TxId, LandEffect(i)
      PROVE  ChainInv'
  <2>1. txKind[i] \in Kind /\ Effect(txKind[i], i)
    BY <1>1 DEF ChainTypeOK, LandEffect
  <2>2. txKind' = [txKind EXCEPT ![i] = txKind[i]]
    BY <1>1 DEF ChainTypeOK, LandEffect
  <2>3. \A j \in TxId : txStatus'[j] = "unsent" <=> j > nTx'
    BY <1>1 DEF ChainTypeOK, ChainInv, LandEffect
  <2> QED BY <1>0, <1>1, <2>1, <2>2, <2>3, EffectChainInv DEF LandEffect
<1>2. ASSUME NEW i \in TxId, LandNoop(i) \/ LandFailed(i)
      PROVE  ChainInv'
  <2>1. \A j \in TxId : j # i => txStatus'[j] = txStatus[j]
    BY <1>2 DEF ChainTypeOK, LandNoop, LandFailed
  <2>2. txStatus[i] = "pending" /\ txStatus'[i] \in {"noop", "failed"}
    BY <1>2 DEF ChainTypeOK, LandNoop, LandFailed
  <2>3. txStatus'[i] = "noop" /\ txKind[i] # "recv" => srcPacket # "committed"
    BY <1>2 DEF ChainTypeOK, LandNoop, LandFailed, Redundant
  <2>4. recvBy # NoTx => recvBy \in TxId
    BY DEF ChainTypeOK, TxId, TxRef, NoTx
  <2>5. srcPacket # "committed" => resolvedBy \in TxId
    BY DEF ChainTypeOK, ChainInv, TxId, TxRef, NoTx
  <2>6. UNCHANGED <<nTx, txKind, packetVars, clockVars>>
    BY <1>2 DEF LandNoop, LandFailed
  <2> QED BY <2>1, <2>2, <2>3, <2>4, <2>5, <2>6 DEF ChainInv, packetVars, clockVars
<1>3. ASSUME NEW k \in Kind, OtherRelayer(k)
      PROVE  ChainInv'
  <2>1. nTx + 1 \in TxId /\ txStatus[nTx + 1] = "unsent"
    BY <1>3, ChainAssumption DEF ChainTypeOK, ChainInv, OtherRelayer, TxId, TxRef
  <2>2. \A j \in TxId : txStatus'[j] = "unsent" <=> j > nTx'
    BY <1>3, <2>1 DEF ChainTypeOK, ChainInv, OtherRelayer, TxId, TxRef
  <2> QED BY <1>0, <1>3, <2>1, <2>2, EffectChainInv DEF OtherRelayer
<1>4. CASE SendBecomesFinal \/ RecvBecomesFinal \/ LocalClockPasses
             \/ DestClockPasses \/ DestClockPassesFinal
  BY <1>4 DEF ChainInv, SendBecomesFinal, RecvBecomesFinal, LocalClockPasses,
       DestClockPasses, DestClockPassesFinal, packetVars, clockVars
<1>5. ASSUME NEW i \in TxId, CacheExpires(i)
      PROVE  ChainInv'
  BY <1>5 DEF ChainInv, CacheExpires, packetVars, clockVars
<1> QED BY <1>1, <1>2, <1>3, <1>4, <1>5 DEF ChainNext

-----------------------------------------------------------------------------
(* The row and its copies.                                                 *)

\* A copy that is in order stays so while the chains and the submissions grow.
LEMMA CopyPrime ==
    ASSUME ChainTypeOK, ChainInv, Grows, submissions \subseteq submissions',
           row' \in Row, snap' \in Row, mem' \in Row
    PROVE  /\ Copy(row') => Copy(row)'
           /\ Copy(snap') => Copy(snap)'
           /\ Copy(mem') => Copy(mem)'
<1>1. \A t \in Row : t.recv \in TxRef /\ t.ack \in TxRef /\ t.timeout \in TxRef
  BY FieldTypes
<1>2. \A tx \in TxRef : tx # NoTx => tx \in TxId
  BY DEF TxRef, TxId, NoTx
<1>3. \A tx \in TxId : Known(tx) => Known(tx)' /\ txKind'[tx] = txKind[tx]
  BY DEF Known, Grows
<1>4. recvBy # NoTx => recvBy' = recvBy /\ PacketWriteAckStatus(recvBy)' = PacketWriteAckStatus(recvBy)
  BY DEF Grows, PacketWriteAckStatus, CosmosPacketWriteAckStatus, EVMPacketWriteAckStatus
<1>5. Copy(row') => Copy(row)'
  BY <1>1, <1>2, <1>3, <1>4 DEF Copy, Known
<1>6. Copy(snap') => Copy(snap)'
  BY <1>1, <1>2, <1>3, <1>4 DEF Copy, Known
<1>7. Copy(mem') => Copy(mem)'
  BY <1>1, <1>2, <1>3, <1>4 DEF Copy, Known
<1> QED BY <1>5, <1>6, <1>7

\* What the searches of the bridge clients find may be recorded.
LEMMA FoundIsKnown ==
    ASSUME TypeOK, ChainInv
    PROVE  /\ IsPacketReceived => FindRecvTx # NoTx /\ Known(FindRecvTx)
           /\ FindAckTx # NoTx => Known(FindAckTx) /\ txKind[FindAckTx] = "ack"
           /\ FindTimeoutTx # NoTx => Known(FindTimeoutTx) /\ txKind[FindTimeoutTx] = "timeout"
<1>1. IsPacketReceived => FindRecvTx = recvBy /\ recvBy # NoTx
  BY DEF IsPacketReceived, CosmosIsPacketReceived, EVMIsPacketReceived, FindRecvTx,
       CosmosFindRecvTx, EVMFindRecvTx
<1>2. FindAckTx # NoTx => FindAckTx = resolvedBy /\ srcPacket = "acked"
  BY DEF FindAckTx, CosmosFindAckTx, EVMFindAckTx
<1>3. FindTimeoutTx # NoTx => FindTimeoutTx = resolvedBy /\ srcPacket = "timedOut"
  BY DEF FindTimeoutTx, CosmosFindTimeoutTx, EVMFindTimeoutTx
<1> QED BY <1>1, <1>2, <1>3 DEF ChainInv, Known

\* A transaction with a write acknowledgement is the one that received the packet.
LEMMA WriteAckTx ==
    ASSUME NEW tx, PacketWriteAckStatus(tx) # "NONE"
    PROVE  tx = recvBy
BY DEF PacketWriteAckStatus, CosmosPacketWriteAckStatus, EVMPacketWriteAckStatus

\* Every processor leaves the row and its copies in order.
LEMMA ProcessorCopies ==
    ASSUME IInv, Processor
    PROVE  Copy(row') /\ Copy(snap') /\ Copy(mem')
<1> USE DEF IInv, TypeOK
<1>1. InState(row) \in Row /\ InState(mem) \in Row /\ NewRow \in Row
  BY RowTypes
<1>2. Copy(InState(row)) /\ Copy(InState(mem))
  BY DEF Copy, InState, InProgress, Row
<1>3. Copy(NewRow)
  BY DEF Copy, NewRow, InProgress
<1>4. Copy(snap')
  BY DEF Processor, CheckRecvPacketDelivery, CheckPacketCommitment,
       CheckSendFinality, CheckTimeoutFinality, RetryTimeoutPacket, RetryRecvPacket,
       RetryAckPacket, TimeoutTxGas, RecvTxGas, AckTxGas, WaitForWriteAck,
       CheckWriteAckFinality, MoveOn, Fail
<1>5. CASE CheckRecvPacketDelivery
  BY <1>1, <1>2, <1>4, <1>5, FoundIsKnown DEF CheckRecvPacketDelivery, Copy, Row
<1>6. CASE CheckPacketCommitment
  BY <1>1, <1>2, <1>4, <1>6, FoundIsKnown DEF CheckPacketCommitment, Copy, Row
<1>7. CASE CheckSendFinality \/ CheckTimeoutFinality \/ CheckWriteAckFinality
  BY <1>1, <1>2, <1>4, <1>7
     DEF CheckSendFinality, CheckTimeoutFinality, CheckWriteAckFinality, Copy, Row
<1>8. CASE RetryTimeoutPacket \/ RetryRecvPacket \/ RetryAckPacket
  BY <1>1, <1>2, <1>3, <1>4, <1>8
     DEF RetryTimeoutPacket, RetryRecvPacket, RetryAckPacket, Fail, Copy, Row
<1>9. CASE TimeoutTxGas \/ RecvTxGas \/ AckTxGas
  BY <1>1, <1>2, <1>4, <1>9 DEF TimeoutTxGas, RecvTxGas, AckTxGas, Copy, Row
<1>10. CASE WaitForWriteAck
  <2>1. CASE PacketWriteAckStatus(mem.recv) = "NONE"
    BY <1>1, <1>2, <1>3, <1>4, <1>10, <2>1 DEF WaitForWriteAck, Fail, Copy, Row
  <2>2. CASE PacketWriteAckStatus(mem.recv) # "NONE"
    <3>1. mem.recv = recvBy
      BY <2>2, WriteAckTx
    <3>2. PICK status : /\ status = PacketWriteAckStatus(recvBy)
                        /\ row' = [InState(row) EXCEPT !.writeAck = recvBy, !.writeAckStatus = status]
                        /\ mem' = [InState(mem) EXCEPT !.writeAck = recvBy, !.writeAckStatus = status]
      BY <1>10, <2>2, <3>1 DEF WaitForWriteAck
    <3> QED BY <1>1, <1>2, <1>4, <3>2 DEF Copy, Row
  <2> QED BY <2>1, <2>2
<1> QED BY <1>5, <1>6, <1>7, <1>8, <1>9, <1>10 DEF Processor

\* So does every other step of the relayer but the one that records a transaction.
LEMMA RelayerCopies ==
    ASSUME IInv, Relayer, ~RecordTx
    PROVE  Copy(row') /\ Copy(snap') /\ Copy(mem')
<1> USE DEF IInv, TypeOK
<1>1. Copy(InState(row)) /\ Copy(InState(mem))
  BY DEF Copy, InState, InProgress, Row
<1>2. Copy(NewRow)
  BY DEF Copy, NewRow, InProgress
<1>3. CASE GetUnfinishedTransfers \/ SubmitTransfer \/ DrainOutput \/ Restart \/ Skip
  BY <1>2, <1>3 DEF GetUnfinishedTransfers, SubmitTransfer, DrainOutput, Restart, Skip
<1>4. CASE ProcessError \/ LookupCancelled
  BY <1>1, <1>2, <1>4 DEF ProcessError, LookupCancelled, Fail
<1>5. CASE EnterBatch \/ LeaveBatch
  BY <1>5 DEF EnterBatch, LeaveBatch, MoveOn
<1>6. CASE DeliverTx \/ DeliverTxError
  BY <1>1, <1>2, <1>6, DeliverTxAny DEF DeliverAny, DeliverTxError, Fail
<1>7. CASE RecordTxError \/ StateFinisherError \/ StateFinisherSkip
  BY <1>2, <1>7 DEF RecordTxError, StateFinisherError, StateFinisherSkip, Fail, MoveOn
<1>8. CASE StateFinisher
  <2>1. FinalStatus(mem) # "FAILED"
    BY DEF FinalStatus
  <2> QED BY <1>8, <2>1 DEF StateFinisher, MoveOn, Copy, Row
<1> QED BY <1>3, <1>4, <1>5, <1>6, <1>7, <1>8, ProcessorCopies DEF Relayer, Batch

-----------------------------------------------------------------------------
(* What a copy has learnt at the stages it passed.                         *)

\* Nothing is claimed of a copy at the first stage or at the output, of one
\* that was dropped, or if there is none.
LEMMA PassedOutside ==
    ASSUME pc' \in {"CheckRecvPacketDelivery", "Output", "dropped", "idle"}
    PROVE  PassedInv'
BY DEF PassedInv, BeforeBatchTimeout, AfterSendFinality, AfterRetryTimeout

\* What a copy learnt stays true while it waits and the chains go on.
LEMMA PassedWaiting ==
    ASSUME IInv, Grows, UNCHANGED pc, row'.writeAck = row.writeAck,
           mem' = mem \/ mem' = InState(mem)
    PROVE  PassedInv'
<1>1. /\ mem'.recv = mem.recv /\ mem'.ack = mem.ack /\ mem'.timeout = mem.timeout
      /\ mem'.writeAck = mem.writeAck /\ mem'.writeAckStatus = mem.writeAckStatus
  BY DEF IInv, TypeOK, Row, InState
<1>2. CheckWriteAckFinalityShouldProcess(mem)' => CheckWriteAckFinalityShouldProcess(mem) /\ recvBy # NoTx
  BY <1>1 DEF CheckWriteAckFinalityShouldProcess, ShouldRelayAck, IInv, Copy
<1> QED BY <1>1, <1>2 DEF PassedInv, IInv, Grows, BeforeBatchTimeout, AfterSendFinality, AfterRetryTimeout

\* The stages that lead to those PassedInv speaks of.
LEMMA Predecessors ==
    \A st \in MWStage :
        /\ After(st) \in BeforeBatchTimeout => st = "CheckRecvPacketDelivery" \/ st \in BeforeBatchTimeout
        /\ After(st) \in AfterSendFinality => st = "CheckSendFinality" \/ st \in AfterSendFinality
        /\ After(st) \in AfterRetryTimeout => st = "RetryTimeout" \/ st \in AfterRetryTimeout
        /\ After(st) \in {"CheckPacketCommitment2", "BatchAck"} =>
              st \in {"CheckWriteAckFinality", "CheckPacketCommitment2"}
        /\ After(st) \in {"AckTxGas", "StateFinisher"} => st \in {"RetryAck", "AckTxGas"}
<1> SUFFICES ASSUME NEW st \in MWStage
             PROVE  /\ After(st) \in BeforeBatchTimeout => st = "CheckRecvPacketDelivery" \/ st \in BeforeBatchTimeout
                    /\ After(st) \in AfterSendFinality => st = "CheckSendFinality" \/ st \in AfterSendFinality
                    /\ After(st) \in AfterRetryTimeout => st = "RetryTimeout" \/ st \in AfterRetryTimeout
                    /\ After(st) \in {"CheckPacketCommitment2", "BatchAck"} =>
                          st \in {"CheckWriteAckFinality", "CheckPacketCommitment2"}
                    /\ After(st) \in {"AckTxGas", "StateFinisher"} => st \in {"RetryAck", "AckTxGas"}
  OBVIOUS
<1>1. CASE st \in {"CheckRecvPacketDelivery", "CheckPacketCommitment", "CheckSendFinality",
                   "CheckTimeoutFinality", "BatchTimeout", "RetryTimeout"}
  BY <1>1 DEF After, BeforeBatchTimeout, AfterSendFinality, AfterRetryTimeout
<1>2. CASE st \in {"TimeoutTxGas", "BatchRecv", "RetryRecv", "RecvTxGas", "WaitForWriteAck"}
  BY <1>2 DEF After, BeforeBatchTimeout, AfterSendFinality, AfterRetryTimeout
<1>3. CASE st \in {"CheckWriteAckFinality", "CheckPacketCommitment2", "BatchAck", "RetryAck",
                   "AckTxGas"}
  BY <1>3 DEF After, BeforeBatchTimeout, AfterSendFinality, AfterRetryTimeout
<1> QED BY <1>1, <1>2, <1>3 DEF MWStage, BatchStage

\* A stage that need not process a transfer has nothing to learn about it.
LEMMA PassedSkipped ==
    ASSUME IInv, pc \in MWStage, ~ShouldProcess(pc, mem), pc' = After(pc),
           UNCHANGED <<row, mem, chainVars>>
    PROVE  PassedInv'
<1>1. pc = "CheckRecvPacketDelivery" => ~(mem.recv = NoTx /\ mem.ack = NoTx /\ mem.timeout = NoTx)
  BY DEF ShouldProcess, CheckRecvPacketDeliveryShouldProcess
<1>2. pc = "CheckSendFinality" => mem.recv # NoTx
  BY DEF ShouldProcess, CheckSendFinalityShouldProcess
<1>3. pc = "RetryTimeout" => mem.timeout = NoTx
  BY DEF ShouldProcess, RetryTimeoutPacketShouldProcess
<1>4. pc = "CheckWriteAckFinality" => ~CheckWriteAckFinalityShouldProcess(mem)
  BY DEF ShouldProcess
<1>5. pc = "RetryAck" => mem.ack = NoTx
  BY DEF ShouldProcess, RetryAckPacketShouldProcess
<1>6. CheckWriteAckFinalityShouldProcess(mem)' <=> CheckWriteAckFinalityShouldProcess(mem)
  BY DEF CheckWriteAckFinalityShouldProcess, ShouldRelayAck
<1> QED BY <1>1, <1>2, <1>3, <1>4, <1>5, <1>6, Predecessors DEF PassedInv, IInv, chainVars

\* A processor that lets the transfer move on teaches it what PassedInv says.
LEMMA PassedProcessor ==
    ASSUME IInv, Processor
    PROVE  PassedInv'
<1> USE DEF IInv, TypeOK
<1>0. InState(row) \in Row /\ InState(mem) \in Row
  BY RowTypes
<1>1. CASE Fail
  BY <1>1, PassedOutside DEF Fail
<1>2. CASE CheckRecvPacketDelivery
  <2>1. pc' = "CheckPacketCommitment"
    BY <1>2 DEF CheckRecvPacketDelivery, Runs, MoveOn, After
  <2>2. mem'.recv = NoTx => recvBy = NoTx
    BY <1>0, <1>2 DEF CheckRecvPacketDelivery, IsPacketReceived, CosmosIsPacketReceived,
         EVMIsPacketReceived, FindRecvTx, CosmosFindRecvTx, EVMFindRecvTx, Row
  <2>3. row'.writeAck = row.writeAck
    BY <1>0, <1>2 DEF CheckRecvPacketDelivery, InState, Row
  <2>4. recvBy = NoTx => row.writeAck = NoTx
    BY DEF Copy
  <2> QED BY <2>1, <2>2, <2>3, <2>4
          DEF PassedInv, BeforeBatchTimeout, AfterSendFinality, AfterRetryTimeout
<1>3. CASE CheckPacketCommitment
  <2>1. \/ pc = "CheckPacketCommitment" /\ pc' = "CheckSendFinality"
        \/ pc = "CheckPacketCommitment2" /\ pc' = "BatchAck"
    BY <1>3 DEF CheckPacketCommitment, Runs, MoveOn, After
  <2>2. /\ mem'.recv = mem.recv /\ row'.writeAck = row.writeAck
        /\ mem'.writeAck = mem.writeAck /\ mem'.writeAckStatus = mem.writeAckStatus
    BY <1>0, <1>3 DEF CheckPacketCommitment, InState, Row
  <2>3. mem'.ack = NoTx => mem.ack = NoTx
    BY <1>0, <1>3 DEF CheckPacketCommitment, InState, Row
  <2>4. /\ mem'.timeout = NoTx => mem.timeout = NoTx
        /\ mem'.timeout # NoTx => mem.timeout # NoTx \/ srcPacket # "committed"
    BY <1>0, <1>3 DEF CheckPacketCommitment, IsPacketCommitted, CosmosIsPacketCommitted,
         EVMIsPacketCommitted, InState, Row
  <2>5. CheckWriteAckFinalityShouldProcess(mem)' => CheckWriteAckFinalityShouldProcess(mem)
    BY <2>2 DEF CheckWriteAckFinalityShouldProcess, ShouldRelayAck
  <2>6. UNCHANGED <<recvFinal, srcPacket>>
    BY <1>3 DEF CheckPacketCommitment, chainVars
  <2> QED BY <2>1, <2>2, <2>3, <2>4, <2>5, <2>6
          DEF PassedInv, BeforeBatchTimeout, AfterSendFinality, AfterRetryTimeout
<1>4. CASE CheckSendFinality \/ CheckTimeoutFinality
  <2>1. \/ pc = "CheckSendFinality" /\ pc' = "CheckTimeoutFinality"
        \/ pc = "CheckTimeoutFinality" /\ pc' = "BatchTimeout"
    BY <1>4 DEF CheckSendFinality, CheckTimeoutFinality, Runs, MoveOn, After
  <2>2. /\ mem'.recv = mem.recv /\ mem'.ack = mem.ack /\ mem'.timeout = mem.timeout
        /\ row'.writeAck = row.writeAck
    BY <1>0, <1>4 DEF CheckSendFinality, CheckTimeoutFinality, InState, Row
  <2>3. pc = "CheckSendFinality" => sendFinal
    BY <1>4 DEF CheckSendFinality, CheckTimeoutFinality, Runs, IsTxFinalized, EVMIsTxFinalized,
         ChainInv
  <2>4. UNCHANGED sendFinal
    BY <1>4 DEF CheckSendFinality, CheckTimeoutFinality, chainVars
  <2> QED BY <2>1, <2>2, <2>3, <2>4
          DEF PassedInv, BeforeBatchTimeout, AfterSendFinality, AfterRetryTimeout
<1>5. CASE RetryTimeoutPacket /\ MoveOn
  <2>1. pc = "RetryTimeout" /\ pc' \in {"TimeoutTxGas", "BatchRecv"}
    BY <1>5 DEF RetryTimeoutPacket, Runs, MoveOn, After
  <2>2. CASE ShouldRetryTx(SourceType, mem.timeout)
    BY <1>5, <2>2, PassedOutside DEF RetryTimeoutPacket, Fail
  <2>3. CASE ~ShouldRetryTx(SourceType, mem.timeout)
    <3>1. mem'.recv = mem.recv /\ mem'.timeout = mem.timeout
      BY <1>5, <2>3 DEF RetryTimeoutPacket, InState, Row
    <3>2. mem.timeout # NoTx => mem.timeout \in TxId
      BY FieldTypes DEF TxRef, TxId, NoTx
    <3>3. mem.timeout # NoTx => txStatus[mem.timeout] \in {"effect", "noop"} /\ txKind[mem.timeout] = "timeout"
      BY <2>3, <3>2 DEF Copy, Known, ShouldRetryTx, CosmosShouldRetryTx, EVMShouldRetryTx,
           InBlock, ChainTypeOK, Status
    <3>4. mem.timeout # NoTx => srcPacket # "committed"
      BY <3>2, <3>3 DEF ChainInv
    <3>5. UNCHANGED <<sendFinal, srcPacket>>
      BY <1>5 DEF RetryTimeoutPacket, chainVars
    <3> QED BY <2>1, <3>1, <3>4, <3>5
            DEF PassedInv, BeforeBatchTimeout, AfterSendFinality, AfterRetryTimeout
  <2> QED BY <2>2, <2>3
<1>6. CASE TimeoutTxGas
  <2>1. pc = "TimeoutTxGas" /\ pc' = "BatchRecv"
    BY <1>6 DEF TimeoutTxGas, Runs, MoveOn, After
  <2>2. mem'.recv = mem.recv /\ mem'.timeout = mem.timeout
    BY <1>6 DEF TimeoutTxGas, InState, Row
  <2>3. UNCHANGED <<sendFinal, srcPacket>>
    BY <1>6 DEF TimeoutTxGas, chainVars
  <2> QED BY <2>1, <2>2, <2>3
          DEF PassedInv, BeforeBatchTimeout, AfterSendFinality, AfterRetryTimeout
<1>7. CASE MoveOn /\ (RetryRecvPacket \/ RecvTxGas \/ WaitForWriteAck)
  <2>1. /\ pc \in {"RetryRecv", "RecvTxGas", "WaitForWriteAck"}
        /\ pc' \in {"RecvTxGas", "WaitForWriteAck", "CheckWriteAckFinality"}
    BY <1>7 DEF RetryRecvPacket, RecvTxGas, WaitForWriteAck, Runs, MoveOn, After
  <2>2. CASE pc' # "Output" /\ mem'.timeout = mem.timeout
    <3>1. UNCHANGED srcPacket
      BY <1>7 DEF RetryRecvPacket, RecvTxGas, WaitForWriteAck, chainVars
    <3> QED BY <2>1, <2>2, <3>1
            DEF PassedInv, BeforeBatchTimeout, AfterSendFinality, AfterRetryTimeout
  <2>3. pc' = "Output" \/ mem'.timeout = mem.timeout
    BY <1>0, <1>7 DEF RetryRecvPacket, RecvTxGas, WaitForWriteAck, Fail, InState, Row
  <2> QED BY <2>1, <2>2, <2>3
<1>8. CASE CheckWriteAckFinality
  <2>1. pc = "CheckWriteAckFinality" /\ pc' = "CheckPacketCommitment2"
    BY <1>8 DEF CheckWriteAckFinality, Runs, MoveOn, After
  <2>2. CheckWriteAckFinalityShouldProcess(mem)
    BY <1>8, <2>1 DEF CheckWriteAckFinality, Runs, Skipped, ShouldProcess
  <2>3. recvFinal
    BY <1>8, <2>2 DEF CheckWriteAckFinality, IsTxFinalized, EVMIsTxFinalized, ChainInv, Copy,
         CheckWriteAckFinalityShouldProcess
  <2>4. mem'.timeout = mem.timeout /\ UNCHANGED <<srcPacket, recvFinal>>
    BY <1>0, <1>8 DEF CheckWriteAckFinality, chainVars, InState, Row
  <2> QED BY <2>1, <2>3, <2>4
          DEF PassedInv, BeforeBatchTimeout, AfterSendFinality, AfterRetryTimeout
<1>9. CASE RetryAckPacket /\ MoveOn
  <2>1. pc = "RetryAck" /\ pc' \in {"AckTxGas", "StateFinisher"}
    BY <1>9 DEF RetryAckPacket, Runs, MoveOn, After
  <2>2. CASE ShouldRetryTx(SourceType, mem.ack)
    BY <1>9, <2>2, PassedOutside DEF RetryAckPacket, Fail
  <2>3. CASE ~ShouldRetryTx(SourceType, mem.ack)
    <3>1. mem'.ack = mem.ack /\ mem'.timeout = mem.timeout
      BY <1>9, <2>3 DEF RetryAckPacket, InState, Row
    <3>2. mem.ack # NoTx => mem.ack \in TxId
      BY FieldTypes DEF TxRef, TxId, NoTx
    <3>3. mem.ack # NoTx => txStatus[mem.ack] \in {"effect", "noop"} /\ txKind[mem.ack] = "ack"
      BY <2>3, <3>2 DEF Copy, Known, ShouldRetryTx, CosmosShouldRetryTx, EVMShouldRetryTx,
           InBlock, ChainTypeOK, Status
    <3>4. mem.ack # NoTx => srcPacket = "acked"
      BY <3>2, <3>3 DEF ChainInv, ChainTypeOK
    <3>5. UNCHANGED srcPacket
      BY <1>9 DEF RetryAckPacket, chainVars
    <3> QED BY <2>1, <3>1, <3>4, <3>5
            DEF PassedInv, BeforeBatchTimeout, AfterSendFinality, AfterRetryTimeout
  <2> QED BY <2>2, <2>3
<1>10. CASE AckTxGas
  <2>1. pc = "AckTxGas" /\ pc' = "StateFinisher"
    BY <1>10 DEF AckTxGas, Runs, MoveOn, After
  <2>2. mem'.ack = mem.ack /\ mem'.timeout = mem.timeout /\ UNCHANGED srcPacket
    BY <1>10 DEF AckTxGas, chainVars, InState, Row
  <2> QED BY <2>1, <2>2
          DEF PassedInv, BeforeBatchTimeout, AfterSendFinality, AfterRetryTimeout
<1>11. CASE RetryTimeoutPacket \/ RetryRecvPacket \/ RetryAckPacket \/ RecvTxGas \/ WaitForWriteAck
  <2>1. MoveOn \/ Fail
    BY <1>11 DEF RetryTimeoutPacket, RetryRecvPacket, RetryAckPacket, RecvTxGas, WaitForWriteAck
  <2> QED BY <1>1, <1>5, <1>7, <1>9, <1>11, <2>1
<1> QED BY <1>2, <1>3, <1>4, <1>6, <1>8, <1>10, <1>11 DEF Processor

\* Every step keeps what a copy has learnt.
LEMMA PassedStep ==
    ASSUME IInv, Grows, Next
    PROVE  PassedInv'
<1> USE DEF IInv, TypeOK
<1>1. CASE GetUnfinishedTransfers \/ EnterBatch
  BY <1>1, PassedWaiting DEF GetUnfinishedTransfers, EnterBatch
<1>2. CASE SubmitTransfer
  BY <1>2, PassedWaiting, PassedOutside DEF SubmitTransfer
<1>3. CASE DrainOutput \/ Restart \/ ProcessError \/ LookupCancelled \/ DeliverTxError \/ RecordTxError \/ StateFinisherError
  BY <1>3, PassedOutside
     DEF DrainOutput, Restart, ProcessError, LookupCancelled, DeliverTxError, RecordTxError, StateFinisherError, Fail
<1>4. CASE Skip
  BY <1>4, PassedSkipped DEF Skip, Skipped, Copy
<1>5. CASE LeaveBatch
  BY <1>5, PassedSkipped DEF LeaveBatch, MoveOn, PhaseInv, MWStage
<1>6. CASE Processor
  BY <1>6, PassedProcessor
<1>7. CASE DeliverTx
  <2>1. row'.writeAck = row.writeAck
    BY <1>7, DeliverTxAny DEF DeliverAny, InState, Row
  <2> QED BY <1>7, <2>1, PassedWaiting, DeliverTxAny DEF DeliverAny
<1>8. CASE RecordTx
  <2>1. \/ pc = "BatchTimeout" /\ pc' = "RetryTimeout" /\ mem' = [mem EXCEPT !.timeout = sent]
        \/ pc = "BatchRecv" /\ pc' = "RetryRecv" /\ mem' = [mem EXCEPT !.recv = sent]
        \/ pc = "BatchAck" /\ pc' = "RetryAck" /\ mem' = [mem EXCEPT !.ack = sent]
    BY <1>8 DEF RecordTx, MoveOn, WithTx, WithTimeoutTx, WithRecvTx, WithAckTx, After, PhaseInv, BatchStage
  <2>2. UNCHANGED <<sendFinal, srcPacket>>
    BY <1>8 DEF RecordTx, chainVars
  <2>3. /\ pc = "BatchTimeout" => mem'.recv = mem.recv
        /\ pc # "BatchTimeout" => mem'.timeout = mem.timeout
    BY <2>1 DEF Row
  <2> QED BY <2>1, <2>2, <2>3
          DEF PassedInv, BeforeBatchTimeout, AfterSendFinality, AfterRetryTimeout
<1>9. CASE StateFinisher \/ StateFinisherSkip
  <2>1. pc' = "Output"
    BY <1>9 DEF StateFinisher, StateFinisherSkip, Finishes, MoveOn, After
  <2> QED BY <2>1, PassedOutside
<1>10. CASE UNCHANGED relayVars
  BY <1>10, PassedWaiting DEF relayVars
<1> QED BY <1>1, <1>2, <1>3, <1>4, <1>5, <1>6, <1>7, <1>8, <1>9, <1>10 DEF Next, Relayer, Batch

-----------------------------------------------------------------------------
(* The invariant is inductive.                                             *)

\* A transaction the relayer submits is one of a kind the chains allow for.
LEMMA DeliverIsBroadcast ==
    ASSUME IInv, phase = "batch", ShouldProcess(pc, mem)
    PROVE  BatchKind(pc) \in Kind /\ (BatchKind(pc) = "ack" => recvBy # NoTx)
<1>1. pc \in BatchStage
  BY DEF IInv, PhaseInv
<1>2. BatchKind(pc) \in Kind /\ (BatchKind(pc) = "ack" => pc = "BatchAck")
  BY <1>1 DEF BatchKind, BatchStage, Kind
<1>3. pc = "BatchAck" => recvBy # NoTx
  BY DEF ShouldProcess, BatchAckPacketShouldProcess, IInv, Copy
<1> QED BY <1>2, <1>3

\* Every step lets the chains and the submissions grow and keeps the chains' invariant.
LEMMA GrowsStep ==
    ASSUME IInv, Next
    PROVE  ChainInv' /\ Grows /\ submissions \subseteq submissions'
<1> USE DEF IInv, TypeOK
<1>1. CASE UNCHANGED chainVars /\ submissions \subseteq submissions'
  BY <1>1 DEF chainVars, ChainInv, Grows
<1>2. CASE DeliverTx
  BY <1>2, DeliverIsBroadcast, BroadcastGrows, BroadcastChainInv, DeliverTxAny DEF DeliverAny
<1>3. CASE DeliverTxError
  <2>1. CASE UNCHANGED chainVars
    BY <1>1, <1>3, <2>1 DEF DeliverTxError
  <2>2. CASE Broadcast(BatchKind(pc)) /\ UNCHANGED <<packetVars, clockVars>>
    BY <1>3, <2>2, DeliverIsBroadcast, BroadcastGrows, BroadcastChainInv DEF DeliverTxError
  <2> QED BY <1>3, <2>1, <2>2 DEF DeliverTxError
<1>4. CASE ChainNext /\ UNCHANGED relayVars
  BY <1>4, ChainGrows, ChainStepInv DEF relayVars
<1>5. CASE Processor
  BY <1>1, <1>5 DEF Processor, CheckRecvPacketDelivery, CheckPacketCommitment,
       CheckSendFinality, CheckTimeoutFinality, RetryTimeoutPacket, RetryRecvPacket,
       RetryAckPacket, TimeoutTxGas, RecvTxGas, AckTxGas, WaitForWriteAck,
       CheckWriteAckFinality
<1>6. CASE \/ GetUnfinishedTransfers \/ SubmitTransfer \/ DrainOutput \/ Restart \/ Skip
           \/ ProcessError \/ LookupCancelled \/ EnterBatch \/ LeaveBatch \/ RecordTx \/ RecordTxError
           \/ StateFinisher \/ StateFinisherError \/ StateFinisherSkip
  BY <1>1, <1>6 DEF GetUnfinishedTransfers, SubmitTransfer, DrainOutput, Restart, Skip,
       ProcessError, LookupCancelled, EnterBatch, LeaveBatch, RecordTx, RecordTxError, StateFinisher,
       StateFinisherError, StateFinisherSkip
<1> QED BY <1>2, <1>3, <1>4, <1>5, <1>6 DEF Next, Relayer, Batch

\* Every step leaves the row and its copies in order.
LEMMA CopiesStep ==
    ASSUME IInv, TypeOK', Next
    PROVE  Copy(row)' /\ Copy(snap)' /\ Copy(mem)'
<1> USE DEF IInv, TypeOK
<1>1. ASSUME Copy(row') /\ Copy(snap') /\ Copy(mem')
      PROVE  Copy(row)' /\ Copy(snap)' /\ Copy(mem)'
  BY <1>1, GrowsStep, CopyPrime
<1>2. CASE RecordTx
  <2>1. sent \in TxId /\ sent \in submissions' /\ UNCHANGED chainVars /\ UNCHANGED snap
    BY <1>2 DEF RecordTx, MoveOn, PhaseInv
  <2>2. Copy(snap)'
    BY <2>1, GrowsStep, CopyPrime
  <2>3. txStatus'[sent] # "unsent" /\ txKind'[sent] = BatchKind(pc)
    BY <1>2, <2>1 DEF RecordTx, SentInv, chainVars
  <2>4. ASSUME NEW t \in Row, NEW u \in Row, u = WithTx(t), Copy(t)
        PROVE  Copy(u)'
    <3>0. txKind' = txKind /\ txStatus' = txStatus /\ submissions \subseteq submissions'
      BY <1>2 DEF RecordTx, chainVars
    <3>1. \A tx \in TxRef : Known(tx) => Known(tx)'
      BY <3>0 DEF Known
    <3>2. PacketWriteAckStatus(recvBy)' = PacketWriteAckStatus(recvBy) /\ recvBy' = recvBy
      BY <2>1 DEF PacketWriteAckStatus, CosmosPacketWriteAckStatus, EVMPacketWriteAckStatus, chainVars
    <3>3. \A x \in TxId : x = sent => Known(x)'
      BY <2>1, <2>3 DEF Known
    <3>4. \/ BatchKind(pc) = "timeout" /\ u = [t EXCEPT !.timeout = sent]
          \/ BatchKind(pc) = "recv" /\ u = [t EXCEPT !.recv = sent]
          \/ BatchKind(pc) = "ack" /\ u = [t EXCEPT !.ack = sent]
      BY <1>2, <2>4 DEF RecordTx, WithTx, WithTimeoutTx, WithRecvTx, WithAckTx, BatchKind, PhaseInv, BatchStage
    <3>5. /\ t.recv \in TxRef /\ t.ack \in TxRef /\ t.timeout \in TxRef
          /\ u.status = t.status /\ u.writeAck = t.writeAck /\ u.writeAckStatus = t.writeAckStatus
          /\ u.recv = t.recv \/ (u.recv = sent /\ BatchKind(pc) = "recv")
          /\ u.ack = t.ack \/ (u.ack = sent /\ BatchKind(pc) = "ack")
          /\ u.timeout = t.timeout \/ (u.timeout = sent /\ BatchKind(pc) = "timeout")
      BY <3>4, FieldTypes DEF Row
    <3> HIDE DEF IInv, TypeOK
    <3> QED BY <2>1, <2>3, <2>4, <3>0, <3>1, <3>2, <3>3, <3>5 DEF Copy
  <2>5. row' = WithTx(row) /\ mem' = WithTx(mem)
    BY <1>2 DEF RecordTx
  <2> QED BY <2>2, <2>4, <2>5
<1>3. CASE Relayer /\ ~RecordTx
  BY <1>1, <1>3, RelayerCopies
<1>4. CASE UNCHANGED relayVars
  BY <1>1, <1>4 DEF relayVars
<1> QED BY <1>2, <1>3, <1>4 DEF Next

\* A submitted transaction is of the kind its batch stage submits, until it is recorded.
LEMMA SentStep ==
    ASSUME IInv, Next
    PROVE  SentInv' /\ SubmissionsInv'
<1> USE DEF IInv, TypeOK
<1>1. CASE DeliverTx
  <2>1. nTx + 1 \in TxId
    BY <1>1, ChainAssumption, DeliverTxAny DEF DeliverAny, Broadcast, ChainTypeOK, TxId, TxRef
  <2>2. SentInv'
    BY <1>1, <2>1, DeliverTxAny DEF DeliverAny, Broadcast, SentInv, ChainTypeOK, BatchKind
  <2> QED BY <1>1, <2>2, GrowsStep, DeliverTxAny DEF DeliverAny, SubmissionsInv, Grows
<1>2. CASE RecordTx
  BY <1>2 DEF RecordTx, MoveOn, SentInv, SubmissionsInv, chainVars
<1>3. ASSUME phase' = "sent" => phase = "sent" /\ UNCHANGED <<pc, sent>>, UNCHANGED submissions
      PROVE  SentInv' /\ SubmissionsInv'
  BY <1>3, GrowsStep DEF SentInv, SubmissionsInv, PhaseInv, Grows, BatchKind
<1>4. ASSUME MoveOn \/ Fail
      PROVE  phase' = "enter"
  BY <1>4 DEF MoveOn, Fail
<1>5. CASE Processor
  BY <1>3, <1>4, <1>5 DEF Processor, CheckRecvPacketDelivery, CheckPacketCommitment,
       CheckSendFinality, CheckTimeoutFinality, RetryTimeoutPacket, RetryRecvPacket,
       RetryAckPacket, TimeoutTxGas, RecvTxGas, AckTxGas, WaitForWriteAck,
       CheckWriteAckFinality
<1>6. CASE \/ ProcessError \/ LookupCancelled \/ LeaveBatch \/ DeliverTxError \/ RecordTxError
           \/ StateFinisher \/ StateFinisherError \/ StateFinisherSkip
  BY <1>3, <1>4, <1>6 DEF ProcessError, LookupCancelled, LeaveBatch, DeliverTxError, RecordTxError,
       StateFinisher, StateFinisherError, StateFinisherSkip
<1>7. CASE GetUnfinishedTransfers \/ SubmitTransfer \/ DrainOutput \/ Restart \/ Skip \/ EnterBatch
  BY <1>3, <1>7 DEF GetUnfinishedTransfers, SubmitTransfer, DrainOutput, Restart, Skip,
       EnterBatch, PhaseInv, BatchStage
<1>8. CASE UNCHANGED relayVars
  BY <1>3, <1>8 DEF relayVars
<1> QED BY <1>1, <1>2, <1>5, <1>6, <1>7, <1>8 DEF Next, Relayer, Batch

\* A finished status is written only by StateFinisher, and only when the chains back it.
LEMMA CompletionStep ==
    ASSUME IInv, Next
    PROVE  CompletionIsReal'
<1> USE DEF IInv, TypeOK
<1>1. ASSUME row'.status \in {row.status, InProgress}
      PROVE  CompletionIsReal'
  BY <1>1, GrowsStep DEF CompletionIsReal, Grows, InProgress
<1>2. CASE StateFinisher
  <2>1. row'.status = FinalStatus(mem) /\ pc = "StateFinisher" /\ IsComplete(mem) /\ UNCHANGED chainVars
    BY <1>2 DEF StateFinisher, Finishes, Row
  <2>2. CASE mem.timeout # NoTx
    <3>1. FinalStatus(mem) = "COMPLETE_WITH_TIMEOUT" /\ srcPacket # "committed"
      BY <2>1, <2>2 DEF FinalStatus, PassedInv, AfterRetryTimeout
    <3> QED BY <2>1, <3>1 DEF CompletionIsReal, chainVars
  <2>3. CASE mem.timeout = NoTx /\ mem.ack # NoTx
    <3>1. FinalStatus(mem) = "COMPLETE_WITH_ACK" /\ srcPacket = "acked"
      BY <2>1, <2>3 DEF FinalStatus, PassedInv
    <3> QED BY <2>1, <3>1 DEF CompletionIsReal, chainVars
  <2>4. CASE mem.timeout = NoTx /\ mem.ack = NoTx
    <3>1. /\ recvBy # NoTx /\ mem.writeAckStatus = PacketWriteAckStatus(recvBy)
          /\ mem.writeAckStatus # "NONE" /\ ~ShouldRelayAck(mem.writeAckStatus)
      BY <2>1, <2>4 DEF IsComplete, Copy
    <3>2. CASE mem.writeAckStatus = "SUCCESS"
      <4>1. FinalStatus(mem) = "COMPLETE_WITH_WRITE_ACK_SUCCESS"
        BY <2>4, <3>2 DEF FinalStatus
      <4>2. writeAck # "ERROR" /\ ~RelaySuccessAcks
        BY <3>1, <3>2 DEF ShouldRelayAck, PacketWriteAckStatus, CosmosPacketWriteAckStatus,
             EVMPacketWriteAckStatus
      <4> QED BY <2>1, <3>1, <4>1, <4>2 DEF CompletionIsReal, chainVars
    <3>3. CASE mem.writeAckStatus # "SUCCESS"
      <4>1. FinalStatus(mem) = "COMPLETE_WITH_WRITE_ACK_ERROR"
        BY <2>4, <3>3 DEF FinalStatus
      <4>2. mem.writeAckStatus \in {"ERROR", "UNKNOWN"}
        BY <3>1, <3>3, FieldTypes
      <4>3. writeAck # "SUCCESS" /\ ~RelayErrorAcks
        BY <3>1, <4>2 DEF ShouldRelayAck, PacketWriteAckStatus, CosmosPacketWriteAckStatus,
             EVMPacketWriteAckStatus
      <4> QED BY <2>1, <3>1, <4>1, <4>3 DEF CompletionIsReal, chainVars
    <3> QED BY <3>2, <3>3
  <2> QED BY <2>2, <2>3, <2>4
<1>3. CASE Processor
  <2>1. InState(row) \in Row /\ InState(row).status = InProgress
    BY RowTypes DEF InState, Row
  <2>2. CASE CheckRecvPacketDelivery \/ CheckPacketCommitment \/ CheckSendFinality \/ CheckTimeoutFinality
    BY <1>1, <2>1, <2>2 DEF CheckRecvPacketDelivery, CheckPacketCommitment, CheckSendFinality,
         CheckTimeoutFinality, Row
  <2>3. CASE RetryTimeoutPacket \/ RetryRecvPacket \/ RetryAckPacket
    BY <1>1, <2>1, <2>3 DEF RetryTimeoutPacket, RetryRecvPacket, RetryAckPacket, Row
  <2>4. CASE TimeoutTxGas \/ RecvTxGas \/ AckTxGas \/ CheckWriteAckFinality
    BY <1>1, <2>1, <2>4 DEF TimeoutTxGas, RecvTxGas, AckTxGas, CheckWriteAckFinality, Row
  <2>5. CASE WaitForWriteAck
    BY <1>1, <2>1, <2>5 DEF WaitForWriteAck, Row
  <2> QED BY <1>3, <2>2, <2>3, <2>4, <2>5 DEF Processor
<1>4. CASE ProcessError \/ LookupCancelled \/ DeliverTx \/ DeliverTxError
  <2>1. row' = row \/ row' = InState(row)
    BY <1>4, DeliverTxAny DEF ProcessError, LookupCancelled, DeliverAny, DeliverTxError
  <2> QED BY <1>1, <2>1 DEF InState, Row
<1>5. CASE RecordTx
  <2>1. row'.status = row.status
    BY <1>5 DEF RecordTx, WithTx, WithTimeoutTx, WithRecvTx, WithAckTx, PhaseInv, BatchStage, Row
  <2> QED BY <1>1, <2>1
<1>6. CASE \/ GetUnfinishedTransfers \/ SubmitTransfer \/ DrainOutput \/ Restart \/ Skip
           \/ EnterBatch \/ LeaveBatch \/ RecordTxError \/ StateFinisherError \/ StateFinisherSkip
           \/ UNCHANGED relayVars
  BY <1>1, <1>6 DEF GetUnfinishedTransfers, SubmitTransfer, DrainOutput, Restart, Skip,
       EnterBatch, LeaveBatch, RecordTxError, StateFinisherError, StateFinisherSkip, relayVars
<1> QED BY <1>2, <1>3, <1>4, <1>5, <1>6 DEF Next, Relayer, Batch

\* The invariant holds initially.
LEMMA InvInit ==
    ASSUME Init
    PROVE  IInv
<1>1. TypeOK /\ PhaseInv
  BY TypeInit
<1>2. ChainInv
  <2>1. SourceType = "COSMOS" => sendFinal
    BY Zenon DEF Init, ChainInit
  <2>2. nTx = 0 /\ recvBy = NoTx /\ srcPacket = "committed"
        /\ \A i \in TxId : i > 0 /\ txStatus[i] = "unsent" /\ txKind[i] = "recv"
    BY ChainAssumption DEF Init, ChainInit, TxId
  <2> QED BY <2>1, <2>2 DEF ChainInv
<1>3. Copy(NewRow)
  BY DEF Copy, NewRow, InProgress
<1>4. SentInv /\ PassedInv /\ SubmissionsInv
  BY DEF Init, SentInv, PassedInv, SubmissionsInv, BeforeBatchTimeout, AfterSendFinality, AfterRetryTimeout
<1>5. CompletionIsReal
  BY DEF Init, CompletionIsReal, NewRow, InProgress
<1> QED BY <1>1, <1>2, <1>3, <1>4, <1>5 DEF IInv, Init

\* Every step preserves the invariant.
LEMMA InvStep ==
    ASSUME IInv, [Next]_vars
    PROVE  IInv'
<1>1. CASE Next
  <2>1. TypeOK' /\ PhaseInv'
    BY <1>1, TypeStep, PhaseStep DEF IInv
  <2>2. ChainInv' /\ Grows
    BY <1>1, GrowsStep
  <2> QED BY <1>1, <2>1, <2>2, CopiesStep, SentStep, PassedStep, CompletionStep DEF IInv
<1>2. CASE UNCHANGED vars
  <2> USE <1>2 DEF vars, relayVars, chainVars
  <2>1. TypeOK' /\ PhaseInv'
    BY TypeStep, PhaseStep DEF IInv
  <2>2. ChainInv'
    BY DEF IInv, ChainInv
  <2>3. Copy(row)' /\ Copy(snap)' /\ Copy(mem)'
    <3>1. \A tx : Known(tx)' <=> Known(tx)
      BY DEF Known
    <3>2. PacketWriteAckStatus(recvBy)' = PacketWriteAckStatus(recvBy)
      BY DEF PacketWriteAckStatus, CosmosPacketWriteAckStatus, EVMPacketWriteAckStatus
    <3>3. Copy(row)'
      BY <3>1, <3>2 DEF IInv, Copy
    <3>4. Copy(snap)'
      BY <3>1, <3>2 DEF IInv, Copy
    <3>5. Copy(mem)'
      BY <3>1, <3>2 DEF IInv, Copy
    <3> QED BY <3>3, <3>4, <3>5
  <2>4. SentInv' /\ SubmissionsInv'
    BY DEF IInv, SentInv, SubmissionsInv, BatchKind
  <2>5. PassedInv'
    BY DEF IInv, PassedInv, CheckWriteAckFinalityShouldProcess, ShouldRelayAck
  <2>6. CompletionIsReal'
    BY DEF IInv, CompletionIsReal
  <2> QED BY <2>1, <2>2, <2>3, <2>4, <2>5, <2>6 DEF IInv
<1> QED BY <1>1, <1>2

\* IInv is an invariant of the relayer, whatever its chains do.
THEOREM Invariance == Spec => []IInv
<1>1. Init => IInv
  BY InvInit
<1>2. IInv /\ [Next]_vars => IInv'
  BY InvStep
<1> QED BY <1>1, <1>2, PTL DEF Spec

-----------------------------------------------------------------------------
(* The properties.                                                         *)

\* StateFinisher's verdict on a transfer is backed by the chains: for every pair of chain
\* types, every relaying policy, and any number of retries, restarts and other relayers.
THEOREM CompletionSound == Spec => []CompletionIsReal
<1>1. IInv => CompletionIsReal
  BY DEF IInv
<1> QED BY <1>1, Invariance, PTL

\* WaitForWriteAck's record of a write acknowledgement is right in the row and in every
\* copy, however old.
THEOREM WriteAckSound == Spec => []WriteAckIsReal
<1>1. IInv => WriteAckIsReal
  BY DEF IInv, Copy, WriteAckIsReal
<1> QED BY <1>1, Invariance, PTL

\* Every hash in the row has an effect on the packet or a stored submission.
THEOREM RecordedSound == Spec => []RecordedTxIsKnown
<1>1. IInv => RecordedTxIsKnown
  <2> SUFFICES ASSUME IInv, NEW tx \in {row.recv, row.ack, row.timeout} \ {NoTx}
               PROVE  txStatus[tx] = "effect" \/ tx \in submissions
    BY DEF RecordedTxIsKnown
  <2>1. Copy(row)
    BY DEF IInv
  <2>2. CASE tx = row.recv
    BY <2>1, <2>2 DEF Copy, Known
  <2>3. CASE tx = row.ack
    BY <2>1, <2>3 DEF Copy, Known
  <2>4. CASE tx = row.timeout
    BY <2>1, <2>4 DEF Copy, Known
  <2> QED BY <2>2, <2>3, <2>4
<1> QED BY <1>1, Invariance, PTL

\* The relayer only submits a transaction from a batch stage of its kind, after that
\* stage's ShouldProcess was asked again.
LEMMA SubmitsFromBatch ==
    ASSUME IInv, Next, NEW k, Submits(k)
    PROVE  phase = "batch" /\ pc \in BatchStage /\ BatchKind(pc) = k /\ ShouldProcess(pc, mem)
<1> USE DEF IInv, TypeOK
<1>0. nTx \in Nat /\ nTx' = nTx + 1 /\ nTx' # nTx
  BY DEF Submits, ChainTypeOK, TxRef
<1>1. CASE DeliverTx \/ DeliverTxError
  <2>1. Broadcast(BatchKind(pc)) /\ phase = "batch" /\ ShouldProcess(pc, mem)
    BY <1>0, <1>1, DeliverTxAny DEF DeliverAny, DeliverTxError, chainVars
  <2>2. nTx + 1 \in TxId
    BY <2>1, ChainAssumption DEF Broadcast, ChainTypeOK, TxId, TxRef
  <2>3. txKind'[nTx + 1] = BatchKind(pc)
    BY <2>1, <2>2 DEF Broadcast, ChainTypeOK
  <2> QED BY <2>1, <2>3, <1>0 DEF Submits, PhaseInv
<1>2. CASE ChainNext /\ UNCHANGED relayVars
  <2>1. PICK j \in Kind : OtherRelayer(j)
    BY <1>0, <1>2 DEF ChainNext, LandEffect, LandNoop, LandFailed, CacheExpires, SendBecomesFinal,
         RecvBecomesFinal, LocalClockPasses, DestClockPasses, DestClockPassesFinal
  <2>2. nTx + 1 \in TxId /\ txStatus' = [txStatus EXCEPT ![nTx + 1] = "effect"]
    BY <2>1, ChainAssumption DEF OtherRelayer, ChainTypeOK, TxId, TxRef
  <2>3. txStatus'[nTx'] = "effect"
    BY <1>0, <2>2 DEF ChainTypeOK
  <2> QED BY <2>3 DEF Submits
<1>3. CASE Processor
  BY <1>0, <1>3 DEF Processor, CheckRecvPacketDelivery, CheckPacketCommitment,
       CheckSendFinality, CheckTimeoutFinality, RetryTimeoutPacket, RetryRecvPacket,
       RetryAckPacket, TimeoutTxGas, RecvTxGas, AckTxGas, WaitForWriteAck,
       CheckWriteAckFinality, chainVars
<1>4. CASE \/ GetUnfinishedTransfers \/ SubmitTransfer \/ DrainOutput \/ Restart \/ Skip
           \/ ProcessError \/ LookupCancelled \/ EnterBatch \/ LeaveBatch \/ RecordTx \/ RecordTxError
           \/ StateFinisher \/ StateFinisherError \/ StateFinisherSkip
  BY <1>0, <1>4 DEF GetUnfinishedTransfers, SubmitTransfer, DrainOutput, Restart, Skip,
       ProcessError, LookupCancelled, EnterBatch, LeaveBatch, RecordTx, RecordTxError, StateFinisher,
       StateFinisherError, StateFinisherSkip, chainVars
<1> QED BY <1>1, <1>2, <1>3, <1>4 DEF Next, Relayer, Batch

\* No recv and no timeout is submitted before the packet's send is final.
THEOREM SendFinalitySound == Spec => SubmitAfterSendFinality
<1>1. IInv /\ [Next]_vars => [Submits("recv") \/ Submits("timeout") => sendFinal]_vars
  <2> SUFFICES ASSUME IInv, Next, Submits("recv") \/ Submits("timeout")
               PROVE  sendFinal
    OBVIOUS
  <2>1. pc \in {"BatchRecv", "BatchTimeout"} /\ ShouldProcess(pc, mem)
    BY SubmitsFromBatch DEF BatchStage, BatchKind
  <2>2. mem.recv = NoTx
    BY <2>1 DEF ShouldProcess, BatchRecvPacketShouldProcess, TimeoutPacketShouldProcess
  <2> QED BY <2>1, <2>2 DEF IInv, PassedInv, AfterSendFinality
<1> QED BY <1>1, Invariance, PTL DEF Spec, SubmitAfterSendFinality

\* An ack is submitted only when it is due.
THEOREM AckSubmissionSound == Spec => AckSubmittedWhenDue
<1>1. IInv /\ [Next]_vars =>
        [Submits("ack") => recvBy # NoTx /\ recvFinal
                           /\ ShouldRelayAck(PacketWriteAckStatus(recvBy))]_vars
  <2> SUFFICES ASSUME IInv, Next, Submits("ack")
               PROVE  recvBy # NoTx /\ recvFinal /\ ShouldRelayAck(PacketWriteAckStatus(recvBy))
    OBVIOUS
  <2>1. pc = "BatchAck" /\ ShouldProcess(pc, mem)
    BY SubmitsFromBatch DEF BatchStage, BatchKind
  <2>2. mem.writeAck # NoTx /\ ShouldRelayAck(mem.writeAckStatus)
    BY <2>1 DEF ShouldProcess, BatchAckPacketShouldProcess
  <2>3. recvBy # NoTx /\ mem.writeAckStatus = PacketWriteAckStatus(recvBy)
    BY <2>2 DEF IInv, Copy
  <2>4. recvFinal
    BY <2>1, <2>2 DEF IInv, PassedInv, CheckWriteAckFinalityShouldProcess
  <2> QED BY <2>2, <2>3, <2>4
<1> QED BY <1>1, Invariance, PTL DEF Spec, AckSubmittedWhenDue

\* No timeout is submitted for a transfer whose write acknowledgement is recorded.
THEOREM TimeoutSubmissionSound == Spec => NoTimeoutAfterWriteAck
<1>1. IInv /\ [Next]_vars => [Submits("timeout") => row.writeAck = NoTx]_vars
  <2> SUFFICES ASSUME IInv, Next, Submits("timeout")
               PROVE  row.writeAck = NoTx
    OBVIOUS
  <2>1. pc = "BatchTimeout" /\ ShouldProcess(pc, mem)
    BY SubmitsFromBatch DEF BatchStage, BatchKind
  <2>2. mem.recv = NoTx /\ mem.ack = NoTx /\ mem.timeout = NoTx
    BY <2>1 DEF ShouldProcess, TimeoutPacketShouldProcess
  <2> QED BY <2>1, <2>2 DEF IInv, PassedInv, BeforeBatchTimeout
<1> QED BY <1>1, Invariance, PTL DEF Spec, NoTimeoutAfterWriteAck

\* The row's write acknowledgement is left alone by every step but that of WaitForWriteAck.
LEMMA WriteAckWritten ==
    ASSUME IInv, Next, ~WaitForWriteAck
    PROVE  row'.writeAck = row.writeAck /\ row'.writeAckStatus = row.writeAckStatus
<1> USE DEF IInv, TypeOK, Row, InState
<1>1. CASE UNCHANGED row
  BY <1>1
<1>2. CASE ChainNext /\ UNCHANGED relayVars
  BY <1>1, <1>2 DEF relayVars
<1>3. CASE Processor
  <2>1. CASE CheckRecvPacketDelivery BY <2>1 DEF CheckRecvPacketDelivery
  <2>2. CASE CheckPacketCommitment BY <2>2 DEF CheckPacketCommitment
  <2>3. CASE CheckSendFinality \/ CheckTimeoutFinality \/ CheckWriteAckFinality
    BY <2>3 DEF CheckSendFinality, CheckTimeoutFinality, CheckWriteAckFinality
  <2>4. CASE RetryTimeoutPacket BY <2>4 DEF RetryTimeoutPacket
  <2>5. CASE RetryRecvPacket BY <2>5 DEF RetryRecvPacket
  <2>6. CASE RetryAckPacket BY <2>6 DEF RetryAckPacket
  <2>7. CASE TimeoutTxGas \/ RecvTxGas \/ AckTxGas
    BY <2>7 DEF TimeoutTxGas, RecvTxGas, AckTxGas
  <2> QED BY <1>3, <2>1, <2>2, <2>3, <2>4, <2>5, <2>6, <2>7 DEF Processor
<1>4. CASE DeliverTx \/ DeliverTxError \/ ProcessError \/ LookupCancelled
  BY <1>4, DeliverTxAny DEF DeliverAny, DeliverTxError, ProcessError, LookupCancelled
<1>5. CASE RecordTx
  <2>1. pc \in BatchStage BY <1>5 DEF RecordTx, PhaseInv
  <2> QED BY <1>5, <2>1 DEF RecordTx, WithTx, WithRecvTx, WithAckTx, WithTimeoutTx, BatchStage
<1>6. CASE StateFinisher
  BY <1>6 DEF StateFinisher
<1>7. CASE \/ GetUnfinishedTransfers \/ SubmitTransfer \/ DrainOutput \/ Restart \/ Skip
           \/ EnterBatch \/ LeaveBatch \/ RecordTxError \/ StateFinisherError \/ StateFinisherSkip
  BY <1>1, <1>7 DEF GetUnfinishedTransfers, SubmitTransfer, DrainOutput, Restart, Skip,
       EnterBatch, LeaveBatch, RecordTxError, StateFinisherError, StateFinisherSkip
<1> QED BY <1>2, <1>3, <1>4, <1>5, <1>6, <1>7 DEF Next, Relayer, Batch

\* A write acknowledgement that is recorded stays as it is: what a stale copy would record in its
\* place is, the packet being received once, the same.
THEOREM WriteAckKept == Spec => WriteAckStays
<1>1. IInv /\ [Next]_vars =>
        [row.writeAck # NoTx =>
           row'.writeAck = row.writeAck /\ row'.writeAckStatus = row.writeAckStatus]_vars
  <2> SUFFICES ASSUME IInv, Next, row.writeAck # NoTx
               PROVE  row'.writeAck = row.writeAck /\ row'.writeAckStatus = row.writeAckStatus
    OBVIOUS
  <2>1. CASE WaitForWriteAck
    <3>1. row.writeAck = recvBy /\ row.writeAckStatus = PacketWriteAckStatus(recvBy)
      BY DEF IInv, Copy
    <3>2. row \in Row BY DEF IInv, TypeOK
    <3>3. CASE PacketWriteAckStatus(mem.recv) = "NONE"
      BY <2>1, <3>2, <3>3 DEF WaitForWriteAck, InState, Row
    <3>4. CASE PacketWriteAckStatus(mem.recv) # "NONE"
      <4>1. mem.recv = recvBy
        BY <3>4 DEF PacketWriteAckStatus, CosmosPacketWriteAckStatus, EVMPacketWriteAckStatus
      <4>2. row' = [InState(row) EXCEPT !.writeAck = mem.recv,
                                        !.writeAckStatus = PacketWriteAckStatus(mem.recv)]
        BY <2>1, <3>4 DEF WaitForWriteAck
      <4>3. row'.writeAck = mem.recv /\ row'.writeAckStatus = PacketWriteAckStatus(mem.recv)
        BY <3>2, <4>2 DEF InState, Row
      <4> QED BY <3>1, <4>1, <4>3
    <3> QED BY <3>3, <3>4
  <2> QED BY <2>1, WriteAckWritten
<1> QED BY <1>1, Invariance, PTL DEF Spec, WriteAckStays
=============================================================================
