---------------------- MODULE TransferRefinement_proofs ---------------------
(***************************************************************************)
(* The pipeline implements TransferLifecycle: every step of the relayer or *)
(* of the chains is a step of the abstract specification or changes        *)
(* nothing it speaks of.                                                   *)
(***************************************************************************)
EXTENDS TransferRefinement, TransferPipeline_proofs

-----------------------------------------------------------------------------
(* What the refinement needs beyond IInv.                                  *)

UpToRetryTimeout == {"CheckSendFinality", "CheckTimeoutFinality", "BatchTimeout", "RetryTimeout"}
UpToRetryAck ==
    UpToRetryTimeout \cup
    {"TimeoutTxGas", "BatchRecv", "RetryRecv", "RecvTxGas", "WaitForWriteAck",
     "CheckWriteAckFinality", "CheckPacketCommitment2", "BatchAck", "RetryAck"}
AfterCommitment == UpToRetryAck \cup {"AckTxGas", "StateFinisher"}

\* A copy on its way through the pipeline has put the row back in progress, or one of the
\* retry stages ahead of it will: a final status is never written over another one.
OpenInv ==
    pc \in AfterCommitment =>
        \/ row.status = InProgress
        \/ mem.timeout # NoTx /\ pc \in UpToRetryTimeout
        \/ mem.ack # NoTx /\ pc \in UpToRetryAck

\* There is an acknowledgement only of a packet that was received.
NoReceipt == recvBy = NoTx => writeAck = "NONE"

RInv == IInv /\ OpenInv /\ NoReceipt

\* The stages that lead into AfterCommitment and out of its parts.
LEMMA OpenStages ==
    \A st \in MWStage :
        /\ After(st) \in AfterCommitment => st = "CheckPacketCommitment" \/ st \in AfterCommitment
        /\ st = "CheckPacketCommitment" => After(st) \in UpToRetryTimeout /\ After(st) \in UpToRetryAck
        /\ st \in UpToRetryTimeout => st = "RetryTimeout" \/ After(st) \in UpToRetryTimeout
        /\ st \in UpToRetryAck => st = "RetryAck" \/ After(st) \in UpToRetryAck
<1> SUFFICES ASSUME NEW st \in MWStage
             PROVE  /\ After(st) \in AfterCommitment => st = "CheckPacketCommitment" \/ st \in AfterCommitment
                    /\ st = "CheckPacketCommitment" => After(st) \in UpToRetryTimeout /\ After(st) \in UpToRetryAck
                    /\ st \in UpToRetryTimeout => st = "RetryTimeout" \/ After(st) \in UpToRetryTimeout
                    /\ st \in UpToRetryAck => st = "RetryAck" \/ After(st) \in UpToRetryAck
  OBVIOUS
<1>1. CASE st \in {"CheckRecvPacketDelivery", "CheckPacketCommitment", "CheckSendFinality",
                   "CheckTimeoutFinality", "BatchTimeout", "RetryTimeout"}
  BY <1>1 DEF After, AfterCommitment, UpToRetryTimeout, UpToRetryAck
<1>2. CASE st \in {"TimeoutTxGas", "BatchRecv", "RetryRecv", "RecvTxGas", "WaitForWriteAck"}
  BY <1>2 DEF After, AfterCommitment, UpToRetryTimeout, UpToRetryAck
<1>3. CASE st \in {"CheckWriteAckFinality", "CheckPacketCommitment2", "BatchAck", "RetryAck",
                   "AckTxGas"}
  BY <1>3 DEF After, AfterCommitment, UpToRetryTimeout, UpToRetryAck
<1> QED BY <1>1, <1>2, <1>3 DEF MWStage, BatchStage

\* Only StateFinisher writes a final status; the middleware puts every row a processor
\* runs for back in progress.
LEMMA RowStatusStep ==
    ASSUME IInv, Next
    PROVE  /\ ~StateFinisher => row'.status \in {row.status, InProgress}
           /\ Processor \/ DeliverTx => row'.status = InProgress
<1> USE DEF IInv, TypeOK
<1>0. InState(row) \in Row /\ InState(row).status = InProgress
  BY RowTypes DEF InState, Row
<1>1. CASE Processor
  <2>1. CASE CheckRecvPacketDelivery \/ CheckPacketCommitment \/ CheckSendFinality \/ CheckTimeoutFinality
    BY <1>0, <2>1 DEF CheckRecvPacketDelivery, CheckPacketCommitment, CheckSendFinality,
         CheckTimeoutFinality, Row
  <2>2. CASE RetryTimeoutPacket \/ RetryRecvPacket \/ RetryAckPacket
    BY <1>0, <2>2 DEF RetryTimeoutPacket, RetryRecvPacket, RetryAckPacket, Row
  <2>3. CASE TimeoutTxGas \/ RecvTxGas \/ AckTxGas \/ CheckWriteAckFinality
    BY <1>0, <2>3 DEF TimeoutTxGas, RecvTxGas, AckTxGas, CheckWriteAckFinality, Row
  <2>4. CASE WaitForWriteAck
    BY <1>0, <2>4 DEF WaitForWriteAck, Row
  <2> QED BY <1>1, <2>1, <2>2, <2>3, <2>4 DEF Processor
<1>2. CASE DeliverTx
  BY <1>0, <1>2, DeliverTxAny DEF DeliverAny
<1>3. ASSUME ~StateFinisher, ~Processor, ~DeliverTx
      PROVE  row'.status \in {row.status, InProgress}
  <2>1. CASE ProcessError \/ LookupCancelled \/ DeliverTxError
    BY <1>0, <2>1 DEF ProcessError, LookupCancelled, DeliverTxError
  <2>2. CASE RecordTx
    BY <2>2 DEF RecordTx, WithTx, WithTimeoutTx, WithRecvTx, WithAckTx, PhaseInv, BatchStage, Row
  <2>3. CASE \/ GetUnfinishedTransfers \/ SubmitTransfer \/ DrainOutput \/ Restart \/ Skip
             \/ EnterBatch \/ LeaveBatch \/ RecordTxError \/ StateFinisherError \/ StateFinisherSkip
             \/ UNCHANGED relayVars
    BY <2>3 DEF GetUnfinishedTransfers, SubmitTransfer, DrainOutput, Restart, Skip,
         EnterBatch, LeaveBatch, RecordTxError, StateFinisherError, StateFinisherSkip, relayVars
  <2> QED BY <1>3, <2>1, <2>2, <2>3 DEF Next, Relayer, Batch
<1>4. Processor \/ DeliverTx \/ (~Processor /\ ~DeliverTx)
  OBVIOUS
<1> QED BY <1>1, <1>2, <1>3, <1>4

\* A stage that need not process a transfer leaves it where the row is in progress, or
\* before a retry stage that will process it.
LEMMA OpenSkipped ==
    ASSUME OpenInv, pc \in MWStage, ~ShouldProcess(pc, mem), pc' = After(pc), UNCHANGED <<row, mem>>
    PROVE  OpenInv'
<1>1. pc = "CheckPacketCommitment" => mem.ack # NoTx \/ mem.timeout # NoTx
  BY DEF ShouldProcess, CheckPacketCommitmentShouldProcess
<1>2. pc = "RetryTimeout" => mem.timeout = NoTx
  BY DEF ShouldProcess, RetryTimeoutPacketShouldProcess
<1>3. pc = "RetryAck" => mem.ack = NoTx
  BY DEF ShouldProcess, RetryAckPacketShouldProcess
<1> QED BY <1>1, <1>2, <1>3, OpenStages DEF OpenInv

\* Every step keeps OpenInv.
LEMMA OpenStep ==
    ASSUME IInv, OpenInv, Next
    PROVE  OpenInv'
<1> USE DEF IInv, TypeOK
<1>1. ASSUME pc' \in {"Output", "dropped", "idle", "CheckRecvPacketDelivery"}
      PROVE  OpenInv'
  BY <1>1 DEF OpenInv, AfterCommitment, UpToRetryAck, UpToRetryTimeout
<1>2. ASSUME UNCHANGED <<pc, mem, row>>
      PROVE  OpenInv'
  BY <1>2 DEF OpenInv
<1>3. CASE Processor \/ DeliverTx
  BY <1>3, RowStatusStep DEF OpenInv
<1>4. CASE DrainOutput \/ Restart \/ ProcessError \/ LookupCancelled \/ DeliverTxError \/ RecordTxError \/ StateFinisherError
  BY <1>1, <1>4 DEF DrainOutput, Restart, ProcessError, LookupCancelled, DeliverTxError, RecordTxError,
       StateFinisherError, Fail
<1>5. CASE StateFinisher \/ StateFinisherSkip
  <2>1. pc' = "Output"
    BY <1>5 DEF StateFinisher, StateFinisherSkip, Finishes, MoveOn, After
  <2> QED BY <1>1, <2>1
<1>6. CASE Skip
  BY <1>6, OpenSkipped DEF Skip, Skipped, Copy
<1>7. CASE LeaveBatch
  BY <1>7, OpenSkipped DEF LeaveBatch, MoveOn, PhaseInv, MWStage
<1>8. CASE SubmitTransfer
  BY <1>1, <1>2, <1>8 DEF SubmitTransfer
<1>9. CASE GetUnfinishedTransfers \/ EnterBatch \/ UNCHANGED relayVars
  BY <1>2, <1>9 DEF GetUnfinishedTransfers, EnterBatch, relayVars
<1>10. CASE RecordTx
  <2>1. \/ pc = "BatchTimeout" /\ pc' = "RetryTimeout" /\ mem' = [mem EXCEPT !.timeout = sent]
        \/ pc = "BatchRecv" /\ pc' = "RetryRecv" /\ mem' = [mem EXCEPT !.recv = sent]
        \/ pc = "BatchAck" /\ pc' = "RetryAck" /\ mem' = [mem EXCEPT !.ack = sent]
    BY <1>10 DEF RecordTx, MoveOn, WithTx, WithTimeoutTx, WithRecvTx, WithAckTx, After, PhaseInv, BatchStage
  <2>2. row'.status = row.status
    BY <1>10 DEF RecordTx, WithTx, WithTimeoutTx, WithRecvTx, WithAckTx, PhaseInv, BatchStage, Row
  <2>3. sent # NoTx
    BY <1>10, ChainAssumption DEF RecordTx, PhaseInv, TxId, NoTx
  <2>4. CASE pc = "BatchTimeout"
    BY <2>1, <2>3, <2>4 DEF OpenInv, UpToRetryTimeout, Row
  <2>5. CASE pc = "BatchRecv"
    <3>1. mem'.ack = mem.ack /\ pc' = "RetryRecv"
      BY <2>1, <2>5 DEF Row
    <3> QED BY <2>2, <2>5, <3>1 DEF OpenInv, AfterCommitment, UpToRetryAck, UpToRetryTimeout
  <2>6. CASE pc = "BatchAck"
    BY <2>1, <2>3, <2>6 DEF OpenInv, UpToRetryAck, Row
  <2> QED BY <2>1, <2>4, <2>5, <2>6
<1> QED BY <1>3, <1>4, <1>5, <1>6, <1>7, <1>8, <1>9, <1>10 DEF Next, Relayer, Batch

-----------------------------------------------------------------------------
(* The mapped variables.                                                   *)

\* Without a step of the chains a row that keeps its status, or is put back in progress,
\* is a stutter or a Reopen.
LEMMA KeepsOrReopens ==
    ASSUME TypeOK, UNCHANGED chainVars, row'.status \in {row.status, InProgress}
    PROVE  Lifecycle!Next \/ UNCHANGED Lifecycle!vars
<1>1. InFlight' = InFlight /\ UNCHANGED <<srcPacket, writeAck, sendFinal, recvFinal>>
  BY DEF InFlight, Pending, chainVars
<1>2. Reported' = Reported \/ (Reported # "OPEN" /\ Reported' = "OPEN")
  BY DEF Reported, Finished, InProgress
<1>3. CASE Reported' = Reported
  BY <1>1, <1>3 DEF Lifecycle!vars
<1>4. CASE Reported # "OPEN" /\ Reported' = "OPEN"
  BY <1>1, <1>4 DEF Lifecycle!Next, Lifecycle!Reopen
<1> QED BY <1>2, <1>3, <1>4

\* What the clients read is the status of the acknowledgement that was written.
LEMMA StatusRead ==
    ASSUME TypeOK, ChainInv, recvBy # NoTx
    PROVE  writeAck \in Ack /\ PacketWriteAckStatus(recvBy) = AckStatus(writeAck)
BY DEF TypeOK, ChainTypeOK, ChainInv, PacketWriteAckStatus, CosmosPacketWriteAckStatus,
     EVMPacketWriteAckStatus, AckStatus, Ack

\* What StateFinisher writes is open and justified.
LEMMA FinishMaps ==
    ASSUME IInv, OpenInv, StateFinisher
    PROVE  \E s \in Lifecycle!Outcome : Lifecycle!Finish(s)
<1> USE DEF IInv, TypeOK
<1>1. /\ row'.status = FinalStatus(mem) /\ pc = "StateFinisher" /\ IsComplete(mem)
      /\ UNCHANGED chainVars
  BY DEF StateFinisher, Finishes, Row
<1>2. Reported = "OPEN"
  BY <1>1 DEF OpenInv, AfterCommitment, UpToRetryAck, UpToRetryTimeout, Reported, Finished, InProgress
<1>3. FinalStatus(mem) \in Lifecycle!Outcome /\ Reported' = FinalStatus(mem)
  BY <1>1 DEF FinalStatus, Lifecycle!Outcome, Reported, Finished
<1>4. InFlight' = InFlight /\ UNCHANGED <<srcPacket, writeAck, sendFinal, recvFinal>>
  BY <1>1 DEF InFlight, Pending, chainVars
<1>5. Lifecycle!Justified(FinalStatus(mem))
  <2>1. CASE mem.timeout # NoTx
    BY <1>1, <2>1 DEF FinalStatus, PassedInv, AfterRetryTimeout, Lifecycle!Justified
  <2>2. CASE mem.timeout = NoTx /\ mem.ack # NoTx
    BY <1>1, <2>2 DEF FinalStatus, PassedInv, Lifecycle!Justified
  <2>3. CASE mem.timeout = NoTx /\ mem.ack = NoTx
    <3>1. /\ recvBy # NoTx /\ mem.writeAckStatus = PacketWriteAckStatus(recvBy)
          /\ ~ShouldRelayAck(mem.writeAckStatus)
      BY <1>1, <2>3 DEF IsComplete, Copy
    <3>2. writeAck \in Ack \ WantedAcks
      BY <3>1, StatusRead DEF WantedAcks
    <3>3. FinalStatus(mem) \in {"COMPLETE_WITH_WRITE_ACK_SUCCESS", "COMPLETE_WITH_WRITE_ACK_ERROR"}
      BY <2>3 DEF FinalStatus
    <3> QED BY <3>2, <3>3 DEF Lifecycle!Justified
  <2> QED BY <2>1, <2>2, <2>3
<1> QED BY <1>2, <1>3, <1>4, <1>5 DEF Lifecycle!Finish

\* A transaction leaves a batch stage only when it is due.
LEMMA BatchIsDue ==
    ASSUME IInv, phase = "batch", ShouldProcess(pc, mem)
    PROVE  BatchKind(pc) \in Lifecycle!Kind /\ Lifecycle!Due(BatchKind(pc))
<1> USE DEF IInv, TypeOK
<1>1. pc \in BatchStage
  BY DEF PhaseInv
<1>2. CASE pc \in {"BatchTimeout", "BatchRecv"}
  <2>1. mem.recv = NoTx
    BY <1>2 DEF ShouldProcess, BatchRecvPacketShouldProcess, TimeoutPacketShouldProcess
  <2> QED BY <1>2, <2>1 DEF PassedInv, AfterSendFinality, BatchKind, Lifecycle!Kind, Lifecycle!Due
<1>3. CASE pc = "BatchAck"
  <2>1. mem.writeAck # NoTx /\ ShouldRelayAck(mem.writeAckStatus)
    BY <1>3 DEF ShouldProcess, BatchAckPacketShouldProcess
  <2>2. recvBy # NoTx /\ mem.writeAckStatus = PacketWriteAckStatus(recvBy)
    BY <2>1 DEF Copy
  <2>3. recvFinal
    BY <1>3, <2>1 DEF PassedInv, CheckWriteAckFinalityShouldProcess
  <2>4. writeAck \in WantedAcks
    BY <2>1, <2>2, StatusRead DEF WantedAcks
  <2> QED BY <1>3, <2>3, <2>4 DEF BatchKind, Lifecycle!Kind, Lifecycle!Due
<1> QED BY <1>1, <1>2, <1>3 DEF BatchStage

\* A broadcast from a batch stage is a Submit.
LEMMA SubmitMaps ==
    ASSUME IInv, phase = "batch", ShouldProcess(pc, mem), row' = InState(row),
           Broadcast(BatchKind(pc)), UNCHANGED <<packetVars, clockVars>>
    PROVE  \E k \in Lifecycle!Kind : Lifecycle!Submit(k)
<1> DEFINE k == BatchKind(pc)
<1> USE DEF IInv, TypeOK
<1>1. k \in Lifecycle!Kind /\ Lifecycle!Due(k)
  BY BatchIsDue
<1>2. Reported' = "OPEN"
  BY DEF InState, Row, Reported, Finished, InProgress
<1>3. nTx + 1 \in TxId /\ txStatus[nTx + 1] = "unsent"
  BY ChainAssumption DEF Broadcast, ChainTypeOK, ChainInv, TxId, TxRef
<1>4. Pending' = Pending \cup {nTx + 1}
  BY <1>3 DEF Broadcast, Pending, ChainTypeOK
<1>5. \A i \in Pending : txKind'[i] = txKind[i]
  BY <1>3 DEF Broadcast, Pending, ChainTypeOK
<1>6. txKind'[nTx + 1] = k
  BY <1>3 DEF Broadcast, ChainTypeOK
<1>7. InFlight' = InFlight \cup {k}
  BY <1>4, <1>5, <1>6 DEF InFlight
<1> HIDE DEF k
<1> QED BY <1>1, <1>2, <1>7 DEF Lifecycle!Submit, packetVars, clockVars

\* An effect on the packet is a Receive or a Resolve, if what is in flight only shrinks.
LEMMA EffectMaps ==
    ASSUME TypeOK, ChainInv, NoReceipt, NEW j, NEW i \in TxId, Effect(j, i),
           InFlight' \subseteq InFlight, UNCHANGED <<relayVars, clockVars>>
    PROVE  Lifecycle!Next
<1>1. Lifecycle!Land
  BY DEF Lifecycle!Land, Reported, relayVars, clockVars
<1>2. CASE Receive(i)
  <2>1. srcPacket = "committed" /\ writeAck = "NONE"
    BY <1>2 DEF Receive, ChainInv, NoReceipt, TypeOK, ChainTypeOK
  <2>2. writeAck' \in Ack /\ recvFinal' \in BOOLEAN /\ UNCHANGED srcPacket
    BY <1>2 DEF Receive
  <2> QED BY <1>1, <2>1, <2>2 DEF Lifecycle!Next, Lifecycle!Receive
<1>3. CASE Acknowledge(i)
  BY <1>1, <1>3 DEF Acknowledge, ChainInv, Lifecycle!Next, Lifecycle!Resolve
<1>4. CASE TimeOut(i)
  BY <1>1, <1>4 DEF TimeOut, NoReceipt, Lifecycle!Next, Lifecycle!Resolve
<1> QED BY <1>2, <1>3, <1>4 DEF Effect

\* A pending transaction that lands is no longer in flight.
LEMMA LandingShrinks ==
    ASSUME TypeOK, NEW i \in TxId, NEW st \in Status \ {"pending"},
           txStatus' = [txStatus EXCEPT ![i] = st], UNCHANGED txKind
    PROVE  InFlight' \subseteq InFlight
<1>1. Pending' \subseteq Pending
  BY DEF Pending, TypeOK, ChainTypeOK
<1> QED BY <1>1 DEF InFlight

\* Every step of the chains maps to a step of the abstract chains or to a stutter.
LEMMA ChainMaps ==
    ASSUME TypeOK, ChainInv, NoReceipt, ChainNext, UNCHANGED relayVars
    PROVE  Lifecycle!Next \/ UNCHANGED Lifecycle!vars
<1>0. Reported' = Reported
  BY DEF Reported, relayVars
<1>1. ASSUME NEW i \in TxId, LandEffect(i)
      PROVE  Lifecycle!Next
  <2>1. InFlight' \subseteq InFlight
    BY <1>1, LandingShrinks DEF LandEffect, Status
  <2> QED BY <1>1, <2>1, EffectMaps DEF LandEffect
<1>2. ASSUME NEW i \in TxId, LandNoop(i) \/ LandFailed(i)
      PROVE  Lifecycle!Next
  <2>1. InFlight' \subseteq InFlight
    BY <1>2, LandingShrinks DEF LandNoop, LandFailed, Status
  <2> QED BY <1>0, <1>2, <2>1 DEF LandNoop, LandFailed, packetVars, clockVars, Lifecycle!Next,
            Lifecycle!LandWithoutEffect, Lifecycle!Land
<1>3. ASSUME NEW k \in Kind, OtherRelayer(k)
      PROVE  Lifecycle!Next
  <2>1. nTx + 1 \in TxId
    BY <1>3, ChainAssumption DEF OtherRelayer, TypeOK, ChainTypeOK, TxId, TxRef
  <2>2. Pending' \subseteq Pending /\ \A i \in Pending' : txKind'[i] = txKind[i]
    BY <1>3, <2>1 DEF OtherRelayer, Pending, TypeOK, ChainTypeOK
  <2>3. InFlight' \subseteq InFlight
    BY <2>2 DEF InFlight
  <2> QED BY <1>3, <2>1, <2>3, EffectMaps DEF OtherRelayer
<1>4. CASE SendBecomesFinal \/ RecvBecomesFinal
  <2>1. InFlight' = InFlight /\ UNCHANGED <<srcPacket, writeAck>>
    BY <1>4 DEF SendBecomesFinal, RecvBecomesFinal, packetVars, InFlight, Pending
  <2>2. \/ sendFinal' = TRUE /\ UNCHANGED recvFinal
        \/ writeAck # "NONE" /\ recvFinal' = TRUE /\ UNCHANGED sendFinal
    BY <1>4 DEF SendBecomesFinal, RecvBecomesFinal, packetVars, clockVars, ChainInv
  <2> QED BY <1>0, <2>1, <2>2 DEF Lifecycle!Next, Lifecycle!BecomeFinal
<1>5. ASSUME UNCHANGED <<txKind, txStatus, packetVars, sendFinal>>
      PROVE  UNCHANGED Lifecycle!vars
  BY <1>0, <1>5 DEF packetVars, InFlight, Pending, Lifecycle!vars
<1>6. CASE \/ LocalClockPasses \/ DestClockPasses \/ DestClockPassesFinal
           \/ \E i \in TxId : CacheExpires(i)
  BY <1>5, <1>6 DEF LocalClockPasses, DestClockPasses, DestClockPassesFinal, CacheExpires, clockVars
<1> QED BY <1>1, <1>2, <1>3, <1>4, <1>6 DEF ChainNext

-----------------------------------------------------------------------------
(* The refinement.                                                         *)

\* Every step of the pipeline and its chains is one of the abstract specification, or
\* changes nothing it speaks of.
LEMMA NextMaps ==
    ASSUME RInv, Next
    PROVE  Lifecycle!Next \/ UNCHANGED Lifecycle!vars
<1> USE DEF RInv, IInv
<1>1. CASE StateFinisher
  BY <1>1, FinishMaps DEF Lifecycle!Next
<1>2. CASE DeliverTx
  BY <1>2, DeliverTxAny, SubmitMaps DEF DeliverAny, Lifecycle!Next
<1>3. CASE DeliverTxError
  <2>1. CASE UNCHANGED chainVars
    BY <1>3, <2>1, KeepsOrReopens DEF DeliverTxError, InState, TypeOK, Row
  <2>2. CASE ~UNCHANGED chainVars
    BY <1>3, <2>2, SubmitMaps DEF DeliverTxError, Lifecycle!Next
  <2> QED BY <2>1, <2>2
<1>4. CASE ChainNext /\ UNCHANGED relayVars
  BY <1>4, ChainMaps
<1>5. ASSUME ~StateFinisher, UNCHANGED chainVars
      PROVE  Lifecycle!Next \/ UNCHANGED Lifecycle!vars
  BY <1>5, RowStatusStep, KeepsOrReopens
<1>6. CASE Processor
  BY <1>1, <1>5, <1>6 DEF Processor, CheckRecvPacketDelivery, CheckPacketCommitment,
       CheckSendFinality, CheckTimeoutFinality, RetryTimeoutPacket, RetryRecvPacket,
       RetryAckPacket, TimeoutTxGas, RecvTxGas, AckTxGas, WaitForWriteAck,
       CheckWriteAckFinality
<1>7. CASE \/ GetUnfinishedTransfers \/ SubmitTransfer \/ DrainOutput \/ Restart \/ Skip
           \/ ProcessError \/ LookupCancelled \/ EnterBatch \/ LeaveBatch \/ RecordTx \/ RecordTxError
           \/ StateFinisherError \/ StateFinisherSkip
  BY <1>1, <1>5, <1>7 DEF GetUnfinishedTransfers, SubmitTransfer, DrainOutput, Restart, Skip,
       ProcessError, LookupCancelled, EnterBatch, LeaveBatch, RecordTx, RecordTxError, StateFinisherError,
       StateFinisherSkip
<1> QED BY <1>1, <1>2, <1>3, <1>4, <1>6, <1>7 DEF Next, Relayer, Batch

\* The strengthened invariant holds initially, ...
LEMMA RInvInit ==
    ASSUME Init
    PROVE  RInv
BY InvInit DEF RInv, Init, ChainInit, OpenInv, NoReceipt, AfterCommitment, UpToRetryAck, UpToRetryTimeout

\* An acknowledgement is written when the packet is received.
LEMMA NoReceiptStep ==
    ASSUME IInv, NoReceipt, Next
    PROVE  NoReceipt'
<1> USE DEF NoReceipt
<1>1. CASE UNCHANGED <<recvBy, writeAck>>
  BY <1>1
<1>2. CASE ChainNext
  <2>1. ASSUME NEW k, NEW i \in TxId, Effect(k, i)
        PROVE  NoReceipt'
    BY <2>1, ChainAssumption DEF Effect, Receive, Acknowledge, TimeOut, TxId, NoTx
  <2>2. ASSUME NEW k \in Kind, OtherRelayer(k)
        PROVE  NoReceipt'
    <3>1. nTx + 1 \in TxId
      BY <2>2, ChainAssumption DEF OtherRelayer, IInv, TypeOK, ChainTypeOK, TxId, TxRef
    <3> QED BY <2>1, <2>2, <3>1 DEF OtherRelayer
  <2>3. ASSUME NEW i \in TxId, LandEffect(i)
        PROVE  NoReceipt'
    BY <2>1, <2>3 DEF LandEffect
  <2> QED BY <1>1, <1>2, <2>2, <2>3 DEF ChainNext, LandNoop, LandFailed, CacheExpires,
            SendBecomesFinal, RecvBecomesFinal, LocalClockPasses, DestClockPasses,
            DestClockPassesFinal, packetVars
<1>3. CASE UNCHANGED chainVars \/ UNCHANGED packetVars
  BY <1>1, <1>3 DEF chainVars, packetVars
<1>4. CASE DeliverTx \/ DeliverTxError
  BY <1>3, <1>4, DeliverTxAny DEF DeliverAny, DeliverTxError
<1>5. CASE Processor
  BY <1>3, <1>5 DEF Processor, CheckRecvPacketDelivery, CheckPacketCommitment,
       CheckSendFinality, CheckTimeoutFinality, RetryTimeoutPacket, RetryRecvPacket,
       RetryAckPacket, TimeoutTxGas, RecvTxGas, AckTxGas, WaitForWriteAck,
       CheckWriteAckFinality
<1>6. CASE \/ GetUnfinishedTransfers \/ SubmitTransfer \/ DrainOutput \/ Restart \/ Skip
           \/ ProcessError \/ LookupCancelled \/ EnterBatch \/ LeaveBatch \/ RecordTx \/ RecordTxError
           \/ StateFinisher \/ StateFinisherError \/ StateFinisherSkip
  BY <1>3, <1>6 DEF GetUnfinishedTransfers, SubmitTransfer, DrainOutput, Restart, Skip,
       ProcessError, LookupCancelled, EnterBatch, LeaveBatch, RecordTx, RecordTxError, StateFinisher,
       StateFinisherError, StateFinisherSkip
<1> QED BY <1>2, <1>4, <1>5, <1>6 DEF Next, Relayer, Batch

\* ... and every step preserves it.
LEMMA RInvStep ==
    ASSUME RInv, [Next]_vars
    PROVE  RInv'
<1>1. IInv'
  BY InvStep DEF RInv
<1>2. CASE Next
  <2>1. NoReceipt'
    BY <1>2, NoReceiptStep DEF RInv
  <2> QED BY <1>1, <1>2, <2>1, OpenStep DEF RInv
<1>3. CASE UNCHANGED vars
  BY <1>1, <1>3 DEF RInv, OpenInv, NoReceipt, vars, relayVars, chainVars
<1> QED BY <1>2, <1>3

\* The initial states map to initial states.
LEMMA InitMaps ==
    ASSUME Init
    PROVE  Lifecycle!Init
<1>1. TypeOK
  BY TypeInit
<1>2. Pending = {}
  BY DEF Init, ChainInit, Pending
<1>3. InFlight = {} /\ Reported = "OPEN"
  BY <1>2 DEF Init, NewRow, InFlight, Reported, Finished, InProgress
<1> QED BY <1>1, <1>3 DEF Init, ChainInit, TypeOK, ChainTypeOK, Lifecycle!Init

\* The pipeline implements TransferLifecycle, for every pair of chain types, every relaying
\* policy and any number of transactions, retries, restarts and other relayers: what it
\* submits is due when it submits it, and StateFinisher reports only what the chains bear
\* out, never over another outcome.
THEOREM Refinement == Spec => ImplementsLifecycle
<1>1. Init => RInv /\ Lifecycle!Init
  BY RInvInit, InitMaps
<1>2. RInv /\ [Next]_vars => RInv'
  BY RInvStep
<1>3. RInv /\ [Next]_vars => [Lifecycle!Next]_(Lifecycle!vars)
  <2> SUFFICES ASSUME RInv, [Next]_vars
               PROVE  Lifecycle!Next \/ UNCHANGED Lifecycle!vars
    OBVIOUS
  <2>1. CASE UNCHANGED vars
    BY <2>1 DEF vars, relayVars, chainVars, Lifecycle!vars, InFlight, Pending, Reported
  <2> QED BY <2>1, NextMaps
<1> QED BY <1>1, <1>2, <1>3, PTL DEF Spec, ImplementsLifecycle, Lifecycle!Spec

-----------------------------------------------------------------------------
(* Custody.                                                                *)

\* The stages are followed by stages.
LEMMA AfterIsInside == \A st \in MWStage \cup {"StateFinisher"} : After(st) # "idle"
BY DEF After, MWStage, BatchStage

\* A step inside the pipeline: the copy stays there and the row may be written.
LEMMA InsideWrites ==
    ASSUME pc # "idle", pc' # "idle", UNCHANGED polled
    PROVE  Custody!Next
<1>1. Custody!Write(Transfer)
  BY DEF Custody!Write, If
<1> QED BY <1>1 DEF Custody!Next

\* Every step is one that TransferCustody allows, or nothing to it.
LEMMA CustodyMaps ==
    ASSUME IInv, [Next]_vars
    PROVE  [Custody!Next]_(Custody!vars)
<1> USE DEF IInv
<1>1. CASE GetUnfinishedTransfers
  <2>1. Custody!Poll
    BY <1>1 DEF GetUnfinishedTransfers, Custody!Poll, If
  <2> QED BY <2>1 DEF Custody!Next
<1>2. CASE SubmitTransfer
  <2>1. Custody!Enter(Transfer) \/ Custody!Drop(Transfer)
    BY <1>2 DEF SubmitTransfer, Custody!Enter, Custody!Drop, If
  <2> QED BY <2>1 DEF Custody!Next
<1>3. CASE DrainOutput
  <2>1. Custody!Leave(Transfer)
    BY <1>3 DEF DrainOutput, Custody!Leave, If
  <2> QED BY <2>1 DEF Custody!Next
<1>4. CASE Restart
  <2>1. Custody!Restart
    BY <1>4 DEF Restart, Custody!Restart, If
  <2> QED BY <2>1 DEF Custody!Next
<1>5. ASSUME pc \in MWStage \cup {"StateFinisher"}, MoveOn \/ Fail PROVE Custody!Next
  <2>1. pc # "idle" /\ UNCHANGED polled BY <1>5 DEF MWStage, BatchStage, MoveOn, Fail
  <2>2. pc' # "idle" BY <1>5, AfterIsInside DEF MoveOn, Fail
  <2> QED BY <2>1, <2>2, InsideWrites
<1>6. CASE Skip
  <2>1. pc # "idle" /\ pc' # "idle" /\ UNCHANGED polled
    BY <1>6, AfterIsInside DEF Skip, MWStage, BatchStage
  <2> QED BY <2>1, InsideWrites
<1>7. CASE Processor
  <2>1. pc \in MWStage /\ (MoveOn \/ Fail)
    BY <1>7 DEF Processor, CheckRecvPacketDelivery, CheckPacketCommitment,
         CheckSendFinality, CheckTimeoutFinality, RetryTimeoutPacket, RetryRecvPacket,
         RetryAckPacket, TimeoutTxGas, RecvTxGas, AckTxGas, WaitForWriteAck,
         CheckWriteAckFinality, Runs, MWStage
  <2> QED BY <1>5, <2>1
<1>12. CASE LookupCancelled
  <2>1. pc # "idle" /\ pc' # "idle" /\ UNCHANGED polled BY <1>12 DEF LookupCancelled, LookupStage
  <2> QED BY <2>1, InsideWrites
<1>8. CASE ProcessError \/ StateFinisher \/ StateFinisherError \/ StateFinisherSkip
  BY <1>5, <1>8 DEF ProcessError, StateFinisher, StateFinisherError, StateFinisherSkip, Finishes
<1>9. CASE LeaveBatch \/ DeliverTxError \/ RecordTx \/ RecordTxError
  <2>1. pc \in MWStage BY <1>9 DEF LeaveBatch, DeliverTxError, RecordTx, RecordTxError, PhaseInv, MWStage
  <2> QED BY <1>5, <1>9, <2>1 DEF LeaveBatch, DeliverTxError, RecordTx, RecordTxError
<1>10. CASE EnterBatch \/ DeliverTx
  <2>1. pc # "idle" /\ UNCHANGED <<pc, polled>>
    BY <1>10, DeliverTxAny DEF EnterBatch, DeliverAny, BatchStage, PhaseInv
  <2> QED BY <2>1, InsideWrites
<1>11. CASE UNCHANGED relayVars
  BY <1>11 DEF relayVars, Custody!vars
<1> QED
  BY <1>1, <1>2, <1>3, <1>4, <1>6, <1>7, <1>8, <1>9, <1>10, <1>11, <1>12
  DEF Next, Relayer, Batch, vars

\* The pipeline implements TransferCustody, whatever fails, is retried or restarted.  Together
\* with DispatcherKeepsCustody: what this module takes for granted of the dispatcher is what
\* module RelayDispatcher provides.
THEOREM PipelineKeepsCustody == Spec => ImplementsCustody
<1>1. Init => Custody!Init
  BY DEF Init, Custody!Init, If
<1>2. IInv /\ [Next]_vars => [Custody!Next]_(Custody!vars)
  BY CustodyMaps
<1> QED BY <1>1, <1>2, Invariance, PTL DEF Spec, ImplementsCustody, Custody!Spec
=============================================================================
