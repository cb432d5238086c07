---------------------------- MODULE PacketChains ----------------------------
(***************************************************************************)
(* What the relayer sees of the two chains one packet travels between: the *)
(* packet commitment on the source, the packet receipt and the write       *)
(* acknowledgement on the destination, the transactions that touch them,   *)
(* finality, and the clocks the packet timeout is measured against.  The   *)
(* chains, their mempools and the other relayers are not part of this      *)
(* repository; they are modelled from how the bridge clients under         *)
(* shared/bridges/ibcv2 use them (module BridgeClients holds the clients). *)
(***************************************************************************)
EXTENDS Integers

CONSTANTS
    SourceType,     \* chain type of the source chain, "COSMOS" or "EVM"
    DestType,       \* chain type of the destination chain
    OtherRelayers,  \* TRUE iff other relayers may relay the same packet
    StaleLookups,   \* TRUE iff a cached "not found" may outlive the landing of a transaction
    MaxTx           \* bound on the transactions about this packet

ChainType == {"COSMOS", "EVM"}

ASSUME ChainAssumption ==
    /\ SourceType \in ChainType
    /\ DestType \in ChainType
    /\ OtherRelayers \in BOOLEAN
    /\ StaleLookups \in BOOLEAN
    /\ MaxTx \in Nat

VARIABLES
    nTx,            \* number of transactions broadcast so far
    txKind,         \* what each of them delivers
    txStatus,       \* what became of it
    missing,        \* those in a block that a lookup by hash does not find yet
    srcPacket,      \* the packet on the source chain
    recvBy,         \* the transaction that delivered the packet, or NoTx
    writeAck,       \* the acknowledgement the destination wrote, or "NONE"
    resolvedBy,     \* the transaction that removed the commitment, or NoTx
    sendFinal,      \* the send transaction is final on the source chain
    recvFinal,      \* the transaction recvBy is final on the destination
    localPast,      \* the relayer's clock is past the packet timeout
    destPast,       \* the destination's block time reached the timeout
    destPastFinal   \* ... in a final block

chainVars == <<nTx, txKind, txStatus, missing, srcPacket, recvBy, writeAck, resolvedBy,
               sendFinal, recvFinal, localPast, destPast, destPastFinal>>

packetVars == <<srcPacket, recvBy, writeAck, resolvedBy, recvFinal>>
clockVars  == <<sendFinal, localPast, destPast, destPastFinal>>

NoTx   == 0
TxId   == 1 .. MaxTx
TxRef  == 0 .. MaxTx
Kind   == {"recv", "ack", "timeout"}
Status == {"unsent", "pending", "effect", "noop", "failed"}
Ack    == {"SUCCESS", "ERROR", "OPAQUE"}   \* OPAQUE: not in the standard format

ChainTypeOK ==
    /\ nTx \in TxRef
    /\ txKind \in [TxId -> Kind]
    /\ txStatus \in [TxId -> Status]
    /\ missing \subseteq TxId
    /\ srcPacket \in {"committed", "acked", "timedOut"}
    /\ recvBy \in TxRef
    /\ writeAck \in Ack \cup {"NONE"}
    /\ resolvedBy \in TxRef
    /\ sendFinal \in BOOLEAN /\ recvFinal \in BOOLEAN
    /\ localPast \in BOOLEAN /\ destPast \in BOOLEAN /\ destPastFinal \in BOOLEAN

ChainInit ==
    /\ nTx = 0
    /\ txKind = [i \in TxId |-> "recv"]
    /\ txStatus = [i \in TxId |-> "unsent"] /\ missing = {}
    /\ srcPacket = "committed"
    /\ recvBy = NoTx /\ writeAck = "NONE" /\ resolvedBy = NoTx
    /\ sendFinal = (SourceType = "COSMOS")
    /\ recvFinal = FALSE
    /\ localPast = FALSE /\ destPast = FALSE /\ destPastFinal = FALSE

-----------------------------------------------------------------------------
(* Transactions.                                                           *)

\* A relayer hands a transaction of kind k to the chain's mempool.
Broadcast(k) ==
    /\ nTx < MaxTx
    /\ nTx' = nTx + 1
    /\ txKind' = [txKind EXCEPT ![nTx + 1] = k]
    /\ txStatus' = [txStatus EXCEPT ![nTx + 1] = "pending"]
    /\ UNCHANGED missing

\* The packet is received: receipt and write acknowledgement in one transaction.
\* A transaction of a COSMOS chain is final as soon as it is in a block.
Receive(i) ==
    /\ recvBy = NoTx /\ ~destPast
    /\ recvBy' = i
    /\ writeAck' \in Ack
    /\ recvFinal' = (DestType = "COSMOS")
    /\ UNCHANGED <<srcPacket, resolvedBy>>

\* The acknowledgement is proved to the source, which removes the commitment.
Acknowledge(i) ==
    /\ srcPacket = "committed" /\ recvBy # NoTx
    /\ srcPacket' = "acked" /\ resolvedBy' = i
    /\ UNCHANGED <<recvBy, writeAck, recvFinal>>

\* Absence of a receipt at a destination time past the timeout is proved to the
\* source, which removes the commitment.
TimeOut(i) ==
    /\ srcPacket = "committed" /\ recvBy = NoTx /\ destPast
    /\ srcPacket' = "timedOut" /\ resolvedBy' = i
    /\ UNCHANGED <<recvBy, writeAck, recvFinal>>

Effect(k, i) ==
    \/ k = "recv" /\ Receive(i)
    \/ k = "ack" /\ Acknowledge(i)
    \/ k = "timeout" /\ TimeOut(i)

\* The transaction can execute without doing anything for this packet: the packet
\* was received, or timed out while the batch accumulated, or is resolved.
Redundant(k) ==
    IF k = "recv" THEN recvBy # NoTx \/ destPast ELSE srcPacket # "committed"

\* A transaction that was not found may stay so for a while after it got into a block: the
\* clients cache the answer for some seconds.  For one that failed it makes no difference.
StaysMissing(i) ==
    \/ missing' = missing
    \/ StaleLookups /\ missing' = missing \cup {i}

CacheExpires(i) ==
    /\ i \in missing /\ missing' = missing \ {i}
    /\ UNCHANGED <<nTx, txKind, txStatus, packetVars, clockVars>>

\* A pending transaction gets into a block and has its effect on the packet, ...
LandEffect(i) ==
    /\ txStatus[i] = "pending"
    /\ Effect(txKind[i], i)
    /\ txStatus' = [txStatus EXCEPT ![i] = "effect"] /\ StaysMissing(i)
    /\ UNCHANGED <<nTx, txKind, clockVars>>

\* ... or executes as a no-op for it, ...
LandNoop(i) ==
    /\ txStatus[i] = "pending"
    /\ Redundant(txKind[i])
    /\ txStatus' = [txStatus EXCEPT ![i] = "noop"] /\ StaysMissing(i)
    /\ UNCHANGED <<nTx, txKind, packetVars, clockVars>>

\* ... or fails: reverted, out of gas.
LandFailed(i) ==
    /\ txStatus[i] = "pending"
    /\ txStatus' = [txStatus EXCEPT ![i] = "failed"]
    /\ UNCHANGED <<nTx, txKind, missing, packetVars, clockVars>>

\* Another relayer delivers the packet, its acknowledgement or its timeout.
OtherRelayer(k) ==
    /\ OtherRelayers /\ nTx < MaxTx
    /\ nTx' = nTx + 1
    /\ Effect(k, nTx + 1)
    /\ txKind' = [txKind EXCEPT ![nTx + 1] = k]
    /\ txStatus' = [txStatus EXCEPT ![nTx + 1] = "effect"]
    /\ UNCHANGED <<missing, clockVars>>

-----------------------------------------------------------------------------
(* Finality and time.                                                      *)

SendBecomesFinal ==
    /\ ~sendFinal /\ sendFinal' = TRUE
    /\ UNCHANGED <<nTx, txKind, txStatus, missing, packetVars, localPast, destPast, destPastFinal>>

RecvBecomesFinal ==
    /\ recvBy # NoTx /\ ~recvFinal /\ recvFinal' = TRUE
    /\ UNCHANGED <<nTx, txKind, txStatus, missing, srcPacket, recvBy, writeAck, resolvedBy,
                   clockVars>>

\* The relayer's clock and the destination's block time pass the packet timeout
\* independently of each other.
LocalClockPasses ==
    /\ ~localPast /\ localPast' = TRUE
    /\ UNCHANGED <<nTx, txKind, txStatus, missing, packetVars, sendFinal, destPast, destPastFinal>>

DestClockPasses ==
    /\ ~destPast /\ destPast' = TRUE
    /\ destPastFinal' = (DestType = "COSMOS")
    /\ UNCHANGED <<nTx, txKind, txStatus, missing, packetVars, sendFinal, localPast>>

DestClockPassesFinal ==
    /\ destPast /\ ~destPastFinal /\ destPastFinal' = TRUE
    /\ UNCHANGED <<nTx, txKind, txStatus, missing, packetVars, sendFinal, localPast, destPast>>

ChainNext ==
    \/ \E i \in TxId : LandEffect(i) \/ LandNoop(i) \/ LandFailed(i) \/ CacheExpires(i)
    \/ \E k \in Kind : OtherRelayer(k)
    \/ SendBecomesFinal \/ RecvBecomesFinal
    \/ LocalClockPasses \/ DestClockPasses \/ DestClockPassesFinal

=============================================================================
