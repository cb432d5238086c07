\* An EVM source that wants success acknowledgements, other relayers, stale lookups.
CONSTANTS
    SourceType = "EVM"
    DestType = "COSMOS"
    OtherRelayers = TRUE
    StaleLookups = TRUE
    MaxTx = 2
    RelaySuccessAcks = TRUE
    RelayErrorAcks = FALSE
    SourceGas = FALSE
    DestGas = FALSE
    SharedLookups = FALSE
SPECIFICATION FairSpec
INVARIANTS
    CompletionIsReal
    WriteAckIsReal
    RecordedTxIsKnown
PROPERTIES
    SubmitAfterSendFinality
    AckSubmittedWhenDue
    NoTimeoutAfterWriteAck
    PacketResolved
\* The system stops once the transfer is finished and everything submitted for it landed.
CHECK_DEADLOCK FALSE
