\* The relayer alone, with fairness: a transfer that never finishes.
CONSTANTS
    SourceType = "COSMOS"
    DestType = "COSMOS"
    OtherRelayers = FALSE
    StaleLookups = FALSE
    MaxTx = 2
    RelaySuccessAcks = TRUE
    RelayErrorAcks = FALSE
    SourceGas = FALSE
    DestGas = FALSE
    SharedLookups = FALSE
SPECIFICATION FairSpec
PROPERTY EventuallyFinished
\* The system stops once the transfer is finished and everything submitted for it landed.
CHECK_DEADLOCK FALSE
