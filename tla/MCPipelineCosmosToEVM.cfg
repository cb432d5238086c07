\* A COSMOS source that wants error acknowledgements only, an EVM destination, gas tracking, shared lookups.
CONSTANTS
    SourceType = "COSMOS"
    DestType = "EVM"
    OtherRelayers = TRUE
    StaleLookups = FALSE
    MaxTx = 2
    RelaySuccessAcks = FALSE
    RelayErrorAcks = TRUE
    SourceGas = TRUE
    DestGas = TRUE
    SharedLookups = TRUE
SPECIFICATION Spec
PROPERTIES
    ImplementsLifecycle
    ImplementsCustody
\* The system stops once the transfer is finished and everything submitted for it landed.
CHECK_DEADLOCK FALSE
