\* Two callers, a transaction that is evicted, fees that are too low.
SPECIFICATION FairSpec
CONSTANTS
    c1 = c1
    c2 = c2
    None = None
    Callers = {c1, c2}
    MaxNonce = 3
    MaxDiff = 1
    MaxEvictions = 1
INVARIANTS
    NoNonceGap
PROPERTIES
    ReplacesOnlyStuck
    SubmitsInTurn
    NonceAdvances
