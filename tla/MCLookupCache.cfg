\* Two callers of one transaction, an error kept for one unit of time and a success for two.
SPECIFICATION FairSpec
CONSTANTS
    c1 = c1
    c2 = c2
    t1 = t1
    Txs = {t1}
    Callers = {c1, c2}
    Onces = {1, 2, 3}
    NoOnce = NoOnce
    SuccessTimeout = 2
    ErrorTimeout = 1
INVARIANT SingleFlight
INVARIANT RetryJustified
PROPERTY LandedIsFound
