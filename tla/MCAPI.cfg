\* Two calls at a time, every error, two spellings of a hash.
SPECIFICATION FairSpec
CONSTANTS
    c1 = c1
    c2 = c2
    upper = upper
    lower = lower
    other = other
    t1 = t1
    t2 = t2
    None = None
    Calls = {c1, c2}
    Hash = {upper, lower, other}
    Tx = {t1, t2}
    TxOf <- HashesOf
    Packet = {1, 2, 3, 4}
    PacketsOf <- Sent
    Known = {1, 3, 4}
    Blacklisted = {t2}
INVARIANTS
    AllOrNothing
    AcceptedIsTracked
    StatusComplete
    NoCircularWait
PROPERTY CallsReturn
PROPERTY ImplementsService
