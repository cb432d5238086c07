\* Two processes that overlap, more submissions than a poll reads, no price client.
SPECIFICATION FairSpec
CONSTANTS
    t1 = t1
    t2 = t2
    Trackers = {t1, t2}
    MaxSub = 2
    BatchSize = 1
    Priced = FALSE
INVARIANTS
    ResolvedIsReal
PROPERTIES
    ResolvedStays
    
    EventuallyResolved
