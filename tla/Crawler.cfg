\* Three announces of two hashes, two slots, a dedup set of one: eviction,
\* retries, a full pool and a shutdown with fetches in flight all happen.
SPECIFICATION FairSpec
CONSTANTS
    a1 = a1
    a2 = a2
    a3 = a3
    h1 = h1
    h2 = h2
    Announce = {a1, a2, a3}
    Hash = {h1, h2}
    Heard <- ThreeAnnounces
    MaxFetches = 2
    MaxRecent = 1
INVARIANTS FetchBound HandledOnce
PROPERTIES PendingSettles ImplementsLedger
CHECK_DEADLOCK FALSE
