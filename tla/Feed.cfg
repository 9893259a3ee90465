\* Two nodes, three torrents for two places, a fourth that is refused, answers of
\* another program, one restart; writes succeed.
SPECIFICATION FairSpec
CONSTANTS
    n1 = n1
    n2 = n2
    h1 = h1
    h2 = h2
    h3 = h3
    h4 = h4
    Node = {n1, n2}
    Hash = {h1, h2, h3, h4}
    MaxSize = 2
    Votes = {0, 1}
    WriteOutcomes <- Succeeds
    Cast <- TwoTorrents
    None = None
    Refused = {h4}
    Foreign <- OtherPrograms
    MaxClock = 2
    MaxVotes = 3
    MaxStarts = 1
INVARIANTS DebtScheduled NeverPredated FeedKept
PROPERTIES NeverShrinks ReachesDisk
CHECK_DEADLOCK FALSE
