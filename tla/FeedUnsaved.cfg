\* Writing the file may fail.
SPECIFICATION Spec
CONSTANTS
    n1 = n1
    n2 = n2
    h1 = h1
    h2 = h2
    h3 = h3
    h4 = h4
    Node = {n1, n2}
    Hash = {h1, h2}
    MaxSize = 1
    Votes = {0, 1}
    WriteOutcomes <- MayFail
    Cast <- OneTorrent
    None = None
    Refused = {}
    Foreign <- NoOthers
    MaxClock = 2
    MaxVotes = 1
    MaxStarts = 1
INVARIANTS CleanIsSaved
CHECK_DEADLOCK FALSE
