\* The parts of the native program, one at a time; the instances and their
\* bounds are here, or in MCNative where they are structured.
SPECIFICATION FairSpec
CONSTANTS
    \* Downloads
    Nothing = Nothing
    InfoHash = {"h"}
    Size = 2
    FirstSessions <- Sessions
    MaxStarts = 2
    ClientStarts = {TRUE, FALSE}
    \* TorrentIndex
    IndexHash = {"h1", "h2", "h3"}
    Torrents <- Mixed
    Cap = 1
    Slack = 1
    Batch = 1
    FileIndex = TRUE
    Undeletable = {"h1"}
    MaxFound = 3
    MaxCrashes = 1
    \* SwarmScraper
    SwarmHash = {"h1", "h2"}
    Tracker = {"t1", "t2"}
    MaxSeeders = 1
    MaxRequests = 2
    kMaxConcurrent = 1
    kMaxPoolThreads = 2
    \* Tui
    TuiHash = {1, 2}
    Query = {"p", "q"}
    Matching <- TheirMatches
    Local = {1}
    strict = TRUE
    MaxKeys <- KeysPerTab
    MaxChanges = 1
    \* Batch
    BatchHash = {1, 2, 3, 4}
    Raw <- FourTorrents
    Policies <- FiveFilters
    kBatch = 1
    MaxCommands = 2
    MaxFaults = 1
    \* PeerNode
    Peer = {"p"}
    Us = "us"
    Hash = {"h"}
    Rejected = {}
    Storage = TRUE
    MaxPosts = 2
    MaxFires = 3
    MaxGood = 1
INVARIANTS NativeTypeOK DownloadsAgree IndexAgrees NodeAgrees ScrapesRight ScreenIsRight BatchWhole
PROPERTIES NoStepBack AllComesToItsEnd
CHECK_DEADLOCK FALSE
