\* The parts of the Qt program that face peers, trackers, clients and the user,
\* one at a time; what is asked and answered is in MCQtNet.
SPECIFICATION Spec
CONSTANTS
    \* DownloadService, TorrentExport: two torrents
    InfoHash = {"a", "b"}
    MaxCommands = 3
    MaxSessions = 2
    ExportHash = {"a", "b"}
    MaxExports = 3
    \* VotedFeed: three torrents, one of them blocked, and another voter
    Voter = {"p"}
    Us = "us"
    Indexed = {"a", "b", "c"}
    Blocked = {"c"}
    MaxVotes = 2
    MaxRuns = 2
    maxSize = 1
    \* Transport: two peers that come and go, one message type
    Peer = {"p", "q"}
    Type = {"search"}
    MaxTransports = 2
    MaxLinks = 2
    MaxMessages = 1
    MaxSharingToggles = 1
    \* PeerExchange: two nodes, of which one asks
    Node = {"a", "b"}
    ExchangeHash = {"h"}
    Filtered <- NothingRefused
    InitRows <- FirstRows
    InitFeeds <- FirstFeeds
    Active = {"b"}
    MaxAsks = 4
    kBusyThreshold = 0
    \* TrackerService: two torrents, two trackers, one slot in either scraper
    TrackedHash = {"h1", "h2"}
    Tracker = {"t1", "t2"}
    Page <- Pages
    MaxSeeders = 1
    MaxChecks = 2
    MaxToggles = 1
    kMaxSwarms = 1
    kMaxSites = 1
    kMaxPoolThreads = 1
    \* RestApi: an HTTP and a WebSocket client with one request each
    Conn = {"http", "ws"}
    Http = {"http"}
    ApiHash = {"h"}
    Rejected = {}
    Questions <- Asked
    MaxCalls = 2
    MaxDownloads = 1
    MaxServers = 1
    \* MainWindow
    WindowHash = {"h1", "h2"}
    Query = {"p", "q"}
    Matching <- Named
    FileMatching <- FileNamed
    HashQuery <- HashNamed
    Local = {"h2"}
    Downloading <- FinishedOne
    Copies <- OfOthers
    MaxActs = 3
    MaxEvents = 1
INVARIANTS PeersTypeOK DownloadsRight NodesRight ScrapesAccounted RespondOnce WindowIsRight
PROPERTY KeepsTheBest
CHECK_DEADLOCK FALSE
