\* The parts of the Qt program that keep or move its data, one at a time; the plans
\* of the sync, the dumps, and the bounds of the instances are in MCQtData.
SPECIFICATION FairSpec
CONSTANTS
    \* DatabaseSync
    Puller = {"a", "b"}
    Plans <- SyncPlans
    \* DumpExport: an empty index, one that fits the queue, one that does not
    Indexes = {0, 3, 6}
    kReadAhead = 3
    kFrameTorrents = 2
    \* DumpImport
    Dumps <- SomeDumps
    MaxImports = 3
    MaxLost = 1
    \* Migration: installations of two pages and less
    Hash <- SomeHashes
    RowId <- DerivedIds
    BestType <- Class
    Installs <- SomeInstalls
    kPageSize = 2
    MaxFaults = 1
    MaxCrashes = 1
    MaxAdds = 1
    \* TorrentRepository: writers of different rows, queries that succeed
    Client <- Writers
    Infohash <- RepositoryHashes
    rowIdFromHash <- SharedIds
    Filtered = {}
    Sizeless = {"c"}
    Work <- SomeWork
    Outcomes = {TRUE}
    MaxOps = 3
    MaxRejects = 1
    \* Manticore, Updater
    MaxRuns = 3
    MaxDeaths = 2
    MaxChecks = 2
    MaxDownloads = 2
    \* SpiderCrawler: three hashes, one of them known, one fetch at a time
    CrawlHash = {1, 2, 3}
    InDatabase = {2}
    MaxAnnounces = 3
    MaxCrawls = 2
    MAX_CONCURRENT_METADATA_FETCHES = 1
    MAX_RECENT_HASHES = 2
INVARIANTS DataTypeOK PullsSafe DumpsRight RowsRight ProcessesRight
PROPERTIES NoStepBack RepositoryExact AllComesToItsEnd
CHECK_DEADLOCK FALSE
