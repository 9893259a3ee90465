\* A torrent crawled with its files, then received again from a feed without them.
SPECIFICATION IndexSpec
CONSTANTS
    h1 = h1
    h2 = h2
    h3 = h3
    IndexHash = {h1}
    Torrents <- CrawledOrFeed
    Cap = 1
    Slack = 1
    Batch = 1
    FileIndex = TRUE
    Undeletable = {}
    MaxFound = 2
    MaxCrashes = 1
INVARIANTS ListsSearchable
CHECK_DEADLOCK FALSE
