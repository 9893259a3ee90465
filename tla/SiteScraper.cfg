\* Three scrapes, two at a time: of three hashes, or of one again.
SPECIFICATION FairSpec
CONSTANTS
    Hash = {h1, h2, h3}
    MaxConcurrent = 2
    MaxScrapes = 3
    Outlast = FALSE
INVARIANTS SlotsRight EntriesClosed
PROPERTIES ScrapesFinish
CHECK_DEADLOCK FALSE
