\* A backlog so long that a hash is checked again, after its cooldown, while its earlier
\* scrape still waits.
SPECIFICATION Spec
CONSTANTS
    Hash = {h1, h2, h3}
    MaxConcurrent = 2
    MaxScrapes = 4
    Outlast = TRUE
INVARIANT SlotsExact
CHECK_DEADLOCK FALSE
