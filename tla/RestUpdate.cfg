\* One client, which asks for updates; one download of an update.
SPECIFICATION FairRestSpec
CONSTANTS
    Conn = {c1}
    Http = {}
    ApiHash = {h1}
    Rejected = {}
    Questions <- UpdateChecks
    MaxCalls = 1
    MaxDownloads = 1
    MaxServers = 1
PROPERTY AlwaysResponds
CHECK_DEADLOCK FALSE
