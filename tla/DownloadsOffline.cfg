\* The node does not start.
SPECIFICATION DownloadsSpec
CONSTANTS
    h1 = h1
    InfoHash = {h1}
    Size = 1
    Nothing = Nothing
    FirstSessions <- SeedingOnly
    MaxStarts = 1
    ClientStarts <- NeverUp
PROPERTIES SessionKeptWithoutClient
CHECK_DEADLOCK FALSE
