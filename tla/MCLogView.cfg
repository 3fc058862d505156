SPECIFICATION FairSpec
CONSTANTS
    Streams = {s1}
    NoStream = NoStream
    Buffer = 1
    Limit = 2
    MaxLogs = 2
    MaxUnreported = 1
    MaxRestarts = 1
    MaxBreaks = 1
    MaxFailures = 1
INVARIANTS
    ViewTypeOK
    NoGaps
    QuietListIsCurrent
PROPERTIES
    FetchIsNotOlder
    ViewConverges
