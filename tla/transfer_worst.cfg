\* Handlers that overlap, lost queries, a disk that fails.
SPECIFICATION FairSpec
CONSTANTS
    photo = photo
    notes = notes
    memo = memo
    NFiles = 2
    Size <- OneAndOne
    Paths = {photo, notes, memo}
    PathOf <- ApartTwo
    MaxAttempts = 2
    Overlaps = TRUE
    ProgressLost = TRUE
    DiskFails = TRUE
CHECK_DEADLOCK FALSE
INVARIANTS DoneMeansAll
PROPERTY SendEnds
