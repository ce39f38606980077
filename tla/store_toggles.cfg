SPECIFICATION AutostartSpec
CONSTANTS
    Values <- Settings
    Default <- Off
    Missing = missing
    Partial = partial
    Threads = {"toggle", "other"}
    Toggling = {"toggle", "other"}
    MaxDeaths = 0
    MaxSpoiled = 1
INVARIANTS EntryIsMemory
