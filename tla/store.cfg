SPECIFICATION AutostartSpec
CONSTANTS
    Values <- Settings
    Default <- Off
    Missing = missing
    Partial = partial
    Threads = {"toggle", "other"}
    Toggling = {"toggle"}
    MaxDeaths = 2
    MaxSpoiled = 1
INVARIANT EntryIsMemory
PROPERTY ImplementsSavedValue
