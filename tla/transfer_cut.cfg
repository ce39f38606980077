\* The connection breaks between the last chunk and the end of the handler.
SPECIFICATION Spec
CONSTANTS
    photo = photo
    notes = notes
    memo = memo
    NFiles = 1
    Size <- Three
    Paths = {photo, notes, memo}
    PathOf <- Alone
    MaxAttempts = 3
    Overlaps = FALSE
    ProgressLost = FALSE
    DiskFails = FALSE
CHECK_DEADLOCK FALSE
INVARIANT DeliveredIsReported
