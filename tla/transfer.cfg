\* Breaks that the receiver notices before the retry: a resume is sound.
SPECIFICATION Spec
CONSTANTS
    photo = photo
    notes = notes
    memo = memo
    NFiles = 3
    Size <- FullAndEmpty
    Paths = {photo, notes, memo}
    PathOf <- Apart
    MaxAttempts = 3
    Overlaps = FALSE
    ProgressLost = FALSE
    DiskFails = FALSE
CHECK_DEADLOCK FALSE
INVARIANTS TransferInv DeliveredIsWhole NothingWithoutYes
PROPERTIES VerifiedIsWhole ImplementsDelivery
