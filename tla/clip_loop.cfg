SPECIFICATION FairSpec
CHECK_DEADLOCK FALSE
CONSTANTS
  Machines = {"a", "b"}
  Texts = {t, u}
  Images = {}
  Nothing = nothing
  Partners <- Two
  Calm = FALSE
  InOrder = TRUE
  WriteFails = FALSE
  MaxCopies = 2
  MaxToggles = 0
PROPERTY Settles
