SPECIFICATION Spec
CHECK_DEADLOCK FALSE
CONSTANTS
  Machines = {"a", "b"}
  Texts = {t}
  Images = {}
  Nothing = nothing
  Partners <- None
  Calm = TRUE
  InOrder = TRUE
  WriteFails = FALSE
  MaxCopies = 2
  MaxToggles = 2
INVARIANT NotRetroactive
