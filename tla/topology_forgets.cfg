\* A layout that does not name a monitor makes the list forget it.
SPECIFICATION Spec
CONSTANTS
  Monitors = {1, 2}
  Adapter <- MCAdapter
  Target <- MCTarget
  Flaky = {1}
  None = None
  MaxEra = 2
PROPERTY AlwaysRemembered
CHECK_DEADLOCK FALSE
