\* A layout with a hash unknown, and two adapters that number alike.
SPECIFICATION Spec
CONSTANTS
  Monitors = {1, 2}
  Adapter <- MCAdapter
  Target <- MCTarget
  Flaky = {1}
  None = None
  MaxEra = 2
INVARIANT NeverAcrossAdapters
CHECK_DEADLOCK FALSE
