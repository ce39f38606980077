SPECIFICATION Spec
CONSTANTS
  Monitors = {1, 2}
  Adapter <- MCAdapter
  Target <- MCTarget
  Flaky = {1}
  None = None
  MaxEra = 2
INVARIANTS WantedIsRequested RequestIsCurrent
PROPERTIES ListIsWindows Remembered RescueLeavesNoTrace
