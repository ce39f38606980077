\* Two monitors, one profile, two confirmations; saves and backend calls fail at
\* will and the process dies between any two steps.
SPECIFICATION Spec
CONSTANTS
    Displays <- TwoMonitors
    Profiles = {cine}
    NoLayout = NoLayout
    NoPending = NoPending
    MaxApplies = 2
INVARIANTS
    WayBackSurvives
    ManagerInv
PROPERTY ImplementsContract
