\* The rollback goes through and its save does not.
SPECIFICATION Spec
CONSTANTS
    both = both
    tvOff = tvOff
    cine = cine
    juego = juego
    Layouts <- TwoLayouts
    NoPending = NoPending
    MaxApplies = 2
    UI = UI
    Hotkeys = {}
    Profiles = {cine}
    NoProfile = NoProfile
    LayoutOf <- OneProfileLayout
    MaxVueltas = 2
    StoreMayFail = TRUE
    Prompt = TRUE
INVARIANT OnlyCommittedRuns
