\* The two slots, when commands are prompt, saves succeed and only the window
\* gives orders.
SPECIFICATION Spec
CONSTANTS
    both = both
    tvOff = tvOff
    cine = cine
    juego = juego
    Layouts <- TwoLayouts
    NoPending = NoPending
    MaxApplies = 3
    UI = UI
    Hotkeys = {}
    Profiles = {cine, juego}
    NoProfile = NoProfile
    LayoutOf <- TwoProfileLayouts
    MaxVueltas = 2
    StoreMayFail = FALSE
    Prompt = TRUE
INVARIANTS
    SlotsAreTheSettleds
    NothingLeftBehind
    OnlyCommittedRuns
    ActiveIsTheCommitted
