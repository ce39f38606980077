\* A hotkey commits a profile while the window runs the cycle of another.
SPECIFICATION Spec
CONSTANTS
    both = both
    tvOff = tvOff
    cine = cine
    juego = juego
    Layouts <- TwoLayouts
    NoPending = NoPending
    MaxApplies = 1
    UI = UI
    Hotkeys = {hk}
    Profiles = {cine, juego}
    NoProfile = NoProfile
    LayoutOf <- TwoProfileLayouts
    MaxVueltas = 2
    StoreMayFail = FALSE
    Prompt = TRUE
INVARIANT LastCommitIsActive
