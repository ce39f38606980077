\* A watchdog that outlives its change uses its rounds up on younger ones.
SPECIFICATION Spec
CONSTANTS
    both = both
    tvOff = tvOff
    cine = cine
    juego = juego
    Layouts <- TwoLayouts
    NoPending = NoPending
    MaxApplies = 2
    UI = UI
    Hotkeys = {}
    Profiles = {cine}
    NoProfile = NoProfile
    LayoutOf <- OneProfileLayout
    MaxVueltas = 2
    StoreMayFail = FALSE
    Prompt = TRUE
PROPERTY SlotDropIsDue
