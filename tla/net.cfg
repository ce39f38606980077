\* Every interleaving: a hotkey thread beside the window, saves that fail,
\* deadlines that pass in the middle of anything, restarts; and what a fair
\* scheduler and a running clock are enough for.
SPECIFICATION FairSpec
CONSTANTS
    both = both
    tvOff = tvOff
    cine = cine
    juego = juego
    Layouts <- TwoLayouts
    NoPending = NoPending
    MaxApplies = 2
    UI = UI
    Hotkeys = {hk}
    Profiles = {cine}
    NoProfile = NoProfile
    LayoutOf <- OneProfileLayout
    MaxVueltas = 2
    StoreMayFail = TRUE
    Prompt = FALSE
INVARIANTS
    Chased
    NetInv
PROPERTIES
    NetKeepsPrevious
    EveryChangeIsSettled
    EveryWatchdogEnds
