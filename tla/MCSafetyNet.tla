----------------------------- MODULE MCSafetyNet -----------------------------
(* Small instances of SafetyNet for TLC.                                     *)
EXTENDS SafetyNet, TLC

CONSTANTS both, tvOff   \* two layouts: the desk, and the desk without the TV
CONSTANTS cine, juego   \* two profiles

TwoLayouts == {both, tvOff}
OneProfileLayout == cine :> tvOff
TwoProfileLayouts == cine :> tvOff @@ juego :> both
=============================================================================
