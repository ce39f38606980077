--------------------------- MODULE SafetyNetProofs ---------------------------
(***************************************************************************)
(* Proofs about SafetyNet for every set of profiles, hotkey threads and    *)
(* layouts, every number of changes and of rounds, whatever fails: the     *)
(* state keeps its types, a change that is held is always chased, and no   *)
(* confirmation is opened on top of another.  While only the window gives  *)
(* orders, in time, and saves go through: the slots are those of the       *)
(* change being settled, and only a committed scene runs.                  *)
(***************************************************************************)
EXTENDS SafetyNet, TLAPS

Typed == TypeOK /\ RoundsLeft

----------------------------------------------------------------------------
(* The manager's operations keep the contract's types.                      *)

\* Opening a confirmation keeps the types and takes a number within the bound.
LEMMA ApplyType ==
  ASSUME ContractTypeOK, NEW l \in Layouts
  PROVE  /\ ApplyLayout(l) => ContractTypeOK' /\ applies' \in Gens
         /\ ApplyUnheld(l) => ContractTypeOK'
<1>1. ApplyLayout(l) => ContractTypeOK' /\ applies' \in Gens
  BY MaxAppliesAssumption
  DEF ContractTypeOK, ApplyLayout, BackendApplies, PendingConfirmation, Gens
<1>2. ApplyUnheld(l) => ContractTypeOK'
  BY DEF ContractTypeOK, ApplyUnheld, BackendApplies
<1> QED
  BY <1>1, <1>2

\* So do the ways to settle one, and a live confirmation has a number.
LEMMA SettleType ==
  ASSUME ContractTypeOK
  PROVE  /\ ConfirmCurrentLayout => ContractTypeOK'
         /\ RollbackPending => ContractTypeOK'
         /\ RollbackFails => ContractTypeOK'
         /\ pending # NoPending => pending.gen \in Gens
  BY DEF ContractTypeOK, ConfirmCurrentLayout, RollbackPending, RollbackFails,
         BackendApplies, PendingConfirmation, Gens

\* So do the clock, the monitors, a restart and a step elsewhere.
LEMMA WorldType ==
  ASSUME ContractTypeOK
  PROVE  /\ Expire => ContractTypeOK'
         /\ TopologyChanges => ContractTypeOK'
         /\ ForgetPending => ContractTypeOK'
         /\ UNCHANGED contractVars => ContractTypeOK'
<1>1. Expire => ContractTypeOK'
  BY DEF ContractTypeOK, Expire, PendingConfirmation
<1>2. TopologyChanges => ContractTypeOK'
  BY DEF ContractTypeOK, TopologyChanges, PendingConfirmation
<1>3. ForgetPending => ContractTypeOK'
  BY DEF ContractTypeOK, ForgetPending
<1>4. UNCHANGED contractVars => ContractTypeOK'
  BY DEF ContractTypeOK, contractVars, PendingConfirmation
<1> QED
  BY <1>1, <1>2, <1>3, <1>4

----------------------------------------------------------------------------
(* Where a thread goes, and the command it is about.                        *)

\* The places the actions send a thread to are places.
LEMMA PlacesOf ==
  /\ "idle" \in Places /\ "run" \in Places
  /\ \A place \in Arming \cup Settling : place \in Places
  BY DEF Places

\* Moving one thread to a place, with a command, keeps the types of both.
LEMMA ThreadType ==
  ASSUME TypeOK, NEW t \in Threads,
         NEW place \in Places, pc' = [pc EXCEPT ![t] = place],
         NEW c \in Commands, cmd' = [cmd EXCEPT ![t] = c]
  PROVE  pc' \in [Threads -> Places] /\ cmd' \in [Threads -> Commands]
  BY DEF TypeOK, NetTypeOK

\* A thread that ends its command is idle again.
LEMMA EndsType ==
  ASSUME TypeOK, NEW t \in Threads, Ends(t)
  PROVE  pc' \in [Threads -> Places] /\ cmd' \in [Threads -> Commands]
<1>1. [gen |-> 0, profile |-> NoProfile] \in Commands
  BY MaxAppliesAssumption DEF Commands, SomeProfile
<1> QED
  BY <1>1, PlacesOf, ThreadType DEF Ends, Goes, Does

\* A command that has just opened confirmation applies'.
LEMMA OpensType ==
  ASSUME TypeOK, NEW t \in Threads, NEW p \in SomeProfile,
         NEW place \in Places,
         applies' \in Gens, Goes(t, place), Does(t, applies', p)
  PROVE  pc' \in [Threads -> Places] /\ cmd' \in [Threads -> Commands]
<1>1. [gen |-> applies', profile |-> p] \in Commands
  BY MaxAppliesAssumption DEF Commands, Gens
<1> QED
  BY <1>1 DEF Goes, Does, TypeOK, NetTypeOK

----------------------------------------------------------------------------
\* The types, and the rounds a sleeping watchdog has left, hold at the start.
LEMMA TypedInit ==
  ASSUME Init
  PROVE  Typed
  BY MaxAppliesAssumption, NetAssumption
  DEF Init, ContractInit, Typed, RoundsLeft, TypeOK, ContractTypeOK, NetTypeOK, Gens,
      Threads, SomeProfile, Commands, Places, DogStates, Idle, NoScene

\* Every step keeps them, action by action.
LEMMA TypedStep ==
  ASSUME Typed, [Next]_vars
  PROVE  Typed'
<1> USE MaxAppliesAssumption, NetAssumption DEF Typed
<1> USE DEF threadVars, dogVars, slotVars, sceneVars
<1>0. /\ UI \in Threads
      /\ \A t \in Hotkeys : t \in Threads
      /\ NoProfile \in SomeProfile
      /\ \A p \in Profiles : p \in SomeProfile /\ LayoutOf[p] \in Layouts
      /\ NoScene \in Commands
  BY DEF Threads, SomeProfile, NoScene, Commands
<1>1. CASE UNCHANGED vars
  BY <1>1, WorldType DEF vars, TypeOK, NetTypeOK, RoundsLeft
<1>2. CASE Toggle
  <2>1. ContractTypeOK' /\ applies' \in Gens
    BY <1>2, ApplyType DEF Toggle, TypeOK
  <2>2. pc' \in [Threads -> Places] /\ cmd' \in [Threads -> Commands]
    BY <1>0, <1>2, <2>1, OpensType, PlacesOf DEF Toggle, Arming
  <2> QED
    BY <1>0, <1>2, <2>1, <2>2 DEF Toggle, TypeOK, NetTypeOK, RoundsLeft
<1>3. CASE Rearrange
  <2>1. ContractTypeOK' /\ applies' \in Gens
    BY <1>3, ApplyType DEF Rearrange, TypeOK
  <2>2. pc' \in [Threads -> Places] /\ cmd' \in [Threads -> Commands]
    BY <1>0, <1>3, <2>1, OpensType, PlacesOf DEF Rearrange, Arming
  <2> QED
    BY <1>0, <1>3, <2>1, <2>2 DEF Rearrange, TypeOK, NetTypeOK, RoundsLeft
<1>4. ASSUME NEW p \in Profiles, LoadProfile(p) PROVE Typed'
  <2>1. ContractTypeOK' /\ applies' \in Gens
    BY <1>0, <1>4, ApplyType DEF LoadProfile, TypeOK
  <2>2. pc' \in [Threads -> Places] /\ cmd' \in [Threads -> Commands]
    BY <1>0, <1>4, <2>1, OpensType, PlacesOf DEF LoadProfile, Arming
  <2> QED
    BY <1>0, <1>4, <2>1, <2>2 DEF LoadProfile, TypeOK, NetTypeOK, RoundsLeft
<1>5. ASSUME NEW t \in Threads, NEW p \in Profiles, EmergencyNet(t, p) PROVE Typed'
  <2>1. ContractTypeOK' /\ applies' \in Gens
    <3>1. CASE ApplyLayout(LayoutOf[p])
      BY <1>0, <3>1, ApplyType DEF TypeOK
    <3>2. CASE ~ApplyLayout(LayoutOf[p])
      BY <1>0, <1>5, <3>2 DEF EmergencyNet, BackendApplies, TypeOK, ContractTypeOK, Gens
    <3> QED
      BY <3>1, <3>2
  <2>2. pc' \in [Threads -> Places] /\ cmd' \in [Threads -> Commands]
    BY <1>0, <1>5, <2>1, OpensType, PlacesOf DEF EmergencyNet, Arming
  <2> QED
    BY <1>0, <1>5, <2>1, <2>2 DEF EmergencyNet, TypeOK, NetTypeOK, RoundsLeft
<1>6. ASSUME NEW t \in Threads, NEW p \in Profiles, CommitNow(t, p) PROVE Typed'
  <2>1. ContractTypeOK'
    BY <1>0, <1>6, ApplyType DEF CommitNow, TypeOK
  <2>2. [gen |-> 0, profile |-> p] \in Commands
    BY <1>0 DEF Commands
  <2>3. pc' \in [Threads -> Places] /\ cmd' \in [Threads -> Commands]
    BY <1>6, <2>2, ThreadType, PlacesOf DEF CommitNow, Goes, Does
  <2> QED
    BY <1>0, <1>6, <2>1, <2>3 DEF CommitNow, TypeOK, NetTypeOK, RoundsLeft
<1>7. ASSUME NEW t \in Threads, ApplyRefused(t) PROVE Typed'
  BY <1>7, ApplyType DEF ApplyRefused, TypeOK, NetTypeOK, RoundsLeft
<1>8. CASE ToggleVerify
  BY <1>0, <1>8, WorldType, PlacesOf
  DEF ToggleVerify, Goes, Arming, TypeOK, NetTypeOK, RoundsLeft
<1>9. CASE ToggleUndo
  BY <1>0, <1>9, SettleType, EndsType DEF ToggleUndo, TypeOK, NetTypeOK, RoundsLeft
<1>10. CASE ToggleUndoFails
  <2>1. ContractTypeOK'
    BY <1>10, SettleType, WorldType DEF ToggleUndoFails, TypeOK
  <2> QED
    BY <1>0, <1>10, <2>1, PlacesOf
    DEF ToggleUndoFails, Goes, Arming, TypeOK, NetTypeOK, RoundsLeft
<1>11. ASSUME NEW t \in Threads, CaptureAudio(t) PROVE Typed'
  <2>1. cmd[t].gen \in 0 .. MaxApplies
    BY DEF TypeOK, NetTypeOK, Commands
  <2> QED
    BY <1>11, <2>1, WorldType, PlacesOf
    DEF CaptureAudio, Goes, Arming, TypeOK, NetTypeOK, RoundsLeft
<1>12. ASSUME NEW t \in Threads, MarkScene(t) PROVE Typed'
  BY <1>12, WorldType, PlacesOf
  DEF MarkScene, Goes, Arming, TypeOK, NetTypeOK, RoundsLeft, Commands
<1>13. ASSUME NEW t \in Threads, ArmWatchdog(t) PROVE Typed'
  <2>1. pc' \in [Threads -> Places] /\ cmd' \in [Threads -> Commands]
    BY <1>13, EndsType DEF ArmWatchdog
  <2>2. /\ dog' \in [Gens -> DogStates] /\ vueltas' \in [Gens -> 0 .. MaxVueltas]
        /\ waitFor' \in [Gens -> Gens] /\ RoundsLeft'
    <3>1. /\ dog' = [dog EXCEPT ![cmd[t].gen] = "asleep"]
          /\ vueltas' = [vueltas EXCEPT ![cmd[t].gen] = 0]
          /\ waitFor' = [waitFor EXCEPT ![cmd[t].gen] = cmd[t].gen]
      BY <1>13 DEF ArmWatchdog
    <3>2. 0 \in 0 .. MaxVueltas /\ 0 < MaxVueltas /\ "asleep" \in DogStates
      BY DEF DogStates
    <3>3. dog' \in [Gens -> DogStates] /\ vueltas' \in [Gens -> 0 .. MaxVueltas]
      BY <3>1, <3>2 DEF TypeOK, NetTypeOK
    <3>4. ASSUME NEW g \in Gens
          PROVE  waitFor'[g] \in Gens /\ (dog'[g] = "asleep" => vueltas'[g] < MaxVueltas)
      BY <3>1, <3>2, <3>4 DEF TypeOK, NetTypeOK, RoundsLeft
    <3> QED
      BY <3>1, <3>3, <3>4 DEF TypeOK, NetTypeOK, RoundsLeft
  <2> QED
    BY <1>13, <2>1, <2>2, WorldType DEF ArmWatchdog, TypeOK, NetTypeOK
<1>14. ASSUME NEW t \in Threads, RunScene(t) PROVE Typed'
  <2>1. cmd[t].profile \in SomeProfile
    BY DEF TypeOK, NetTypeOK, Commands
  <2>2. pc' \in [Threads -> Places] /\ cmd' \in [Threads -> Commands]
    BY <1>14, EndsType DEF RunScene
  <2> QED
    BY <1>14, <2>1, <2>2, WorldType DEF RunScene, TypeOK, NetTypeOK, RoundsLeft
<1>15. CASE Confirm
  <2>1. ContractTypeOK' /\ [gen |-> pending.gen, profile |-> NoProfile] \in Commands
    BY <1>0, <1>15, SettleType DEF Confirm, ConfirmCurrentLayout, TypeOK, Commands, Gens
  <2>2. pc' \in [Threads -> Places] /\ cmd' \in [Threads -> Commands]
    BY <1>0, <1>15, <2>1, ThreadType, PlacesOf DEF Confirm, Goes, Does, Settling
  <2> QED
    BY <1>0, <1>15, <2>1, <2>2 DEF Confirm, TypeOK, NetTypeOK, RoundsLeft
<1>16. CASE Revert
  <2>1. ContractTypeOK' /\ [gen |-> pending.gen, profile |-> NoProfile] \in Commands
    BY <1>0, <1>16, SettleType DEF Revert, RollbackPending, TypeOK, Commands, Gens
  <2>2. pc' \in [Threads -> Places] /\ cmd' \in [Threads -> Commands]
    BY <1>0, <1>16, <2>1, ThreadType, PlacesOf DEF Revert, Goes, Does, Settling
  <2> QED
    BY <1>0, <1>16, <2>1, <2>2 DEF Revert, TypeOK, NetTypeOK, RoundsLeft
<1>17. CASE SettleFails
  BY <1>0, <1>17, SettleType DEF SettleFails, TypeOK, NetTypeOK, RoundsLeft
<1>18. CASE ClearAudio
  <2>1. pc' \in [Threads -> Places]
    BY <1>0, <1>18, PlacesOf DEF ClearAudio, Goes, Settling, TypeOK, NetTypeOK
  <2> QED
    BY <1>18, <2>1, WorldType DEF ClearAudio, TypeOK, NetTypeOK, RoundsLeft
<1>19. CASE TakeScene
  <2>1. pc' \in [Threads -> Places] /\ cmd' \in [Threads -> Commands]
    <3>1. [gen |-> 0, profile |-> escenaPendiente.profile] \in Commands
      BY DEF TypeOK, NetTypeOK, Commands
    <3>2. CASE Ends(UI)
      BY <1>0, <3>2, EndsType
    <3>3. CASE ~Ends(UI)
      BY <1>0, <1>19, <3>1, <3>3, ThreadType, PlacesOf DEF TakeScene, Goes, Does
    <3> QED
      BY <3>2, <3>3
  <2> QED
    BY <1>0, <1>19, <2>1, WorldType DEF TakeScene, TypeOK, NetTypeOK, RoundsLeft
<1>20. CASE DiscardScene
  <2>1. pc' \in [Threads -> Places] /\ cmd' \in [Threads -> Commands]
    BY <1>0, <1>20, EndsType DEF DiscardScene
  <2> QED
    BY <1>0, <1>20, <2>1, WorldType DEF DiscardScene, TypeOK, NetTypeOK, RoundsLeft
<1>21. ASSUME NEW p \in Profiles, DeleteProfile(p) PROVE Typed'
  BY <1>0, <1>21, WorldType DEF DeleteProfile, TypeOK, NetTypeOK, RoundsLeft
<1>22. ASSUME NEW g \in Gens, DogFindsNothing(g) PROVE Typed'
  BY <1>22, WorldType DEF DogFindsNothing, TypeOK, NetTypeOK, RoundsLeft, DogStates
<1>23. ASSUME NEW g \in Gens, DogWaits(g) PROVE Typed'
  <2>1. pending.gen \in Gens
    BY <1>23, SettleType DEF DogWaits, TypeOK
  <2> QED
    BY <1>23, <2>1, WorldType
    DEF DogWaits, Wakes, UsesRound, TypeOK, NetTypeOK, RoundsLeft, DogStates
<1>24. ASSUME NEW g \in Gens, DogReverts(g) PROVE Typed'
  <2>1. pending.gen \in Gens /\ ContractTypeOK'
    BY <1>24, SettleType DEF DogReverts, TypeOK
  <2> QED
    BY <1>0, <1>24, <2>1 DEF DogReverts, TypeOK, NetTypeOK, RoundsLeft, DogStates
<1>25. ASSUME NEW g \in Gens, DogFails(g) PROVE Typed'
  <2>1. pending.gen \in Gens /\ ContractTypeOK'
    BY <1>25, SettleType DEF DogFails, TypeOK
  <2>2. /\ dog' \in [Gens -> DogStates] /\ vueltas' \in [Gens -> 0 .. MaxVueltas]
        /\ RoundsLeft'
    BY <1>25 DEF DogFails, Wakes, UsesRound, TypeOK, NetTypeOK, RoundsLeft, DogStates
  <2>3. abandoned' \subseteq Gens /\ origin' \in SomeProfile
    BY <1>0, <1>25, <2>1 DEF DogFails, TypeOK, NetTypeOK
  <2> QED
    BY <1>25, <2>1, <2>2, <2>3 DEF DogFails, TypeOK, NetTypeOK
<1>26. ASSUME NEW g \in Gens, DogClearsAudio(g) PROVE Typed'
  BY <1>26, WorldType DEF DogClearsAudio, TypeOK, NetTypeOK, RoundsLeft, DogStates
<1>27. ASSUME NEW g \in Gens, DogDiscardsScene(g) PROVE Typed'
  BY <1>0, <1>27, WorldType
  DEF DogDiscardsScene, TypeOK, NetTypeOK, RoundsLeft, DogStates
<1>28. CASE ClockTicks
  BY <1>28, WorldType DEF ClockTicks, TypeOK, NetTypeOK, RoundsLeft
<1>29. CASE MonitorsChange
  BY <1>29, WorldType DEF MonitorsChange, TypeOK, NetTypeOK, RoundsLeft
<1>30. CASE Restart
  BY <1>0, <1>30, WorldType
  DEF Restart, TypeOK, NetTypeOK, RoundsLeft, Idle, Places, Commands, DogStates, Gens
<1> QED
  BY <1>0, <1>1, <1>2, <1>3, <1>4, <1>5, <1>6, <1>7, <1>8, <1>9, <1>10, <1>11, <1>12,
     <1>13, <1>14, <1>15, <1>16, <1>17, <1>18, <1>19, <1>20, <1>21, <1>22, <1>23,
     <1>24, <1>25, <1>26, <1>27, <1>28, <1>29, <1>30
  DEF Next, UIStarts, UIContinues, ThreadContinues, Applies, DogActs

----------------------------------------------------------------------------
(* Confirmations are numbered in the order they are opened.                 *)

\* Every step of mod.rs leaves the count of confirmations alone or opens the
\* next one; the live one is always the last that was opened.
LEMMA LastOpened ==
  ASSUME Typed, Numbered, [Next]_vars
  PROVE  /\ applies \in Nat /\ applies' \in Nat /\ applies <= applies'
         /\ pending' # NoPending => pending'.gen = applies'
<1> USE DEF Typed, TypeOK, ContractTypeOK, Numbered
<1>0. applies \in Nat
  OBVIOUS
<1>1. ASSUME UNCHANGED <<pending, applies>>
      PROVE applies' = applies /\ (pending' # NoPending => pending'.gen = applies')
  BY <1>0, <1>1
<1>2. ASSUME NEW l, ApplyLayout(l)
      PROVE applies' = applies + 1 /\ (pending' # NoPending => pending'.gen = applies')
  BY <1>0, <1>2 DEF ApplyLayout
<1>3. ASSUME ConfirmCurrentLayout \/ RollbackPending
      PROVE applies' = applies /\ pending' = NoPending
  BY <1>3 DEF ConfirmCurrentLayout, RollbackPending
<1>4. CASE UNCHANGED vars
  BY <1>0, <1>1, <1>4 DEF vars, contractVars
<1>5. CASE Toggle \/ Rearrange \/ \E p \in Profiles : LoadProfile(p)
  BY <1>0, <1>2, <1>5 DEF Toggle, Rearrange, LoadProfile
<1>6. ASSUME NEW t \in Threads, NEW p \in Profiles, EmergencyNet(t, p)
      PROVE /\ applies' = applies + 1
            /\ pending' # NoPending => pending'.gen = applies'
  <2>1. CASE ApplyLayout(LayoutOf[p])
    BY <1>2, <2>1
  <2>2. CASE ~ApplyLayout(LayoutOf[p])
    BY <1>6, <2>2 DEF EmergencyNet, EnsureNoPending
  <2> QED
    BY <2>1, <2>2
<1>7. CASE ToggleUndo \/ Confirm \/ Revert \/ SettleFails
  BY <1>0, <1>1, <1>3, <1>7 DEF ToggleUndo, Confirm, Revert, SettleFails, RollbackFails
<1>8. CASE ToggleUndoFails
  BY <1>0, <1>1, <1>3, <1>8 DEF ToggleUndoFails, RollbackFails, contractVars
<1>9. CASE ToggleVerify \/ ClearAudio \/ TakeScene \/ DiscardScene
           \/ \E t \in Threads : ThreadContinues(t)
  BY <1>0, <1>1, <1>9
  DEF ToggleVerify, ClearAudio, TakeScene, DiscardScene, ThreadContinues, CaptureAudio,
      MarkScene, ArmWatchdog, RunScene, contractVars
<1>10. CASE \/ \E p \in Profiles : DeleteProfile(p)
            \/ \E t \in Threads : ApplyRefused(t) \/ \E p \in Profiles : CommitNow(t, p)
  BY <1>0, <1>1, <1>10 DEF DeleteProfile, ApplyRefused, CommitNow, ApplyUnheld, contractVars
<1>11. ASSUME NEW g \in Gens, DogActs(g)
       PROVE applies' = applies /\ (pending' # NoPending => pending'.gen = applies')
  BY <1>0, <1>1, <1>3, <1>11
  DEF DogActs, DogFindsNothing, DogWaits, DogReverts, DogFails, DogClearsAudio,
      DogDiscardsScene, RollbackFails, contractVars
<1>12. CASE ClockTicks
  BY <1>0, <1>12 DEF ClockTicks, Expire, PendingConfirmation
<1>13. CASE MonitorsChange \/ Restart
  BY <1>0, <1>1, <1>13 DEF MonitorsChange, Restart, TopologyChanges, ForgetPending
<1> QED
  BY <1>0, <1>4, <1>5, <1>6, <1>7, <1>8, <1>9, <1>10, <1>11, <1>12, <1>13
  DEF Next, UIStarts, UIContinues, Applies, Threads

\* A command about confirmation applies', about the live one, or about none.
LEMMA CommandAbout ==
  ASSUME TypeOK, \A u \in Threads : cmd[u].gen <= applies,
         applies \in Nat, applies' \in Nat, applies <= applies',
         NEW t \in Threads, NEW p,
         \/ Does(t, applies', p)
         \/ Does(t, pending.gen, p) /\ pending.gen = applies
         \/ Does(t, 0, p)
  PROVE  \A u \in Threads : cmd'[u].gen <= applies'
<1> SUFFICES ASSUME NEW u \in Threads PROVE cmd'[u].gen <= applies'
  OBVIOUS
<1>1. cmd[u].gen \in Nat /\ cmd[u].gen <= applies
  BY DEF TypeOK, NetTypeOK, Commands
<1>2. CASE u = t
  BY <1>2 DEF Does, TypeOK, NetTypeOK
<1>3. CASE u # t
  BY <1>1, <1>3 DEF Does, TypeOK, NetTypeOK
<1> QED
  BY <1>2, <1>3

\* No command is about a confirmation that was not opened yet.
LEMMA CommandsOpened ==
  ASSUME Typed, Numbered, [Next]_vars
  PROVE  \A t \in Threads : cmd'[t].gen <= applies'
<1> USE DEF Typed
<1>0. /\ TypeOK
      /\ \A u \in Threads : cmd[u].gen <= applies
      /\ applies \in Nat /\ applies' \in Nat /\ applies <= applies'
      /\ pending # NoPending => pending.gen = applies
      /\ UI \in Threads
  BY LastOpened DEF Numbered, Threads
<1>1. CASE UNCHANGED cmd
  <2>1. \A u \in Threads : cmd[u].gen \in Nat
    BY DEF TypeOK, NetTypeOK, Commands
  <2> QED
    BY <1>0, <1>1, <2>1
<1>2. CASE UNCHANGED vars
  BY <1>1, <1>2 DEF vars, threadVars
<1>3. CASE Toggle \/ Rearrange \/ \E p \in Profiles : LoadProfile(p)
  BY <1>0, <1>3, CommandAbout DEF Toggle, Rearrange, LoadProfile
<1>4. ASSUME NEW t \in Threads, NEW p \in Profiles, EmergencyNet(t, p) \/ CommitNow(t, p)
      PROVE  \A u \in Threads : cmd'[u].gen <= applies'
  BY <1>0, <1>4, CommandAbout DEF EmergencyNet, CommitNow
<1>5. CASE Confirm \/ Revert
  BY <1>0, <1>5, CommandAbout
  DEF Confirm, Revert, ConfirmCurrentLayout, RollbackPending
<1>6. CASE TakeScene
  BY <1>0, <1>6, CommandAbout DEF TakeScene, Ends
<1>7. CASE ToggleUndo \/ DiscardScene
  BY <1>0, <1>7, CommandAbout DEF ToggleUndo, DiscardScene, Ends
<1>8. ASSUME NEW t \in Threads, ArmWatchdog(t) \/ RunScene(t)
      PROVE  \A u \in Threads : cmd'[u].gen <= applies'
  BY <1>0, <1>8, CommandAbout DEF ArmWatchdog, RunScene, Ends
<1>9. CASE ToggleVerify \/ ToggleUndoFails \/ ClearAudio \/ SettleFails
           \/ \E t \in Threads : CaptureAudio(t) \/ MarkScene(t) \/ ApplyRefused(t)
           \/ \E p \in Profiles : DeleteProfile(p)
  BY <1>1, <1>9
  DEF ToggleVerify, ToggleUndoFails, ClearAudio, SettleFails, CaptureAudio, MarkScene,
      ApplyRefused, DeleteProfile, threadVars
<1>10. CASE (\E g \in Gens : DogActs(g)) \/ ClockTicks \/ MonitorsChange
  BY <1>1, <1>10
  DEF DogActs, DogFindsNothing, DogWaits, DogReverts, DogFails, DogClearsAudio,
      DogDiscardsScene, ClockTicks, MonitorsChange, threadVars
<1>11. CASE Restart
  BY <1>0, <1>11 DEF Restart, Idle
<1> QED
  BY <1>2, <1>3, <1>4, <1>5, <1>6, <1>7, <1>8, <1>9, <1>10, <1>11
  DEF Next, UIStarts, UIContinues, ThreadContinues, Applies, Threads

\* A watchdog appears only where a command armed it.
LEMMA DogsOpened ==
  ASSUME Typed, Numbered, [Next]_vars
  PROVE  \A g \in Gens : dog'[g] # "none" => g <= applies'
<1> USE DEF Typed
<1>0. /\ TypeOK
      /\ \A u \in Threads : cmd[u].gen <= applies
      /\ \A g \in Gens : g \in Nat /\ (dog[g] # "none" => g <= applies)
      /\ applies \in Nat /\ applies' \in Nat /\ applies <= applies'
  BY LastOpened DEF Numbered, Gens
<1>1. CASE UNCHANGED dog
  BY <1>0, <1>1
<1>2. ASSUME NEW t \in Threads, ArmWatchdog(t), NEW g \in Gens, dog'[g] # "none"
      PROVE  g <= applies'
  <2>1. dog' = [dog EXCEPT ![cmd[t].gen] = "asleep"]
    BY <1>2 DEF ArmWatchdog
  <2>2. CASE g = cmd[t].gen
    BY <1>0, <2>2
  <2>3. CASE g # cmd[t].gen
    BY <1>0, <1>2, <2>1, <2>3 DEF TypeOK, NetTypeOK
  <2> QED
    BY <2>2, <2>3
<1>3. ASSUME NEW h \in Gens, DogActs(h), NEW g \in Gens, dog'[g] # "none"
      PROVE  g <= applies'
  <2>1. dog[h] # "none"
    BY <1>3
    DEF DogActs, DogFindsNothing, DogWaits, DogReverts, DogFails, DogClearsAudio,
        DogDiscardsScene, Wakes
  <2>2. \E s : dog' = [dog EXCEPT ![h] = s]
    BY <1>3
    DEF DogActs, DogFindsNothing, DogWaits, DogReverts, DogFails, DogClearsAudio,
        DogDiscardsScene, UsesRound
  <2> QED
    BY <1>0, <1>3, <2>1, <2>2 DEF TypeOK, NetTypeOK
<1>4. CASE Restart
  BY <1>4 DEF Restart
<1>5. CASE UNCHANGED vars
  BY <1>1, <1>5 DEF vars, dogVars
<1>6. CASE UIStarts \/ ClockTicks \/ MonitorsChange
  BY <1>1, <1>6
  DEF UIStarts, Toggle, Rearrange, Confirm, Revert, SettleFails, LoadProfile,
      DeleteProfile, ClockTicks, MonitorsChange, dogVars
<1>7. ASSUME NEW t \in Threads, Applies(t)
      PROVE  UNCHANGED dog
  BY <1>7 DEF Applies, CommitNow, EmergencyNet, ApplyRefused, dogVars
<1>8. ASSUME NEW t \in Threads, CaptureAudio(t) \/ MarkScene(t) \/ RunScene(t)
      PROVE  UNCHANGED dog
  BY <1>8 DEF CaptureAudio, MarkScene, RunScene, dogVars
<1>9. CASE \/ ToggleVerify \/ ToggleUndo \/ ToggleUndoFails
           \/ ClearAudio \/ TakeScene \/ DiscardScene
  BY <1>1, <1>9
  DEF ToggleVerify, ToggleUndo, ToggleUndoFails, ClearAudio, TakeScene, DiscardScene,
      dogVars
<1> QED
  BY <1>1, <1>2, <1>3, <1>4, <1>5, <1>6, <1>7, <1>8, <1>9
  DEF Next, UIContinues, ThreadContinues, Threads

\* The three facts together are Numbered.
LEMMA NumberedStep ==
  ASSUME Typed, Numbered, [Next]_vars
  PROVE  Numbered'
  BY LastOpened, CommandsOpened, DogsOpened DEF Numbered

----------------------------------------------------------------------------
\* A watchdog that wakes sleeps again, if it does, for the last confirmation
\* opened; the only one of the last number is that confirmation's own.
LEMMA OwnDeadlineStep ==
  ASSUME Typed, Numbered, OwnDeadline, [Next]_vars
  PROVE  OwnDeadline'
<1> USE DEF Typed
<1>0. /\ TypeOK
      /\ \A g \in Gens : g \in Nat /\ (dog[g] # "none" => g <= applies)
      /\ pending # NoPending => pending.gen = applies
      /\ applies \in Nat /\ applies' \in Nat /\ applies <= applies'
  BY LastOpened DEF Numbered, Gens
<1>1. CASE UNCHANGED waitFor
  BY <1>0, <1>1 DEF OwnDeadline
<1>2. ASSUME NEW t \in Threads, ArmWatchdog(t)
      PROVE  OwnDeadline'
  <2>1. waitFor' = [waitFor EXCEPT ![cmd[t].gen] = cmd[t].gen]
    BY <1>2 DEF ArmWatchdog
  <2> QED
    BY <1>0, <2>1 DEF OwnDeadline, TypeOK, NetTypeOK
<1>3. ASSUME NEW h \in Gens, DogWaits(h) \/ DogReverts(h) \/ DogFails(h)
      PROVE  OwnDeadline'
  <2>1. /\ dog[h] = "asleep" /\ pending # NoPending
        /\ waitFor' = [waitFor EXCEPT ![h] = pending.gen]
    BY <1>3 DEF DogWaits, DogReverts, DogFails, Wakes
  <2>2. h <= applies /\ pending.gen = applies
    BY <1>0, <2>1
  <2> QED
    BY <1>0, <2>1, <2>2 DEF OwnDeadline, TypeOK, NetTypeOK
<1>4. CASE Restart
  BY <1>4 DEF Restart, OwnDeadline
<1>5. CASE UNCHANGED vars
  BY <1>1, <1>5 DEF vars, dogVars
<1>6. CASE UIStarts \/ ClockTicks \/ MonitorsChange
  BY <1>1, <1>6
  DEF UIStarts, Toggle, Rearrange, Confirm, Revert, SettleFails, LoadProfile,
      DeleteProfile, ClockTicks, MonitorsChange, dogVars
<1>7. ASSUME NEW t \in Threads, Applies(t)
      PROVE  UNCHANGED waitFor
  BY <1>7 DEF Applies, CommitNow, EmergencyNet, ApplyRefused, dogVars
<1>8. ASSUME NEW t \in Threads, CaptureAudio(t) \/ MarkScene(t) \/ RunScene(t)
      PROVE  UNCHANGED waitFor
  BY <1>8 DEF CaptureAudio, MarkScene, RunScene, dogVars
<1>9. CASE \/ ToggleVerify \/ ToggleUndo \/ ToggleUndoFails
           \/ ClearAudio \/ TakeScene \/ DiscardScene
  BY <1>1, <1>9
  DEF ToggleVerify, ToggleUndo, ToggleUndoFails, ClearAudio, TakeScene, DiscardScene,
      dogVars
<1>10. ASSUME NEW h \in Gens,
              DogFindsNothing(h) \/ DogClearsAudio(h) \/ DogDiscardsScene(h)
       PROVE  UNCHANGED waitFor
  BY <1>10 DEF DogFindsNothing, DogClearsAudio, DogDiscardsScene
<1> QED
  BY <1>1, <1>2, <1>3, <1>4, <1>5, <1>6, <1>7, <1>8, <1>9, <1>10
  DEF Next, UIContinues, ThreadContinues, DogActs, Threads

----------------------------------------------------------------------------
(* Nobody drops the chase.                                                  *)

\* Action by action: who opens a confirmation is on its way to armar_watchdog, who
\* leaves that way has armed, and a watchdog that stops chasing has settled it,
\* was another's, or was refused in its last round.
LEMMA ChasedStep ==
  ASSUME NetInv, [Next]_vars
  PROVE  Chased'
<1> USE DEF NetInv
<1>0. /\ TypeOK /\ Chased /\ RoundsLeft /\ OwnDeadline
      /\ pending # NoPending => pending.gen \in Gens /\ pending.gen = applies
      /\ \A g \in Gens : g \in Nat /\ (dog[g] # "none" => g <= applies)
      /\ applies \in Nat
      /\ UI \in Threads
  BY SettleType DEF Numbered, TypeOK, ContractTypeOK, Gens, Threads
<1>1. CASE pending' = NoPending
  BY <1>1 DEF Chased
<1>2. ASSUME NEW t \in Threads, pc'[t] \in Arming, cmd'[t].gen = pending'.gen
      PROVE  Chased'
  BY <1>2 DEF Chased
<1>3. ASSUME UNCHANGED <<dog, abandoned>>, pending'.gen = pending.gen,
             pending # NoPending,
             \A t \in Threads : pc[t] \in Arming => pc'[t] \in Arming /\ cmd'[t] = cmd[t]
      PROVE  Chased'
  BY <1>0, <1>3 DEF Chased
<1>4. CASE UNCHANGED vars
  BY <1>0, <1>4 DEF vars, contractVars, threadVars, dogVars, Chased
<1>5. ASSUME NEW t \in Threads, NEW p, NEW place \in Arming,
             pending'.gen = applies', Goes(t, place), Does(t, applies', p)
      PROVE  Chased'
  BY <1>0, <1>2, <1>5 DEF Goes, Does, TypeOK, NetTypeOK
<1>6. CASE Toggle \/ Rearrange \/ \E p \in Profiles : LoadProfile(p)
  <2>1. pending' # NoPending => pending'.gen = applies'
    BY <1>6 DEF Toggle, Rearrange, LoadProfile, ApplyLayout
  <2> QED
    BY <1>0, <1>1, <1>5, <1>6, <2>1 DEF Toggle, Rearrange, LoadProfile, Arming
<1>7. ASSUME NEW t \in Threads, NEW p \in Profiles, EmergencyNet(t, p)
      PROVE  Chased'
  <2>1. CASE ApplyLayout(LayoutOf[p])
    BY <1>0, <1>5, <1>7, <2>1 DEF EmergencyNet, ApplyLayout, Arming
  <2>2. CASE ~ApplyLayout(LayoutOf[p])
    BY <1>1, <1>7, <2>2 DEF EmergencyNet, EnsureNoPending
  <2> QED
    BY <2>1, <2>2
<1>8. ASSUME NEW t \in Threads, ApplyRefused(t)
      PROVE  pending' = NoPending
  BY <1>8 DEF ApplyRefused, ApplyUnheld, EnsureNoPending
<1>9. ASSUME NEW t \in Threads, NEW p \in Profiles, CommitNow(t, p)
      PROVE  pending' = NoPending
  BY <1>9 DEF CommitNow, ApplyUnheld, EnsureNoPending
<1>10. CASE ToggleUndo \/ Confirm \/ Revert \/ Restart
  BY <1>1, <1>10
  DEF ToggleUndo, Confirm, Revert, Restart, RollbackPending, ConfirmCurrentLayout,
      ForgetPending
<1>11. CASE SettleFails
  BY <1>0, <1>1, <1>11
  DEF SettleFails, RollbackFails, RollbackPending, ConfirmCurrentLayout, threadVars,
      dogVars, Chased
<1>12. ASSUME NEW t \in Threads, NEW place \in Arming, Goes(t, place), pc[t] \in Arming,
              pending' # NoPending, UNCHANGED <<pending, cmd, dog, abandoned>>
       PROVE  Chased'
  BY <1>0, <1>3, <1>12 DEF Goes, TypeOK, NetTypeOK
<1>13. CASE ToggleVerify
  BY <1>0, <1>1, <1>12, <1>13 DEF ToggleVerify, Arming, contractVars, dogVars
<1>14. CASE ToggleUndoFails
  BY <1>0, <1>1, <1>12, <1>14
  DEF ToggleUndoFails, Arming, contractVars, dogVars, RollbackFails, RollbackPending
<1>15. ASSUME NEW t \in Threads, CaptureAudio(t) \/ MarkScene(t)
       PROVE  Chased'
  BY <1>0, <1>1, <1>12, <1>15 DEF CaptureAudio, MarkScene, Arming, contractVars, dogVars
<1>16. ASSUME NEW t \in Threads, ArmWatchdog(t)
       PROVE  Chased'
  <2>1. /\ dog' = [dog EXCEPT ![cmd[t].gen] = "asleep"]
        /\ UNCHANGED <<pending, abandoned>>
        /\ \A u \in Threads \ {t} : pc'[u] = pc[u] /\ cmd'[u] = cmd[u]
    BY <1>0, <1>16
    DEF ArmWatchdog, Ends, Goes, Does, contractVars, TypeOK, NetTypeOK
  <2>2. CASE pending = NoPending
    BY <1>1, <2>1, <2>2
  <2>3. CASE pending # NoPending /\ cmd[t].gen = pending.gen
    BY <1>0, <2>1, <2>3 DEF Chased, TypeOK, NetTypeOK
  <2>4. CASE pending # NoPending /\ cmd[t].gen # pending.gen
    BY <1>0, <2>1, <2>4 DEF Chased, TypeOK, NetTypeOK
  <2> QED
    BY <2>2, <2>3, <2>4
<1>17. ASSUME NEW t \in Threads, pc[t] \notin Arming, UNCHANGED <<pending, dog, abandoned>>,
              \A u \in Threads \ {t} : pc'[u] = pc[u] /\ cmd'[u] = cmd[u]
       PROVE  Chased'
  BY <1>0, <1>1, <1>3, <1>17
<1>18. ASSUME NEW t \in Threads, RunScene(t)
       PROVE  Chased'
  BY <1>0, <1>17, <1>18
  DEF RunScene, Ends, Goes, Does, contractVars, dogVars, Arming, TypeOK, NetTypeOK
<1>19. CASE ClearAudio \/ TakeScene \/ DiscardScene
  BY <1>0, <1>17, <1>19
  DEF ClearAudio, TakeScene, DiscardScene, Ends, Goes, Does, contractVars, dogVars,
      Arming, TypeOK, NetTypeOK
<1>20. CASE MonitorsChange \/ \E p \in Profiles : DeleteProfile(p)
  BY <1>0, <1>20
  DEF MonitorsChange, DeleteProfile, TopologyChanges, contractVars, threadVars, dogVars,
      Chased
<1>21. CASE ClockTicks
  <2>1. pending' # NoPending /\ pending # NoPending => pending'.gen = pending.gen
    BY <1>0, <1>21
    DEF ClockTicks, Expire, TypeOK, ContractTypeOK, PendingConfirmation
  <2> QED
    BY <1>0, <1>21, <2>1 DEF ClockTicks, Expire, threadVars, dogVars, Chased
<1>22. ASSUME NEW g \in Gens, DogFindsNothing(g) \/ DogReverts(g)
       PROVE  pending' = NoPending
  BY <1>22 DEF DogFindsNothing, DogReverts, RollbackPending, contractVars
<1>23. ASSUME NEW g \in Gens, DogWaits(g)
       PROVE  Chased'
  (* It was sleeping for another confirmation, so it is not the live one's. *)
  <2>1. g # pending.gen
    BY <1>0, <1>23 DEF DogWaits, Wakes, OwnDeadline
  <2> QED
    BY <1>0, <1>23, <2>1
    DEF DogWaits, UsesRound, contractVars, threadVars, Chased, TypeOK, NetTypeOK
<1>24. ASSUME NEW g \in Gens, DogFails(g)
       PROVE  Chased'
  <2>1. CASE pending' # NoPending
    <3>1. /\ RollbackFails
          /\ abandoned' = IF vueltas[g] + 1 < MaxVueltas
                          THEN abandoned ELSE abandoned \cup {pending.gen}
      BY <1>24, <2>1 DEF DogFails, RollbackPending
    <3>2. /\ UNCHANGED <<pending, pc, cmd>>
          /\ dog' = [dog EXCEPT ![g] = IF vueltas[g] + 1 < MaxVueltas
                                       THEN "asleep" ELSE "forget"]
      BY <1>24, <3>1 DEF DogFails, UsesRound, RollbackFails, threadVars
    <3>3. CASE vueltas[g] + 1 < MaxVueltas
      BY <1>0, <1>24, <2>1, <3>1, <3>2, <3>3 DEF DogFails, Chased, TypeOK, NetTypeOK
    <3>4. CASE ~(vueltas[g] + 1 < MaxVueltas)
      BY <1>0, <2>1, <3>1, <3>2, <3>4 DEF Chased
    <3> QED
      BY <3>3, <3>4
  <2> QED
    BY <1>1, <2>1
<1>25. ASSUME NEW g \in Gens, DogClearsAudio(g) \/ DogDiscardsScene(g)
       PROVE  Chased'
  BY <1>0, <1>25
  DEF DogClearsAudio, DogDiscardsScene, contractVars, threadVars, Chased, TypeOK, NetTypeOK
<1>26. CASE UIStarts
  BY <1>6, <1>10, <1>11, <1>20, <1>26 DEF UIStarts
<1>27. ASSUME NEW t \in Threads, ThreadContinues(t) \/ Applies(t)
       PROVE  Chased'
  BY <1>1, <1>7, <1>8, <1>9, <1>15, <1>16, <1>18, <1>27 DEF ThreadContinues, Applies
<1>28. CASE UIContinues
  BY <1>0, <1>10, <1>13, <1>14, <1>19, <1>27, <1>28 DEF UIContinues
<1>29. ASSUME NEW g \in Gens, DogActs(g)
       PROVE  Chased'
  BY <1>1, <1>22, <1>23, <1>24, <1>25, <1>29 DEF DogActs
<1> QED
  BY <1>4, <1>10, <1>20, <1>21, <1>26, <1>27, <1>28, <1>29 DEF Next, Threads

----------------------------------------------------------------------------
\* The inductive invariant holds at the start,
LEMMA NetInvInit ==
  ASSUME Init
  PROVE  NetInv
  BY TypedInit, MaxAppliesAssumption
  DEF Init, ContractInit, Typed, NetInv, Numbered, OwnDeadline, Chased, Idle, Gens

\* is kept by every step,
LEMMA NetInvStep ==
  ASSUME NetInv, [Next]_vars
  PROVE  NetInv'
  BY TypedStep, NumberedStep, OwnDeadlineStep, ChasedStep DEF NetInv, Typed

\* and so holds for ever: for any profiles, hotkeys, layouts, rounds and bound, with
\* saves failing or not, the net of displays/mod.rs is in the shape NetInv names.
THEOREM NetInvariant == Spec => []NetInv
<1>1. Init => NetInv
  BY NetInvInit
<1>2. NetInv /\ [Next]_vars => NetInv'
  BY NetInvStep
<1> QED
  BY <1>1, <1>2, PTL DEF Spec

\* Every reachable state has the types SafetyNet declares (the slots, the
\* watchdogs and the confirmation hold only what displays/mod.rs can put there).
THEOREM TypesHold == Spec => []TypeOK
<1>1. NetInv => TypeOK
  BY DEF NetInv
<1> QED
  BY <1>1, NetInvariant, PTL

\* ADR-009: no held change is ever left without a thread on its way to arm its
\* watchdog, that watchdog asleep, or its refusal reported (armar_watchdog is
\* reached by every way out of toggle, aplicar_con_red and cargar_perfil).
THEOREM ChangeIsChased == Spec => []Chased
<1>1. NetInv => Chased
  BY DEF NetInv
<1> QED
  BY <1>1, NetInvariant, PTL

\* Whatever a step of mod.rs does, if a confirmation is open before and after
\* it is the same one and goes back to the same layout.
LEMMA KeepsPrevious ==
  ASSUME TypeOK, Next, pending # NoPending, pending' # NoPending
  PROVE  pending'.gen = pending.gen /\ pending'.previous = pending.previous
<1>1. CASE UNCHANGED pending
  BY <1>1
<1>2. CASE UIStarts
  BY <1>1, <1>2
  DEF UIStarts, Toggle, Rearrange, Confirm, Revert, SettleFails, LoadProfile,
      DeleteProfile, ApplyLayout, EnsureNoPending, ConfirmCurrentLayout,
      RollbackPending, RollbackFails, contractVars
<1>3. ASSUME NEW t \in Threads, ThreadContinues(t)
      PROVE  UNCHANGED pending
  BY <1>3
  DEF ThreadContinues, CaptureAudio, MarkScene, ArmWatchdog, RunScene, contractVars
<1>4. CASE UIContinues
  BY <1>1, <1>3, <1>4
  DEF UIContinues, ToggleVerify, ToggleUndo, ToggleUndoFails, ClearAudio, TakeScene,
      DiscardScene, RollbackPending, RollbackFails, contractVars, Threads
<1>5. ASSUME NEW t \in Threads, Applies(t)
      PROVE  UNCHANGED pending
  BY <1>5
  DEF Applies, CommitNow, EmergencyNet, ApplyRefused, ApplyLayout, ApplyUnheld,
      EnsureNoPending
<1>6. ASSUME NEW g \in Gens, DogActs(g)
      PROVE  UNCHANGED pending
  BY <1>6
  DEF DogActs, DogFindsNothing, DogWaits, DogReverts, DogFails, DogClearsAudio,
      DogDiscardsScene, RollbackPending, RollbackFails, contractVars
<1>7. CASE ClockTicks
  BY <1>7 DEF ClockTicks, Expire, TypeOK, ContractTypeOK, PendingConfirmation
<1>8. CASE MonitorsChange \/ Restart
  BY <1>1, <1>8 DEF MonitorsChange, Restart, TopologyChanges, ForgetPending
<1> QED
  BY <1>1, <1>2, <1>3, <1>4, <1>5, <1>6, <1>7, <1>8 DEF Next, Threads

\* ensure_no_pending_confirmation is enough for every path of mod.rs: the layout a
\* revert goes back to is never replaced while its confirmation is open.
THEOREM PreviousLayoutIsKept == Spec => NetKeepsPrevious
<1>1. TypeOK /\ [Next]_vars
      => [pending # NoPending /\ pending' # NoPending
            => pending'.gen = pending.gen /\ pending'.previous = pending.previous]_vars
  BY KeepsPrevious
<1> QED
  BY <1>1, TypesHold, PTL DEF Spec, NetKeepsPrevious
----------------------------------------------------------------------------
(* The slots.  What they hold belongs to the last confirmation opened, and  *)
(* when that one is settled someone is on his way to empty them: as long as *)
(* only the window gives orders, saves go through and commands and reports  *)
(* are over before what comes next (the assumptions of net_slots).          *)

Undisturbed == Prompt /\ ~StoreMayFail /\ Hotkeys = {}

\* Whoever is at work is at work on the last confirmation: a command that arms it,
\* which is open then; a command that settled it; a watchdog that reports on it.
AboutTheLast ==
    /\ pc[UI] \in Arming =>
         pending # NoPending /\ ~pending.expired /\ cmd[UI].gen = applies
    /\ pc[UI] \in Settling \cup {"run"} => pending = NoPending /\ ~Reporting
    /\ pc[UI] \in Settling => cmd[UI].gen = applies
    /\ \A g \in Gens : dog[g] \in Settling => waitFor[g] = applies

\* The slots are those of the last confirmation, and a command before its own
\* marks finds them empty.
SlotsOfTheLast ==
    /\ audioPrevio \in {0, applies}
    /\ \/ escenaPendiente = NoScene
       \/ escenaPendiente.gen = applies /\ escenaPendiente.profile \in Profiles
    /\ pc[UI] \in {"verify", "rollback"} => audioPrevio = 0
    /\ pc[UI] \in {"verify", "rollback", "audio", "mark"} => escenaPendiente = NoScene

\* With nothing open, a slot is full only until the one who settled empties it.
OnTheWayOut ==
    pending = NoPending =>
        /\ audioPrevio # 0 =>
             \/ pc[UI] \in {"forget", "restore"}
             \/ \E g \in Gens : dog[g] \in {"forget", "restore"}
        /\ escenaPendiente # NoScene =>
             pc[UI] \in Settling \/ Reporting

\* What is open applies the profile that the scene slot holds, or will hold.
SceneOfTheChange ==
    /\ pc[UI] \in {"audio", "mark"} => cmd[UI].profile = origin /\ origin \in Profiles
    /\ pending # NoPending /\ pc[UI] \notin {"audio", "mark"} =>
         origin = escenaPendiente.profile

\* The active scene is the committed one, except between a commit and the cycle
\* it starts, which runs the scene committed.
SceneOfTheCommit ==
    /\ pc[UI] = "run" => cmd[UI].profile = committed
    /\ pc[UI] \in {"forget", "take"} /\ escenaPendiente # NoScene =>
         escenaPendiente.profile = committed
    /\ pc[UI] \in {"forget", "take"} /\ escenaPendiente = NoScene =>
         escenaActiva = committed
    /\ pc[UI] \notin {"forget", "take", "run"} => escenaActiva = committed

SlotsInv ==
    AboutTheLast /\ SlotsOfTheLast /\ OnTheWayOut /\ SceneOfTheChange /\ SceneOfTheCommit

\* Nothing is under way when the program starts.
LEMMA SlotsInit ==
  ASSUME Init
  PROVE  SlotsInv
  BY NetAssumption, MaxAppliesAssumption
  DEF Init, ContractInit, SlotsInv, AboutTheLast, SlotsOfTheLast, OnTheWayOut,
      SceneOfTheChange, SceneOfTheCommit, Reporting, Settling, Arming, NoScene, Threads, Gens

\* Every step keeps it, action by action.
LEMMA SlotsStep ==
  ASSUME Undisturbed, NetInv, SlotsInv, [Next]_vars
  PROVE  SlotsInv'
<1> USE NetAssumption, MaxAppliesAssumption
<1>0. /\ Threads = {UI} /\ UI \in Threads /\ TypeOK
      /\ Prompt /\ ~StoreMayFail /\ Hotkeys = {}
      /\ pending # NoPending => pending.gen = applies /\ pending.gen \in Gens
      /\ pending = NoPending \/ pending \in PendingConfirmation
      /\ applies \in 0 .. MaxApplies
  BY DEF Undisturbed, NetInv, Threads, TypeOK, ContractTypeOK, PendingConfirmation, Numbered
<1> USE DEF SlotsInv, AboutTheLast, SlotsOfTheLast, OnTheWayOut, SceneOfTheChange,
            SceneOfTheCommit, Reporting
<1> USE DEF Settling, Arming, NoScene, Idle
<1> USE DEF contractVars, threadVars, dogVars, slotVars, sceneVars
<1>1. CASE UNCHANGED vars
  BY <1>1 DEF vars
<1>o. ASSUME NEW l \in Layouts, NEW place \in {"verify", "arm", "audio"}, NEW p \in SomeProfile,
             Starts(UI), ApplyLayout(l), Goes(UI, place), Does(UI, applies', p), origin' = p,
             place = "audio" => p \in Profiles, place # "audio" => p = NoProfile,
             UNCHANGED <<dogVars, slotVars, escenaActiva, committed>>
      PROVE  SlotsInv'
  <2>1. /\ pending = NoPending /\ pc[UI] = "idle" /\ ~Reporting
        /\ audioPrevio = 0 /\ escenaPendiente = NoScene /\ escenaActiva = committed
    BY <1>0, <1>o DEF Starts, ApplyLayout, EnsureNoPending
  <2>2. /\ pending' # NoPending /\ ~pending'.expired
        /\ applies' = applies + 1
    <3>1. /\ pending' = [gen |-> applies + 1, previous |-> screen, expired |-> FALSE]
          /\ applies' = applies + 1 /\ screen \in Layouts
      BY <1>0, <1>o DEF ApplyLayout, TypeOK, ContractTypeOK
    <3>2. applies + 1 \in Gens
      BY <1>0, <1>o, <3>1, ApplyType DEF TypeOK
    <3>3. pending' \in PendingConfirmation
      BY <3>1, <3>2 DEF PendingConfirmation
    <3> QED
      BY <3>1, <3>3, NoPendingAssumption
  <2>3. /\ pc'[UI] = place /\ cmd'[UI] = [gen |-> applies', profile |-> p]
        /\ UNCHANGED <<dog, waitFor, audioPrevio, escenaPendiente, escenaActiva, committed>>
    BY <1>0, <1>o DEF Goes, Does, TypeOK, NetTypeOK
  <2>4. AboutTheLast'
    BY <2>1, <2>2, <2>3
  <2>5. SlotsOfTheLast' /\ OnTheWayOut'
    BY <2>1, <2>2, <2>3
  <2> QED
    BY <1>o, <2>1, <2>2, <2>3, <2>4, <2>5
<1>2. CASE Toggle
  BY <1>0, <1>o, <1>2 DEF Toggle, SomeProfile
<1>3. CASE Rearrange
  BY <1>0, <1>o, <1>3 DEF Rearrange, SomeProfile
<1>4. ASSUME NEW p \in Profiles, LoadProfile(p)
      PROVE  SlotsInv'
  BY <1>0, <1>o, <1>4 DEF LoadProfile, SomeProfile
<1>5. ASSUME NEW t \in Threads, NEW p \in Profiles, CommitNow(t, p)
      PROVE  SlotsInv'
  BY <1>0, <1>5 DEF CommitNow, Starts, ApplyUnheld, EnsureNoPending, Goes, Does, TypeOK, NetTypeOK
<1>6. ASSUME NEW t \in Threads, NEW p \in Profiles, EmergencyNet(t, p)
      PROVE  FALSE
  BY <1>0, <1>6 DEF EmergencyNet
<1>7. ASSUME NEW t \in Threads, ApplyRefused(t)
      PROVE  SlotsInv'
  BY <1>0, <1>7 DEF ApplyRefused, ApplyUnheld
<1>8. CASE ToggleVerify
  BY <1>0, <1>8 DEF ToggleVerify, Goes, TypeOK, NetTypeOK
<1>9. CASE ToggleUndo
  BY <1>0, <1>9 DEF ToggleUndo, RollbackPending, Ends, Goes, Does, TypeOK, NetTypeOK
<1>10. CASE ToggleUndoFails
  BY <1>0, <1>10 DEF ToggleUndoFails, RollbackFails, Goes, TypeOK, NetTypeOK
<1>11. ASSUME NEW t \in Threads, CaptureAudio(t)
       PROVE  SlotsInv'
  BY <1>0, <1>11 DEF CaptureAudio, Goes, TypeOK, NetTypeOK
<1>12. ASSUME NEW t \in Threads, MarkScene(t)
       PROVE  SlotsInv'
  BY <1>0, <1>12 DEF MarkScene, Goes, TypeOK, NetTypeOK
<1>13. ASSUME NEW t \in Threads, ArmWatchdog(t)
       PROVE  SlotsInv'
  BY <1>0, <1>13 DEF ArmWatchdog, Ends, Goes, Does, TypeOK, NetTypeOK
<1>14. ASSUME NEW t \in Threads, RunScene(t)
       PROVE  SlotsInv'
  BY <1>0, <1>14 DEF RunScene, Ends, Goes, Does, TypeOK, NetTypeOK
<1>15. CASE Confirm
  BY <1>0, <1>15 DEF Confirm, Starts, ConfirmCurrentLayout, Goes, Does, TypeOK, NetTypeOK
<1>16. CASE Revert
  BY <1>0, <1>16 DEF Revert, Starts, RollbackPending, Goes, Does, TypeOK, NetTypeOK
<1>17. CASE SettleFails
  BY <1>0, <1>17 DEF SettleFails, RollbackFails
<1>18. CASE ClearAudio
  BY <1>0, <1>18 DEF ClearAudio, Goes, TypeOK, NetTypeOK
<1>19. CASE TakeScene
  BY <1>0, <1>19 DEF TakeScene, Ends, Goes, Does, TypeOK, NetTypeOK
<1>20. CASE DiscardScene
  BY <1>0, <1>20 DEF DiscardScene, Ends, Goes, Does, TypeOK, NetTypeOK
<1>21. ASSUME NEW p \in Profiles, DeleteProfile(p)
       PROVE  SlotsInv'
  BY <1>0, <1>21 DEF DeleteProfile, Starts
<1>22. ASSUME NEW g \in Gens, DogFindsNothing(g)
       PROVE  SlotsInv'
  BY <1>0, <1>22 DEF DogFindsNothing, Wakes, TypeOK, NetTypeOK
<1>23. ASSUME NEW g \in Gens, DogWaits(g)
       PROVE  SlotsInv'
  BY <1>0, <1>23 DEF DogWaits, Wakes, UsesRound, TypeOK, NetTypeOK
<1>24. ASSUME NEW g \in Gens, DogReverts(g)
       PROVE  SlotsInv'
  BY <1>0, <1>24 DEF DogReverts, Wakes, RollbackPending, TypeOK, NetTypeOK
<1>25. ASSUME NEW g \in Gens, DogFails(g)
       PROVE  SlotsInv'
  BY <1>0, <1>25 DEF DogFails, Wakes, UsesRound, RollbackFails, TypeOK, NetTypeOK
<1>26. ASSUME NEW g \in Gens, DogClearsAudio(g)
       PROVE  SlotsInv'
  BY <1>0, <1>26 DEF DogClearsAudio, TypeOK, NetTypeOK
<1>27. ASSUME NEW g \in Gens, DogDiscardsScene(g)
       PROVE  SlotsInv'
  BY <1>0, <1>27 DEF DogDiscardsScene, TypeOK, NetTypeOK
<1>28. CASE ClockTicks
  <2>1. pc[UI] \notin Arming /\ pending # NoPending /\ pending' # NoPending
    <3>1. pending' \in PendingConfirmation
      BY <1>0, <1>28 DEF ClockTicks, Expire, PendingConfirmation
    <3> QED
      BY <1>0, <1>28, <3>1, NoPendingAssumption DEF ClockTicks, Expire, MidCommand
  <2>2. UNCHANGED <<pc, cmd, dog, waitFor, audioPrevio, escenaPendiente, applies, escenaActiva, origin, committed>>
    BY <1>28 DEF ClockTicks, Expire
  <2> QED
    BY <1>0, <2>1, <2>2
<1>29. CASE MonitorsChange
  BY <1>0, <1>29 DEF MonitorsChange, TopologyChanges
<1>30. CASE Restart
  BY <1>0, <1>30 DEF Restart, ForgetPending
<1>31. CASE UIStarts
  BY <1>2, <1>3, <1>4, <1>15, <1>16, <1>17, <1>21, <1>31 DEF UIStarts
<1>32. CASE UIContinues
  BY <1>0, <1>8, <1>9, <1>10, <1>11, <1>12, <1>13, <1>14, <1>18, <1>19, <1>20, <1>32
  DEF UIContinues, ThreadContinues
<1>33. ASSUME NEW t \in Threads, Applies(t)
       PROVE  SlotsInv'
  BY <1>5, <1>6, <1>7, <1>33 DEF Applies
<1>34. ASSUME NEW g \in Gens, DogActs(g)
       PROVE  SlotsInv'
  BY <1>22, <1>23, <1>24, <1>25, <1>26, <1>27, <1>34 DEF DogActs
<1> QED
  BY <1>0, <1>1, <1>28, <1>29, <1>30, <1>31, <1>32, <1>33, <1>34 DEF Next

\* The invariant of the slots, for any layouts, profiles, rounds and bound.
LEMMA SlotsInvariant ==
  ASSUME Undisturbed
  PROVE  Spec => []SlotsInv
<1>1. Init => SlotsInv
  BY SlotsInit
<1>2. NetInv /\ SlotsInv /\ [Next]_vars => SlotsInv'
  BY SlotsStep
<1> QED
  BY <1>1, <1>2, NetInvariant, PTL DEF Spec

\* No audio of another change is restored by revert or by the watchdog, and no scene
\* of another change is run by confirm, although the slots of mod.rs carry no
\* generation: with prompt commands, saves that go through, and the window alone.
THEOREM SlotsBelongToTheSettled ==
  ASSUME Undisturbed
  PROVE  Spec => []SlotsAreTheSettleds
<1>1. SlotsInv => SlotsAreTheSettleds
  BY DEF SlotsInv, AboutTheLast, SlotsOfTheLast, SlotsAreTheSettleds, Settling, NoScene
<1> QED
  BY <1>1, SlotsInvariant, PTL

\* A change that was settled leaves nothing in audio_previo or escena_pendiente for
\* the next one to find.
THEOREM SlotsAreEmptied ==
  ASSUME Undisturbed
  PROVE  Spec => []NothingLeftBehind
<1>1. NetInv /\ SlotsInv => NothingLeftBehind
  BY DEF NetInv, Numbered, SlotsInv, SlotsOfTheLast, OnTheWayOut, NothingLeftBehind, Quiet,
         Reporting, Settling, Threads
<1> QED
  BY <1>1, NetInvariant, SlotsInvariant, PTL

\* Criterion 7 of the scenes: the actions that run are those of the profile last
\* committed, whatever was applied and reverted before.
THEOREM ScenesRunWhenCommitted ==
  ASSUME Undisturbed
  PROVE  Spec => []OnlyCommittedRuns
<1>1. SlotsInv => OnlyCommittedRuns
  BY DEF Undisturbed, SlotsInv, SceneOfTheCommit, OnlyCommittedRuns, Threads
<1> QED
  BY <1>1, SlotsInvariant, PTL

\* escena_activa is the profile last committed whenever no thread is half-way.
THEOREM ActiveSceneIsCommitted ==
  ASSUME Undisturbed
  PROVE  Spec => []ActiveIsTheCommitted
<1>1. SlotsInv => ActiveIsTheCommitted
  BY DEF SlotsInv, SceneOfTheCommit, ActiveIsTheCommitted, Quiet, Threads
<1> QED
  BY <1>1, SlotsInvariant, PTL
=============================================================================
