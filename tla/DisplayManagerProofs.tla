------------------------- MODULE DisplayManagerProofs -------------------------
(***************************************************************************)
(* Proofs about DisplayManager for any monitors, profiles and number of    *)
(* changes: normalize_primary always leaves one primary, the way back is   *)
(* always in the file, and the manager implements ConfirmOrRevert.         *)
(***************************************************************************)
EXTENDS DisplayManager, WellFoundedInduction, TLAPS

----------------------------------------------------------------------------
(* normalize_primary.                                                       *)

\* `find(|output| output.enabled)` finds one when there is one.
LEMMA FirstExists ==
  ASSUME NEW S, S \subseteq Nat, S # {}
  PROVE  Min(S) \in S
<1> DEFINE Below == {ss \in Nat \X Nat : ss[1] < ss[2]}
<1>0. IsWellFoundedOn(Below, Nat)
  BY NatLessThanWellFounded DEF OpToRel
<1>1. PICK x \in S : \A y \in S : ~ (<<y, x>> \in Below)
  BY <1>0, WFMin
<1>2. ASSUME NEW y \in S PROVE x <= y
  <2>1. x \in Nat /\ y \in Nat /\ <<y, x>> \in Nat \X Nat
    OBVIOUS
  <2>2. y < x => <<y, x>> \in Below
    BY <2>1
  <2>3. ~ (y < x)
    BY <1>1, <2>2
  <2> QED
    BY <2>1, <2>3
<1> QED
  BY <1>1, <1>2 DEF Min

\* Whatever is enabled, normalize_primary leaves exactly one primary.
LEMMA NormalizeShows ==
  ASSUME NEW l \in AnyLayout, Enabled(l) # {}
  PROVE  NormalizePrimary(l) \in Showable
<1> DEFINE first == IF Primaries(l) # {} THEN Min(Primaries(l)) ELSE Min(Enabled(l))
           n == NormalizePrimary(l)
<1>1. first \in Displays
  BY DisplaysAssumption, FirstExists DEF Primaries, Enabled
<1>2. n = [d \in Displays |-> IF d = first THEN "primary"
                              ELSE IF l[d] = "off" THEN "off" ELSE "on"]
  BY DEF NormalizePrimary
<1> HIDE DEF first, n
<1>3. n \in AnyLayout /\ Primaries(n) = {first}
  BY <1>1, <1>2 DEF AnyLayout, Primaries
<1> QED
  BY <1>1, <1>3 DEF Showable, n

\* A layout on a screen has a primary, which is enabled.
LEMMA ShowsSomething ==
  ASSUME NEW l \in Showable
  PROVE  l \in AnyLayout /\ Enabled(l) # {}
  BY DEF Showable, AnyLayout, Enabled, Primaries

\* No command asks for a layout without exactly one primary: toggle_display never
\* turns off the last one, and hacer_primario starts from one that is on.
LEMMA AskedShowable ==
  ASSUME TypeOK, NEW l \in Asked
  PROVE  l \in Showable
<1>0. screen \in AnyLayout /\ Enabled(screen) # {}
  BY ShowsSomething DEF TypeOK
<1>1. ASSUME NEW d \in Displays, CanToggle(d)
      PROVE  Toggled(d) \in Showable
  <2> DEFINE asked == [screen EXCEPT ![d] = IF @ = "off" THEN "on" ELSE "off"]
  <2>1. asked \in AnyLayout
    BY <1>0 DEF AnyLayout
  <2>2. CASE screen[d] = "off"
    <3>1. d \in Enabled(asked)
      BY <1>0, <2>2 DEF AnyLayout, Enabled
    <3> QED
      BY <2>1, <3>1, NormalizeShows DEF Toggled
  <2>3. CASE screen[d] # "off"
    <3>1. PICK e \in Enabled(screen) : e # d
      BY <1>1, <2>3 DEF CanToggle, Enabled
    <3>2. e \in Enabled(asked)
      BY <1>0, <3>1 DEF AnyLayout, Enabled
    <3> QED
      BY <2>1, <3>2, NormalizeShows DEF Toggled
  <2> QED
    BY <2>2, <2>3
<1>2. ASSUME NEW d \in Displays
      PROVE  WithPrimary(d) \in Showable
  <2> DEFINE asked == [e \in Displays |-> IF e = d THEN "primary"
                                          ELSE IF screen[e] = "off" THEN "off" ELSE "on"]
  <2>1. asked \in AnyLayout
    BY DEF AnyLayout
  <2>2. d \in Enabled(asked)
    BY DEF Enabled
  <2> QED
    BY <2>1, <2>2, NormalizeShows DEF WithPrimary
<1>3. ASSUME NEW p \in Profiles, CanApplyProfile(p)
      PROVE  NormalizePrimary(config.profiles[p]) \in Showable
  <2>1. config.profiles[p] \in Showable
    BY <1>3 DEF CanApplyProfile, TypeOK, Configs
  <2> QED
    BY <2>1, ShowsSomething, NormalizeShows
<1>4. NormalizePrimary(screen) \in Showable
  BY <1>0, NormalizeShows
<1> QED
  BY <1>1, <1>2, <1>3, <1>4 DEF Asked

----------------------------------------------------------------------------
(* The configuration, in memory and in the file.                            *)

\* Saving a configuration, or failing to, keeps both copies configurations.
LEMMA SavedType ==
  ASSUME TypeOK, NEW c \in Configs, SavedOrNot(c)
  PROVE  config' \in Configs /\ disk' \in Configs
  BY DEF TypeOK, SavedOrNot, Saved, Unsaved

\* The changes the operations make to a configuration.
LEMMA ConfigEdits ==
  ASSUME NEW c \in Configs, NEW l \in Showable
  PROVE  /\ [c EXCEPT !.lastGood = l] \in Configs
         /\ [c EXCEPT !.lastRestorable = l] \in Configs
         /\ \A p \in Profiles : [c EXCEPT !.profiles[p] = l] \in Configs
         /\ \A p \in Profiles : [c EXCEPT !.profiles[p] = NoLayout] \in Configs
  BY DEF Configs

\* The inductive invariant holds at the start,
LEMMA ManagerInvInit ==
  ASSUME Init
  PROVE  ManagerInv
  BY MaxAppliesAssumption
  DEF Init, ManagerInv, TypeOK, Configs, WayBackSurvives, InMemoryToo

\* What apply_layout saves is a configuration that names the layout of the moment.
LEMMA WrittenType ==
  ASSUME TypeOK
  PROVE  /\ Written \in Configs
         /\ Written.lastGood = screen
         /\ \A l \in Showable : [Written EXCEPT !.lastGood = l] \in Configs
  BY DEF TypeOK, Configs, Written

\* is kept by every step,
LEMMA ManagerInvStep ==
  ASSUME ManagerInv, [Next]_vars
  PROVE  ManagerInv'
<1> USE MaxAppliesAssumption DEF ManagerInv, WayBackSurvives, InMemoryToo
<1>0. /\ screen \in Showable /\ config \in Configs /\ disk \in Configs
      /\ pending # NoPending => pending.previous \in Showable
      /\ TypeOK
  BY DEF TypeOK
<1>1. CASE UNCHANGED vars
  BY <1>0, <1>1 DEF vars, TypeOK
<1>2. ASSUME NEW l \in Asked, ApplyLayout(l)
      PROVE  ManagerInv'
  <2>1. l \in Showable
    BY <1>0, AskedShowable
  <2>2. config' = Written /\ disk' = Written /\ base' = screen
    BY <1>2 DEF ApplyLayout, Saved
  <2>3. /\ pending' \in [gen : 1 .. MaxApplies, previous : Showable, expired : BOOLEAN]
        /\ pending'.previous = screen
        /\ applies' \in 0 .. MaxApplies
        /\ screen' \in Showable
    BY <1>0, <1>2, <2>1 DEF ApplyLayout, BackendApplies, TypeOK
  <2> QED
    BY <1>0, <2>2, <2>3, WrittenType DEF TypeOK
<1>3. CASE ApplyUnsaved
  BY <1>0, <1>3, WrittenType DEF ApplyUnsaved, EnsureNoPending, Unsaved, TypeOK
<1>4. ASSUME NEW l \in Asked, ApplyRejected(l)
      PROVE  ManagerInv'
  BY <1>0, <1>4, AskedShowable, WrittenType
  DEF ApplyRejected, EnsureNoPending, Saved, BackendApplies, TypeOK
<1>5. ASSUME NEW p \in Profiles, ApplyAndConfirm(p)
      PROVE  ManagerInv'
  <2>1. NormalizePrimary(config.profiles[p]) \in Asked
    BY <1>5 DEF ApplyAndConfirm, Asked
  <2>2. screen' \in Showable
    BY <1>0, <1>5, <2>1, AskedShowable DEF ApplyAndConfirm, BackendApplies
  <2>3. config' \in Configs /\ disk' \in Configs
    BY <1>0, <1>5, <2>2, WrittenType DEF ApplyAndConfirm, Saved
  <2> QED
    BY <1>0, <1>5, <2>2, <2>3 DEF ApplyAndConfirm, EnsureNoPending, TypeOK
<1>6. CASE ConfirmCurrentLayout
  <2>1. config' \in Configs /\ disk' \in Configs
    BY <1>0, <1>6, ConfigEdits, SavedType DEF ConfirmCurrentLayout
  <2> QED
    BY <1>0, <1>6, <2>1 DEF ConfirmCurrentLayout, TypeOK
<1>7. CASE RollbackPending
  <2>1. config' \in Configs /\ disk' \in Configs
    BY <1>0, <1>7, ConfigEdits, SavedType DEF RollbackPending
  <2> QED
    BY <1>0, <1>7, <2>1 DEF RollbackPending, BackendApplies, TypeOK
<1>8. CASE RollbackRejected
  BY <1>0, <1>8 DEF RollbackRejected, BackendApplies, TypeOK
<1>9. CASE RollbackInterrupted
  BY <1>0, <1>9 DEF RollbackInterrupted, BackendApplies, TypeOK
<1>10. CASE Restart
  BY <1>0, <1>10 DEF Restart, TypeOK
<1>11. CASE Expire
  BY <1>0, <1>11 DEF Expire, TypeOK
<1>12. ASSUME NEW p \in Profiles, SaveProfile(p)
       PROVE  ManagerInv'
  <2>1. config' \in Configs /\ disk' \in Configs
    BY <1>0, <1>12, ConfigEdits, SavedType DEF SaveProfile
  <2>2. config'.lastGood = config.lastGood /\ disk'.lastGood \in {config.lastGood, disk.lastGood}
    BY <1>0, <1>12 DEF SaveProfile, SavedOrNot, Saved, Unsaved, Configs
  <2> QED
    BY <1>0, <1>12, <2>1, <2>2 DEF SaveProfile, TypeOK
<1>13. ASSUME NEW p \in Profiles, DeleteProfile(p)
       PROVE  ManagerInv'
  <2>1. config' \in Configs /\ disk' \in Configs
    BY <1>0, <1>13, ConfigEdits, SavedType DEF DeleteProfile
  <2>2. config'.lastGood = config.lastGood /\ disk'.lastGood \in {config.lastGood, disk.lastGood}
    BY <1>0, <1>13 DEF DeleteProfile, SavedOrNot, Saved, Unsaved, Configs
  <2> QED
    BY <1>0, <1>13, <2>1, <2>2 DEF DeleteProfile, TypeOK
<1>14. CASE UpdateSettings
  BY <1>0, <1>14 DEF UpdateSettings, SavedOrNot, Saved, Unsaved, TypeOK
<1>15. CASE RestoreLastLayout
  <2>1. NormalizePrimary(config.lastRestorable) \in Showable
    BY <1>0, ShowsSomething, NormalizeShows DEF Configs
  <2>2. [config EXCEPT !.lastRestorable = screen,
                       !.lastGood = NormalizePrimary(config.lastRestorable)] \in Configs
    BY <1>0, <2>1 DEF Configs
  <2>3. config' \in Configs /\ disk' \in Configs
    BY <1>0, <1>15, <2>2, SavedType DEF RestoreLastLayout
  <2> QED
    BY <1>0, <1>15, <2>1, <2>3 DEF RestoreLastLayout, EnsureNoPending, BackendApplies, TypeOK
<1>16. CASE TopologyChanges
  BY <1>0, <1>16 DEF TopologyChanges, TypeOK
<1> QED
  BY <1>1, <1>2, <1>3, <1>4, <1>5, <1>6, <1>7, <1>8, <1>9, <1>10, <1>11, <1>12, <1>13,
     <1>14, <1>15, <1>16
  DEF Next

\* and so holds for ever: the copy in memory and the file agree on the way back.
THEOREM ManagerInvariant == Spec => []ManagerInv
<1>1. Init => ManagerInv
  BY ManagerInvInit
<1>2. ManagerInv /\ [Next]_vars => ManagerInv'
  BY ManagerInvStep
<1> QED
  BY <1>1, <1>2, PTL DEF Spec

\* Whatever is toggled, applied, refused or plugged, every layout the manager asks
\* for or keeps has exactly one primary, which is on (toggle_display's refusal of
\* the last active display, ensure_valid and normalize_primary).
THEOREM OnePrimary == Spec => []TypeOK
<1>1. ManagerInv => TypeOK
  BY DEF ManagerInv
<1> QED
  BY <1>1, ManagerInvariant, PTL

\* A crash at any point of apply_layout or of a rollback, a save that fails, or any
\* operation in between leaves the layout to go back to in displays.json.
THEOREM WayBack == Spec => []WayBackSurvives
<1>1. ManagerInv => WayBackSurvives
  BY DEF ManagerInv
<1> QED
  BY <1>1, ManagerInvariant, PTL

----------------------------------------------------------------------------
(* The manager implements the contract.                                     *)

\* The first states of the manager are first states of the contract,
LEMMA ImplementsInit ==
  ASSUME Init
  PROVE  Contract!ContractInit
  BY DEF Init, Contract!ContractInit

\* its steps are steps of the contract or leave it alone,
LEMMA ImplementsStep ==
  ASSUME TypeOK, [Next]_vars
  PROVE  [Contract!ContractNext]_(Contract!contractVars)
<1> USE DEF Contract!contractVars, Contract!EnsureNoPending, Contract!BackendApplies,
            EnsureNoPending, BackendApplies
<1>1. CASE UNCHANGED vars
  BY <1>1 DEF vars
<1>2. ASSUME NEW l \in Asked, ApplyLayout(l)
      PROVE  Contract!ContractNext
  <2>1. l \in Showable
    BY AskedShowable
  <2>2. Contract!ApplyLayout(l)
    BY <1>2 DEF ApplyLayout, Contract!ApplyLayout
  <2> QED
    BY <2>1, <2>2 DEF Contract!ContractNext
<1>3. CASE ApplyUnsaved
  BY <1>3 DEF ApplyUnsaved
<1>4. ASSUME NEW l \in Asked, ApplyRejected(l)
      PROVE  Contract!ContractNext
  <2>1. l \in Showable
    BY AskedShowable
  <2>2. Contract!ApplyUnheld(l)
    BY <1>4 DEF ApplyRejected, Contract!ApplyUnheld
  <2> QED
    BY <2>1, <2>2 DEF Contract!ContractNext
<1>5. ASSUME NEW p \in Profiles, ApplyAndConfirm(p)
      PROVE  Contract!ContractNext
  <2>1. NormalizePrimary(config.profiles[p]) \in Showable
    BY <1>5, AskedShowable DEF ApplyAndConfirm, Asked
  <2>2. Contract!ApplyUnheld(NormalizePrimary(config.profiles[p]))
    BY <1>5 DEF ApplyAndConfirm, Contract!ApplyUnheld
  <2> QED
    BY <2>1, <2>2 DEF Contract!ContractNext
<1>6. CASE ConfirmCurrentLayout
  BY <1>6 DEF ConfirmCurrentLayout, Contract!ConfirmCurrentLayout, Contract!ContractNext
<1>7. CASE RollbackPending
  BY <1>7 DEF RollbackPending, Contract!RollbackPending, Contract!ContractNext
<1>8. CASE RollbackRejected
  BY <1>8 DEF RollbackRejected, Contract!RollbackFails, Contract!ContractNext
<1>9. CASE RollbackInterrupted
  BY <1>9 DEF RollbackInterrupted, Contract!RollbackPending, Contract!ContractNext
<1>10. CASE Restart
  BY <1>10 DEF Restart, Contract!ForgetPending, Contract!ContractNext
<1>11. CASE Expire
  BY <1>11 DEF Expire, Contract!Expire, Contract!ContractNext
<1>12. CASE UpdateSettings \/ \E p \in Profiles : SaveProfile(p) \/ DeleteProfile(p)
  BY <1>12 DEF UpdateSettings, SaveProfile, DeleteProfile
<1>13. CASE RestoreLastLayout
  <2>1. NormalizePrimary(config.lastRestorable) \in Showable
    BY ShowsSomething, NormalizeShows DEF TypeOK, Configs
  <2>2. Contract!ApplyUnheld(NormalizePrimary(config.lastRestorable))
    BY <1>13 DEF RestoreLastLayout, Contract!ApplyUnheld
  <2> QED
    BY <2>1, <2>2 DEF Contract!ContractNext
<1>14. CASE TopologyChanges
  BY <1>14 DEF TopologyChanges, Contract!TopologyChanges, Contract!ContractNext
<1> QED
  BY <1>1, <1>2, <1>3, <1>4, <1>5, <1>6, <1>7, <1>8, <1>9, <1>10, <1>11, <1>12, <1>13,
     <1>14
  DEF Next

\* and so MonarchDisplayManager keeps the promise SafetyNet is built on.
THEOREM ManagerImplementsContract == Spec => ImplementsContract
<1>1. Init => Contract!ContractInit
  BY ImplementsInit
<1>2. TypeOK /\ [Next]_vars => [Contract!ContractNext]_(Contract!contractVars)
  BY ImplementsStep
<1> QED
  BY <1>1, <1>2, OnePrimary, PTL DEF Spec, ImplementsContract, Contract!ContractSpec
=============================================================================
