---------------------------- MODULE DisplayManager ----------------------------
(***************************************************************************)
(* MonarchDisplayManager with its contents: layouts made of outputs, the   *)
(* configuration in memory and its copy on disk (MillenniumConfigStore),   *)
(* saves that fail, and a process that can die in the middle of a call.    *)
(*                                                                         *)
(* One action is one call under the manager's mutex, up to one of its      *)
(* returns. Positions, resolutions and identities of the outputs are left  *)
(* out: the remapping of identities either resolves, and then changes      *)
(* nothing said here, or returns before any state changes.                 *)
(***************************************************************************)
EXTENDS Integers, FiniteSetsExt

CONSTANTS
    Displays,   \* positions in Layout.outputs: 1 .. number of monitors
    Profiles,
    NoLayout,   \* no such profile; nothing unsettled
    NoPending,
    MaxApplies  \* bound: confirmations opened in a behaviour

ASSUME DisplaysAssumption == Displays \subseteq Nat /\ Displays # {}
ASSUME MaxAppliesAssumption == MaxApplies \in Nat \ {0}

VARIABLES
    screen,   \* what Windows shows
    pending,  \* pending_confirmation
    applies,  \* confirmations opened so far
    config,   \* AppConfig in memory
    disk,     \* AppConfig in displays.json
    base      \* history: the layout before the change that is not settled yet

vars == <<screen, pending, applies, config, disk, base>>

\* OutputConfig.enabled and .primary: an output that is off is never primary.
AnyLayout == [Displays -> {"off", "on", "primary"}]

Enabled(l) == {d \in Displays : l[d] # "off"}
Primaries(l) == {d \in Displays : l[d] = "primary"}

\* What a machine shows: one primary, so at least one enabled output
\* (Layout::ensure_valid, made exact by normalize_primary).
Showable == {l \in AnyLayout : \E d \in Displays : Primaries(l) = {d}}

\* normalize_primary: the first enabled output marked as primary keeps the
\* mark, the first enabled one gets it when none has it.
NormalizePrimary(l) ==
    LET first == IF Primaries(l) # {} THEN Min(Primaries(l)) ELSE Min(Enabled(l))
    IN  [d \in Displays |-> IF d = first THEN "primary"
                            ELSE IF l[d] = "off" THEN "off" ELSE "on"]

Configs == [profiles : [Profiles -> Showable \cup {NoLayout}],
            lastGood : Showable, lastRestorable : Showable]

TypeOK ==
    /\ screen \in Showable
    /\ pending \in [gen : 1 .. MaxApplies, previous : Showable, expired : BOOLEAN]
                   \cup {NoPending}
    /\ applies \in 0 .. MaxApplies
    /\ config \in Configs
    /\ disk \in Configs
    /\ base \in Showable \cup {NoLayout}

\* MonarchDisplayManager::new on a machine that never ran it.
Init ==
    /\ screen \in Showable
    /\ pending = NoPending
    /\ applies = 0
    /\ config = [profiles |-> [p \in Profiles |-> NoLayout],
                 lastGood |-> screen, lastRestorable |-> screen]
    /\ disk = config
    /\ base = NoLayout

----------------------------------------------------------------------------
EnsureNoPending == pending = NoPending

\* persist_config: the store keeps what it is given, or the file stays as it was.
Saved(c) == config' = c /\ disk' = c
Unsaved(c) == config' = c /\ UNCHANGED disk
SavedOrNot(c) == Saved(c) \/ Unsaved(c)

\* DisplayBackend::apply_layout: whatever it answers, the screen did or did not
\* follow.
BackendApplies(l) == screen' \in {screen, l}

----------------------------------------------------------------------------
(* The layouts the commands ask for.                                       *)

\* toggle_display, which refuses to turn off the last active display.
CanToggle(d) == Enabled(screen) # {d}
Toggled(d) ==
    NormalizePrimary([screen EXCEPT ![d] = IF @ = "off" THEN "on" ELSE "off"])

\* hacer_primario, on an output that is enabled and is not it already.
CanBePrimary(d) == screen[d] = "on"
WithPrimary(d) ==
    NormalizePrimary([e \in Displays |-> IF e = d THEN "primary"
                                         ELSE IF screen[e] = "off" THEN "off" ELSE "on"])

\* apply_profile, which does nothing when the screen already shows it.
CanApplyProfile(p) == config.profiles[p] \notin {NoLayout, screen}

\* aplicar_layout moves outputs about: here, the same layout asked for again.
Asked ==
    {Toggled(d) : d \in {e \in Displays : CanToggle(e)}}
    \cup {WithPrimary(d) : d \in {e \in Displays : CanBePrimary(e)}}
    \cup {NormalizePrimary(config.profiles[p]) : p \in {q \in Profiles : CanApplyProfile(q)}}
    \cup {NormalizePrimary(screen)}

----------------------------------------------------------------------------
(* apply_layout: the layout of the moment is written down before the        *)
(* backend is asked for another.                                            *)

Written == [config EXCEPT !.lastGood = screen, !.lastRestorable = screen]

\* Seeded bug: the layout to go back to is read after the backend was called.
ApplyThenRead(l) ==
    /\ EnsureNoPending
    /\ applies < MaxApplies
    /\ Saved(Written)
    /\ BackendApplies(l)
    /\ pending' = [gen |-> applies + 1, previous |-> screen', expired |-> FALSE]
    /\ applies' = applies + 1
    /\ base' = screen

ApplyLayout(l) ==
    /\ EnsureNoPending
    /\ applies < MaxApplies
    /\ Saved(Written)
    /\ BackendApplies(l)
    /\ pending' = [gen |-> applies + 1, previous |-> screen, expired |-> FALSE]
    /\ applies' = applies + 1
    /\ base' = screen

\* The save returned Err: the backend is not called.
ApplyUnsaved ==
    /\ EnsureNoPending
    /\ Unsaved(Written)
    /\ base' = NoLayout
    /\ UNCHANGED <<screen, pending, applies>>

\* Seeded bug: the backend is called first, and the save comes after.
ApplyThenSave(l) ==
    /\ EnsureNoPending
    /\ BackendApplies(l)
    /\ base' = screen
    /\ UNCHANGED <<pending, applies, config, disk>>

\* The backend returned Err, with or without the change on the screen; or the
\* process died after the save, and the next one loads the file.
ApplyRejected(l) ==
    /\ EnsureNoPending
    /\ Saved(Written)
    /\ BackendApplies(l)
    /\ base' = screen
    /\ UNCHANGED <<pending, applies>>

\* apply_profile and confirm_current_layout in one go (aplicar_perfil_directo).
ApplyAndConfirm(p) ==
    /\ EnsureNoPending
    /\ CanApplyProfile(p)
    /\ BackendApplies(NormalizePrimary(config.profiles[p]))
    /\ LET good == [Written EXCEPT !.lastGood = screen']
       IN  \/ Saved(good)
           \/ config' = good /\ disk' = Written
    /\ base' = NoLayout
    /\ UNCHANGED <<pending, applies>>

----------------------------------------------------------------------------
(* The ways a confirmation ends.                                            *)

ConfirmCurrentLayout ==
    /\ pending # NoPending
    /\ pending' = NoPending
    /\ SavedOrNot([config EXCEPT !.lastGood = screen])
    /\ base' = NoLayout
    /\ UNCHANGED <<screen, applies>>

RollbackPending ==
    /\ pending # NoPending
    /\ BackendApplies(pending.previous)
    /\ pending' = NoPending
    /\ SavedOrNot([config EXCEPT !.lastGood = pending.previous])
    /\ base' = NoLayout
    /\ UNCHANGED applies

\* The backend returned Err: the confirmation is put back.
RollbackRejected ==
    /\ pending # NoPending
    /\ BackendApplies(pending.previous)
    /\ UNCHANGED <<pending, applies, config, disk, base>>

\* The process died during the rollback, before the save.
RollbackInterrupted ==
    /\ pending # NoPending
    /\ BackendApplies(pending.previous)
    /\ pending' = NoPending
    /\ config' = disk
    /\ UNCHANGED <<applies, disk, base>>

\* Seeded bug: new() takes the layout it finds for the last known good one.
RestartTrusting ==
    /\ pending' = NoPending
    /\ config' = [disk EXCEPT !.lastGood = screen]
    /\ UNCHANGED <<screen, applies, disk, base>>

\* The process ends and MonarchDisplayManager::new loads the file again.
Restart ==
    /\ pending' = NoPending
    /\ config' = disk
    /\ UNCHANGED <<screen, applies, disk, base>>

Expire ==
    /\ pending # NoPending /\ ~pending.expired
    /\ pending' = [pending EXCEPT !.expired = TRUE]
    /\ UNCHANGED <<screen, applies, config, disk, base>>

----------------------------------------------------------------------------
(* Operations that leave the screen alone, or the confirmation.             *)

SaveProfile(p) ==
    /\ EnsureNoPending
    /\ SavedOrNot([config EXCEPT !.profiles[p] = screen])
    /\ UNCHANGED <<screen, pending, applies, base>>

\* delete_profile asks for no settled confirmation.
DeleteProfile(p) ==
    /\ config.profiles[p] # NoLayout
    /\ SavedOrNot([config EXCEPT !.profiles[p] = NoLayout])
    /\ UNCHANGED <<screen, pending, applies, base>>

\* update_settings rewrites the whole file as well.
UpdateSettings ==
    /\ SavedOrNot(config)
    /\ UNCHANGED <<screen, pending, applies, base>>

\* restore_last_layout, which swaps the two layouts it can go back to. Refused by
\* the backend it writes nothing, and the screen may have followed all the same:
\* a step of TopologyChanges.
RestoreLastLayout ==
    /\ EnsureNoPending
    /\ BackendApplies(NormalizePrimary(config.lastRestorable))
    /\ SavedOrNot([config EXCEPT !.lastRestorable = screen,
                                 !.lastGood = NormalizePrimary(config.lastRestorable)])
    /\ base' = NoLayout
    /\ UNCHANGED <<pending, applies>>

TopologyChanges ==
    /\ \E l \in Showable : l # screen /\ screen' = l
    /\ UNCHANGED <<pending, applies, config, disk, base>>

----------------------------------------------------------------------------
Next ==
    \/ \E l \in Asked : ApplyLayout(l)
    \/ \E l \in Asked : ApplyRejected(l)
    \/ ApplyUnsaved
    \/ \E p \in Profiles : ApplyAndConfirm(p)
    \/ ConfirmCurrentLayout
    \/ RollbackPending
    \/ RollbackRejected
    \/ RollbackInterrupted
    \/ Restart
    \/ Expire
    \/ \E p \in Profiles : SaveProfile(p)
    \/ \E p \in Profiles : DeleteProfile(p)
    \/ UpdateSettings
    \/ RestoreLastLayout
    \/ TopologyChanges

Spec == Init /\ [][Next]_vars
----------------------------------------------------------------------------
\* From the moment a change may be on the screen until it is confirmed or rolled
\* back, the file names the layout to go back to: after a refusal, a crash or a
\* restart the last known good layout is the one before the change, whatever else
\* was saved meanwhile. While a confirmation is open it is the one it would revert
\* to. (apply_layout saves before it calls the backend.)
WayBackSurvives ==
    /\ base # NoLayout => disk.lastGood = base
    /\ pending # NoPending => base = pending.previous

\* What it rests on: the next save, whoever makes it, writes the same layout, for
\* the copy in memory names it too.
InMemoryToo == base # NoLayout => config.lastGood = base

ManagerInv == TypeOK /\ WayBackSurvives /\ InMemoryToo

\* The manager keeps the promise its callers in displays/mod.rs rely on.
Contract == INSTANCE ConfirmOrRevert WITH Layouts <- Showable
ImplementsContract == Contract!ContractSpec
=============================================================================
