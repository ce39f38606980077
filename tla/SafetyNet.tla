------------------------------ MODULE SafetyNet ------------------------------
(***************************************************************************)
(* The threads of displays/mod.rs around one MonarchDisplayManager: the    *)
(* command of the window, the hotkey (or start-up) threads, and one        *)
(* watchdog per armed change. Each action is one section under a lock; the *)
(* steps between two locks of a command are told apart by pc.              *)
(*                                                                         *)
(* Every change put on the screen "with the net" opens a confirmation and  *)
(* must leave a watchdog behind it. Beside the confirmation, and not       *)
(* tied to it by any lock, live two slots: the audio default to restore    *)
(* and the scene (profile) to run on commit. They carry no generation in   *)
(* the code; here they record the confirmation they were filled for, as    *)
(* history the actions write and only the properties read.                 *)
(***************************************************************************)
EXTENDS ConfirmOrRevert

CONSTANTS
    UI,           \* the window; main.js runs its commands one at a time
    Hotkeys,      \* threads that run aplicar_perfil_directo
    Profiles,
    NoProfile,    \* None in escena_activa and escena_pendiente
    LayoutOf,     \* the layout saved in each profile
    MaxVueltas,   \* MAX_VUELTAS
    StoreMayFail, \* may the config store refuse a save?
    Prompt        \* TRUE: a command or a report, once begun, is over before
                  \* the deadline passes and before the next command begins

ASSUME NetAssumption ==
    /\ UI \notin Hotkeys
    /\ NoProfile \notin Profiles
    /\ LayoutOf \in [Profiles -> Layouts]
    /\ MaxVueltas \in Nat \ {0}
    /\ StoreMayFail \in BOOLEAN
    /\ Prompt \in BOOLEAN
ASSUME NoPendingAssumption == NoPending \notin PendingConfirmation

VARIABLES
    pc,              \* where each thread is
    cmd,             \* the confirmation and the profile its command is about
    dog,             \* the watchdog armed for each confirmation
    vueltas,         \* rounds it has used
    waitFor,         \* the confirmation whose deadline it sleeps for
    audioPrevio,     \* audio_previo: the confirmation it was captured for, or 0
    escenaActiva,    \* escena_activa
    escenaPendiente, \* escena_pendiente, with the confirmation it was set for
    abandoned,       \* history: confirmations a watchdog gave up after refusals
    origin,          \* history: the profile the live confirmation applies
    committed        \* history: the profile last committed

threadVars == <<pc, cmd>>
dogVars == <<dog, vueltas, waitFor, abandoned>>
slotVars == <<audioPrevio, escenaPendiente>>
sceneVars == <<escenaActiva, origin, committed>>
vars == <<contractVars, threadVars, dogVars, slotVars, sceneVars>>

Threads == {UI} \cup Hotkeys
SomeProfile == Profiles \cup {NoProfile}
NoScene == [profile |-> NoProfile, gen |-> 0]
Idle == [gen |-> 0, profile |-> NoProfile]

\* A command between its apply and the watchdog it must leave behind.
Arming == {"verify", "rollback", "audio", "mark", "arm"}
\* A command or a watchdog that settles a confirmation: the slots come next.
Settling == {"forget", "restore", "take", "discard"}

Places == {"idle", "run"} \cup Arming \cup Settling
Commands == [gen : 0 .. MaxApplies, profile : SomeProfile]
DogStates == {"none", "asleep", "done", "forget", "restore", "discard"}

NetTypeOK ==
    /\ pc \in [Threads -> Places]
    /\ cmd \in [Threads -> Commands]
    /\ dog \in [Gens -> DogStates]
    /\ vueltas \in [Gens -> 0 .. MaxVueltas]
    /\ waitFor \in [Gens -> Gens]
    /\ audioPrevio \in 0 .. MaxApplies
    /\ escenaActiva \in SomeProfile
    /\ escenaPendiente \in Commands
    /\ abandoned \subseteq Gens
    /\ origin \in SomeProfile
    /\ committed \in SomeProfile

TypeOK == ContractTypeOK /\ NetTypeOK

Init ==
    /\ ContractInit
    /\ pc = [t \in Threads |-> "idle"]
    /\ cmd = [t \in Threads |-> Idle]
    /\ dog = [g \in Gens |-> "none"]
    /\ vueltas = [g \in Gens |-> 0]
    /\ waitFor = [g \in Gens |-> g]
    /\ audioPrevio = 0
    /\ escenaActiva = NoProfile
    /\ escenaPendiente = NoScene
    /\ abandoned = {}
    /\ origin = NoProfile
    /\ committed = NoProfile

----------------------------------------------------------------------------
Reporting == \E g \in Gens : dog[g] \in Settling
MidCommand == \E t \in Threads : pc[t] \in Arming

\* A thread takes up a command.
Starts(t) ==
    /\ pc[t] = "idle"
    /\ Prompt => ~Reporting

Goes(t, place) == pc' = [pc EXCEPT ![t] = place]
Does(t, g, p) == cmd' = [cmd EXCEPT ![t] = [gen |-> g, profile |-> p]]
Ends(t) == Goes(t, "idle") /\ Does(t, 0, NoProfile)

----------------------------------------------------------------------------
(* Commands that put a change on the screen.                               *)

\* DisplaysState::toggle up to toggle_display. What the code reads of the
\* screen before, outside the lock, only decides what it will call a mismatch.
Toggle ==
    /\ Starts(UI)
    /\ \E l \in Layouts : l # screen /\ ApplyLayout(l)
    /\ Goes(UI, "verify") /\ Does(UI, applies', NoProfile)
    /\ origin' = NoProfile
    /\ UNCHANGED <<dogVars, slotVars, escenaActiva, committed>>

\* The re-enumeration: it shows what was asked for or cannot be made, and the
\* watchdog is armed; or it shows something else and the change is undone.
ToggleVerify ==
    /\ pc[UI] = "verify"
    /\ Goes(UI, "arm") \/ Goes(UI, "rollback")
    /\ UNCHANGED <<contractVars, cmd, dogVars, slotVars, sceneVars>>

\* The immediate rollback accepted and saved: nothing is left to chase.
ToggleUndo ==
    /\ pc[UI] = "rollback"
    /\ RollbackPending
    /\ Ends(UI)
    /\ origin' = NoProfile
    /\ UNCHANGED <<dogVars, slotVars, escenaActiva, committed>>

\* Seeded bug: a `?` on that rollback, and the Err leaves without a watchdog.
ToggleUndoGivesUp ==
    /\ pc[UI] = "rollback"
    /\ \/ RollbackFails /\ UNCHANGED origin
       \/ StoreMayFail /\ RollbackPending /\ origin' = NoProfile
       \/ pending = NoPending /\ UNCHANGED <<contractVars, origin>>
    /\ Ends(UI)
    /\ UNCHANGED <<dogVars, slotVars, escenaActiva, committed>>

\* Any Err of the immediate rollback (refused, not saved, nothing pending any
\* more) leaves by the branch that arms the watchdog.
ToggleUndoFails ==
    /\ pc[UI] = "rollback"
    /\ \/ RollbackFails /\ UNCHANGED origin
       \/ StoreMayFail /\ RollbackPending /\ origin' = NoProfile
       \/ pending = NoPending /\ UNCHANGED <<contractVars, origin>>
    /\ Goes(UI, "arm")
    /\ UNCHANGED <<cmd, dogVars, slotVars, escenaActiva, committed>>

\* hacer_primario and aplicar_layout: another arrangement of the screen, held
\* by aplicar_con_red, which arms whether or not the screen can be read back.
Rearrange ==
    /\ Starts(UI)
    /\ \E l \in Layouts : ApplyLayout(l)
    /\ Goes(UI, "arm") /\ Does(UI, applies', NoProfile)
    /\ origin' = NoProfile
    /\ UNCHANGED <<dogVars, slotVars, escenaActiva, committed>>

\* cargar_perfil when the profile is not what the screen shows.
LoadProfile(p) ==
    /\ Starts(UI)
    /\ LayoutOf[p] # screen
    /\ ApplyLayout(LayoutOf[p])
    /\ Goes(UI, "audio") /\ Does(UI, applies', p)
    /\ origin' = p
    /\ UNCHANGED <<dogVars, slotVars, escenaActiva, committed>>

\* cargar_perfil and aplicar_perfil_directo when apply_profile finds nothing
\* to do, and aplicar_perfil_directo when apply and confirm both went through:
\* committed, and the scene's cycle follows.
CommitNow(t, p) ==
    /\ Starts(t)
    /\ LayoutOf[p] = screen \/ t # UI
    /\ ApplyUnheld(LayoutOf[p])
    /\ Goes(t, "run") /\ Does(t, 0, p)
    /\ committed' = p
    /\ UNCHANGED <<dogVars, slotVars, escenaActiva, origin>>

\* aplicar_perfil_directo applied, and the confirm that follows it under the
\* same lock returned Err. From get_layout: the confirmation stays. From the
\* save: it is gone. Either way the emergency net is put up.
EmergencyNet(t, p) ==
    /\ Starts(t)
    /\ t # UI
    /\ LayoutOf[p] # screen
    /\ \/ ApplyLayout(LayoutOf[p]) /\ origin' = p
       \/ /\ StoreMayFail
          /\ applies < MaxApplies
          /\ EnsureNoPending /\ BackendApplies(LayoutOf[p])
          /\ applies' = applies + 1
          /\ UNCHANGED <<pending, origin>>
    /\ Goes(t, "audio") /\ Does(t, applies', p)
    /\ UNCHANGED <<dogVars, slotVars, escenaActiva, committed>>

\* Any of them returning Err before anything is held.
ApplyRefused(t) ==
    /\ Starts(t)
    /\ \E l \in Layouts : l # screen /\ ApplyUnheld(l)
    /\ UNCHANGED <<threadVars, dogVars, slotVars, sceneVars>>

\* aplicar_audio_de_perfil with the net up. The slot keeps what it had when the
\* profile names no output, the output is absent, or nothing was captured.
CaptureAudio(t) ==
    /\ pc[t] = "audio"
    /\ audioPrevio' \in {audioPrevio, cmd[t].gen}
    /\ Goes(t, "mark")
    /\ UNCHANGED <<contractVars, cmd, dogVars, escenaPendiente, sceneVars>>

\* marcar_escena_pendiente
MarkScene(t) ==
    /\ pc[t] = "mark"
    /\ escenaPendiente' = [profile |-> cmd[t].profile, gen |-> cmd[t].gen]
    /\ Goes(t, "arm")
    /\ UNCHANGED <<contractVars, cmd, dogVars, audioPrevio, sceneVars>>

\* armar_watchdog: a thread that sleeps what the confirmation has left, with all
\* its rounds before it.
ArmWatchdog(t) ==
    /\ pc[t] = "arm"
    /\ LET g == cmd[t].gen IN
         /\ dog' = [dog EXCEPT ![g] = "asleep"]
         /\ vueltas' = [vueltas EXCEPT ![g] = 0]
         /\ waitFor' = [waitFor EXCEPT ![g] = g]
    /\ Ends(t)
    /\ UNCHANGED <<contractVars, abandoned, slotVars, sceneVars>>

\* correr_ciclo_de_escena: the new scene is the active one once its actions ran.
RunScene(t) ==
    /\ pc[t] = "run"
    /\ escenaActiva' = cmd[t].profile
    /\ Ends(t)
    /\ UNCHANGED <<contractVars, dogVars, slotVars, origin, committed>>

----------------------------------------------------------------------------
(* Commands that settle the confirmation.                                  *)

\* confirm under the manager's lock.
Confirm ==
    /\ Starts(UI)
    /\ ConfirmCurrentLayout
    /\ Goes(UI, "forget") /\ Does(UI, pending.gen, NoProfile)
    /\ committed' = IF origin = NoProfile THEN committed ELSE origin
    /\ origin' = NoProfile
    /\ UNCHANGED <<dogVars, slotVars, escenaActiva>>

\* revert under the manager's lock.
Revert ==
    /\ Starts(UI)
    /\ RollbackPending
    /\ Goes(UI, "restore") /\ Does(UI, pending.gen, NoProfile)
    /\ origin' = NoProfile
    /\ UNCHANGED <<dogVars, slotVars, escenaActiva, committed>>

\* Either of them returning Err: the early return leaves the slots alone, also
\* when only the save failed and the confirmation is gone.
SettleFails ==
    /\ Starts(UI)
    /\ \/ RollbackFails /\ UNCHANGED origin
       \/ /\ StoreMayFail
          /\ ConfirmCurrentLayout \/ RollbackPending
          /\ origin' = NoProfile
    /\ UNCHANGED <<threadVars, dogVars, slotVars, escenaActiva, committed>>

\* Seeded bug: confirm does not forget the audio it kept for the revert.
ClearAudioOnRevertOnly ==
    /\ pc[UI] \in {"forget", "restore"}
    /\ audioPrevio' = IF pc[UI] = "forget" THEN audioPrevio ELSE 0
    /\ Goes(UI, IF pc[UI] = "forget" THEN "take" ELSE "discard")
    /\ UNCHANGED <<contractVars, cmd, dogVars, escenaPendiente, sceneVars>>

\* olvidar_audio_previo in confirm, restaurar_audio_previo in revert.
ClearAudio ==
    /\ pc[UI] \in {"forget", "restore"}
    /\ audioPrevio' = 0
    /\ Goes(UI, IF pc[UI] = "forget" THEN "take" ELSE "discard")
    /\ UNCHANGED <<contractVars, cmd, dogVars, escenaPendiente, sceneVars>>

\* confirmar_escena_pendiente takes the slot and runs what it held.
TakeScene ==
    /\ pc[UI] = "take"
    /\ escenaPendiente' = NoScene
    /\ IF escenaPendiente.profile = NoProfile
       THEN Ends(UI)
       ELSE Goes(UI, "run") /\ Does(UI, 0, escenaPendiente.profile)
    /\ UNCHANGED <<contractVars, dogVars, audioPrevio, sceneVars>>

\* Seeded bug: revert leaves the scene it will not run in the slot.
LeaveScene ==
    /\ pc[UI] = "discard"
    /\ Ends(UI)
    /\ UNCHANGED <<contractVars, dogVars, slotVars, sceneVars>>

\* descartar_escena_pendiente in revert.
DiscardScene ==
    /\ pc[UI] = "discard"
    /\ escenaPendiente' = NoScene
    /\ Ends(UI)
    /\ UNCHANGED <<contractVars, dogVars, audioPrevio, sceneVars>>

\* Seeded bug: the slots are left pointing at the profile that was deleted.
DeleteProfileOnly(p) ==
    /\ Starts(UI)
    /\ committed' = IF committed = p THEN NoProfile ELSE committed
    /\ UNCHANGED <<contractVars, threadVars, dogVars, slotVars, escenaActiva, origin>>

\* borrar_perfil, then olvidar_escena_si_es.
DeleteProfile(p) ==
    /\ Starts(UI)
    /\ escenaActiva' = IF escenaActiva = p THEN NoProfile ELSE escenaActiva
    /\ committed' = IF committed = p THEN NoProfile ELSE committed
    /\ IF escenaPendiente.profile = p
       THEN escenaPendiente' = NoScene /\ origin' = NoProfile
       ELSE UNCHANGED <<escenaPendiente, origin>>
    /\ UNCHANGED <<contractVars, threadVars, dogVars, audioPrevio>>

----------------------------------------------------------------------------
(* The watchdogs.                                                          *)

\* It sleeps until the deadline it saw; what it finds then may be another
\* confirmation, younger than that deadline.
Wakes(g) ==
    /\ dog[g] = "asleep"
    /\ ~(pending # NoPending /\ pending.gen = waitFor[g] /\ ~pending.expired)

\* Seeded bugs: a loop that runs a round too many; one that starts its count
\* again at every round.
UsesRoundTooMany(g) ==
    /\ vueltas' = [vueltas EXCEPT ![g] = @ + 1]
    /\ dog' = [dog EXCEPT ![g] = IF vueltas[g] + 1 <= MaxVueltas
                                 THEN "asleep" ELSE "forget"]
UsesRoundUncounted(g) == UNCHANGED <<vueltas, dog>>

\* One more round of the loop, the last of which reports NoPudoRevertir.
UsesRound(g) ==
    /\ vueltas' = [vueltas EXCEPT ![g] = @ + 1]
    /\ dog' = [dog EXCEPT ![g] = IF vueltas[g] + 1 < MaxVueltas
                                 THEN "asleep" ELSE "forget"]

DogFindsNothing(g) ==
    /\ Wakes(g)
    /\ pending = NoPending
    /\ dog' = [dog EXCEPT ![g] = "done"]
    /\ UNCHANGED <<contractVars, threadVars, vueltas, waitFor, abandoned, slotVars,
                   sceneVars>>

DogWaits(g) ==
    /\ Wakes(g)
    /\ pending # NoPending /\ ~pending.expired
    /\ UsesRound(g)
    /\ waitFor' = [waitFor EXCEPT ![g] = pending.gen]
    /\ UNCHANGED <<contractVars, threadVars, abandoned, slotVars, sceneVars>>

DogReverts(g) ==
    /\ Wakes(g)
    /\ pending # NoPending /\ pending.expired
    /\ RollbackPending
    /\ dog' = [dog EXCEPT ![g] = "restore"]
    /\ waitFor' = [waitFor EXCEPT ![g] = pending.gen]
    /\ origin' = NoProfile
    /\ UNCHANGED <<threadVars, vueltas, abandoned, slotVars, escenaActiva, committed>>

\* Seeded bug: a refusal ends the watchdog, which says nothing.
DogStopsAtRefusal(g) ==
    /\ Wakes(g)
    /\ pending # NoPending /\ pending.expired
    /\ RollbackFails
    /\ dog' = [dog EXCEPT ![g] = "done"]
    /\ UNCHANGED <<threadVars, vueltas, waitFor, abandoned, slotVars, sceneVars>>

\* The rollback was refused, or went through and could not be saved: to the
\* loop both are Fallo, although the second leaves nothing pending.
DogFails(g) ==
    /\ Wakes(g)
    /\ pending # NoPending /\ pending.expired
    /\ UsesRound(g)
    /\ \/ /\ RollbackFails
          /\ abandoned' = IF vueltas[g] + 1 < MaxVueltas
                          THEN abandoned ELSE abandoned \cup {pending.gen}
          /\ UNCHANGED origin
       \/ /\ StoreMayFail
          /\ RollbackPending
          /\ origin' = NoProfile
          /\ UNCHANGED abandoned
    /\ waitFor' = [waitFor EXCEPT ![g] = pending.gen]
    /\ UNCHANGED <<threadVars, slotVars, escenaActiva, committed>>

\* reportar_desenlace: the audio is put back (Revertido) or kept
\* (NoPudoRevertir), then the pending scene is dropped. A later commit of the
\* change does not bring the scene back: "NO correr acciones".
DogClearsAudio(g) ==
    /\ dog[g] \in {"restore", "forget"}
    /\ audioPrevio' = 0
    /\ dog' = [dog EXCEPT ![g] = "discard"]
    /\ UNCHANGED <<contractVars, threadVars, vueltas, waitFor, abandoned,
                   escenaPendiente, sceneVars>>

\* Seeded bug: the watchdog forgets the audio and not the scene.
DogLeavesScene(g) ==
    /\ dog[g] = "discard"
    /\ dog' = [dog EXCEPT ![g] = "done"]
    /\ UNCHANGED <<contractVars, threadVars, vueltas, waitFor, abandoned, slotVars,
                   sceneVars>>

DogDiscardsScene(g) ==
    /\ dog[g] = "discard"
    /\ escenaPendiente' = NoScene
    /\ dog' = [dog EXCEPT ![g] = "done"]
    /\ origin' = IF escenaPendiente = NoScene THEN origin ELSE NoProfile
    /\ UNCHANGED <<contractVars, threadVars, vueltas, waitFor, abandoned,
                   audioPrevio, escenaActiva, committed>>

----------------------------------------------------------------------------
(* The world around.                                                       *)

ClockTicks ==
    /\ Expire
    /\ Prompt => ~MidCommand
    /\ UNCHANGED <<threadVars, dogVars, slotVars, sceneVars>>

MonitorsChange ==
    /\ TopologyChanges
    /\ UNCHANGED <<threadVars, dogVars, slotVars, sceneVars>>

\* The process dies and is started again: init builds everything anew.
Restart ==
    /\ ForgetPending
    /\ pc' = [t \in Threads |-> "idle"]
    /\ cmd' = [t \in Threads |-> Idle]
    /\ dog' = [g \in Gens |-> "none"]
    /\ audioPrevio' = 0
    /\ escenaPendiente' = NoScene
    /\ escenaActiva' = NoProfile
    /\ origin' = NoProfile
    /\ committed' = NoProfile
    /\ vueltas' = [g \in Gens |-> 0]
    /\ waitFor' = [g \in Gens |-> g]
    /\ abandoned' = {}

----------------------------------------------------------------------------
ThreadContinues(t) ==
    \/ CaptureAudio(t)
    \/ MarkScene(t)
    \/ ArmWatchdog(t)
    \/ RunScene(t)

UIContinues ==
    \/ ToggleVerify
    \/ ToggleUndo
    \/ ToggleUndoFails
    \/ ClearAudio
    \/ TakeScene
    \/ DiscardScene
    \/ ThreadContinues(UI)

UIStarts ==
    \/ Toggle
    \/ Rearrange
    \/ Confirm
    \/ Revert
    \/ SettleFails
    \/ \E p \in Profiles : LoadProfile(p)
    \/ \E p \in Profiles : DeleteProfile(p)

Applies(t) ==
    \/ \E p \in Profiles : CommitNow(t, p)
    \/ \E p \in Profiles : EmergencyNet(t, p)
    \/ ApplyRefused(t)

DogActs(g) ==
    \/ DogFindsNothing(g)
    \/ DogWaits(g)
    \/ DogReverts(g)
    \/ DogFails(g)
    \/ DogClearsAudio(g)
    \/ DogDiscardsScene(g)

Next ==
    \/ UIStarts
    \/ UIContinues
    \/ \E t \in Hotkeys : ThreadContinues(t)
    \/ \E t \in Threads : Applies(t)
    \/ \E g \in Gens : DogActs(g)
    \/ ClockTicks
    \/ MonitorsChange
    \/ Restart

Spec == Init /\ [][Next]_vars

\* The operating system runs every thread that can run and the clock moves on.
\* Nothing is assumed of the user, the hotkeys, the monitors or the backend.
Fairness ==
    /\ WF_vars(UIContinues)
    /\ \A t \in Hotkeys : WF_vars(ThreadContinues(t))
    /\ \A g \in Gens : WF_vars(DogActs(g))
    /\ WF_vars(ClockTicks)

FairSpec == Spec /\ Fairness
----------------------------------------------------------------------------
(* Safety.                                                                 *)

\* ADR-009: once a change is held, no way out of a command leaves it without
\* someone to chase it. Either the command that opened it is still on its way
\* to armar_watchdog, or its own watchdog sleeps, or that watchdog was refused
\* in its last round and said so (NoPudoRevertir).
Chased ==
    pending # NoPending =>
        \/ \E t \in Threads : pc[t] \in Arming /\ cmd[t].gen = pending.gen
        \/ dog[pending.gen] = "asleep"
        \/ pending.gen \in abandoned

\* What Chased rests on: the live confirmation is the last one opened, commands
\* and watchdogs are about confirmations that were opened, a sleeping watchdog
\* has a round left, and none that could still be chased by its own watchdog is
\* watched for another's deadline.
Numbered ==
    /\ pending # NoPending => pending.gen = applies
    /\ \A t \in Threads : cmd[t].gen <= applies
    /\ \A g \in Gens : dog[g] # "none" => g <= applies

RoundsLeft == \A g \in Gens : dog[g] = "asleep" => vueltas[g] < MaxVueltas

OwnDeadline == \A g \in Gens : g >= applies => waitFor[g] = g

NetInv == TypeOK /\ RoundsLeft /\ Numbered /\ OwnDeadline /\ Chased

\* ensure_no_pending_confirmation holds for every path of mod.rs: the layout a
\* revert would go back to is not replaced while its confirmation is open.
NetKeepsPrevious ==
    [][pending # NoPending /\ pending' # NoPending
         => pending'.gen = pending.gen /\ pending'.previous = pending.previous]_vars

Quiet ==
    /\ \A t \in Threads : pc[t] = "idle"
    /\ ~Reporting

\* The slots of mod.rs carry no generation. Whoever settles a confirmation
\* finds in them what was put there for it, or nothing: no audio of another
\* change is restored, no scene of another change is run.
SlotsAreTheSettleds ==
    /\ pc[UI] \in {"forget", "restore"} => audioPrevio \in {0, cmd[UI].gen}
    /\ pc[UI] \in Settling => escenaPendiente.gen \in {0, cmd[UI].gen}
    /\ \A g \in Gens :
         /\ dog[g] \in {"forget", "restore"} => audioPrevio \in {0, waitFor[g]}
         /\ dog[g] \in Settling => escenaPendiente.gen \in {0, waitFor[g]}

\* Nothing of a settled change is left behind for the next one: with no thread
\* half-way, a slot is full only while its own confirmation is open.
NothingLeftBehind ==
    Quiet =>
        /\ audioPrevio # 0 =>
             pending # NoPending /\ pending.gen = audioPrevio
        /\ escenaPendiente # NoScene =>
             pending # NoPending /\ pending.gen = escenaPendiente.gen

\* escena_activa is the scene that is on and committed: with no thread half-way
\* it is the profile of the last commit, by whichever way it was committed.
ActiveIsTheCommitted == Quiet => escenaActiva = committed

\* The same of the commits alone: of two profiles, the one on is the last.
LastCommitIsActive == Quiet /\ committed # NoProfile => escenaActiva = committed

\* Criterion 7 of the scenes: actions run only on commit. A scene whose cycle is
\* running is the one last committed, never one whose change was reverted.
OnlyCommittedRuns ==
    \A t \in Threads : pc[t] = "run" => cmd[t].profile = committed

\* A slot is emptied only for a confirmation that is settled or past its
\* deadline, or because its profile is deleted; a live and undecided change
\* keeps what it will restore or run.
SlotDropIsDue ==
    [][\A g \in Gens : DogClearsAudio(g) \/ DogDiscardsScene(g)
         => \/ pending = NoPending
            \/ pending.expired
            \/ UNCHANGED slotVars]_vars

----------------------------------------------------------------------------
(* Liveness.                                                               *)

\* A change nobody answers does not stay open: it is settled, or the watchdog
\* was refused in every round and said so.
EveryChangeIsSettled ==
    \A g \in Gens :
        (pending # NoPending /\ pending.gen = g)
            ~> (pending = NoPending \/ pending.gen # g \/ g \in abandoned)

\* MAX_VUELTAS "es la garantia de que el hilo termina siempre": no watchdog
\* sleeps for ever, however many changes come after its own.
EveryWatchdogEnds ==
    \A g \in Gens : (dog[g] = "asleep") ~> (dog[g] \notin {"asleep"} \cup Settling)
=============================================================================
