-------------------------- MODULE ConfirmOrRevert --------------------------
(***************************************************************************)
(* What MonarchDisplayManager promises its callers: a change of layout     *)
(* that goes through is held open, with the layout it replaced, until it   *)
(* is confirmed or rolled back, and no second change is accepted before.   *)
(*                                                                         *)
(* A layout is an opaque value here; DisplayManager gives it its contents  *)
(* and is shown to implement this module. SafetyNet runs the threads of    *)
(* displays/mod.rs against it.                                             *)
(*                                                                         *)
(* The backend is Windows' CCD API. Its return code says nothing about the *)
(* screen: an Ok may have changed nothing and an Err may come after the    *)
(* change (apply.rs re-enumerates after SetDisplayConfig and that call can *)
(* fail), so every call of it leaves the screen as it was or as asked.     *)
(***************************************************************************)
EXTENDS Integers

CONSTANTS
    Layouts,     \* the layouts the machine can show
    NoPending,   \* pending_confirmation = None
    MaxApplies   \* bound: how many changes a behaviour may hold open

ASSUME LayoutsAssumption == Layouts # {}
ASSUME MaxAppliesAssumption == MaxApplies \in Nat \ {0}

VARIABLES
    screen,   \* the layout Windows is showing
    pending,  \* Option<PendingConfirmation>
    applies   \* how many confirmations were ever opened; numbers them

contractVars == <<screen, pending, applies>>

Gens == 1 .. MaxApplies

\* The instant and the timeout of the code become one bit: has the deadline
\* passed. `gen` is history: the code does not number its confirmations.
PendingConfirmation == [gen : Gens, previous : Layouts, expired : BOOLEAN]

ContractTypeOK ==
    /\ screen \in Layouts
    /\ pending \in PendingConfirmation \cup {NoPending}
    /\ applies \in 0 .. MaxApplies

ContractInit ==
    /\ screen \in Layouts
    /\ pending = NoPending
    /\ applies = 0

----------------------------------------------------------------------------
\* ensure_no_pending_confirmation
EnsureNoPending == pending = NoPending

\* A backend call that asks for layout l, whatever it answers.
BackendApplies(l) == screen' \in {screen, l}

\* Seeded bug: no ensure_no_pending_confirmation; the second change replaces the
\* layout the first would have gone back to.
ApplyOnTop(l) ==
    /\ applies < MaxApplies
    /\ BackendApplies(l)
    /\ applies' = applies + 1
    /\ pending' = [gen |-> applies + 1, previous |-> screen, expired |-> FALSE]

\* apply_layout and the operations that end in it: the layout of the moment is
\* kept, the backend is called, the clock starts.
ApplyLayout(l) ==
    /\ EnsureNoPending
    /\ applies < MaxApplies
    /\ BackendApplies(l)
    /\ applies' = applies + 1
    /\ pending' = [gen |-> applies + 1, previous |-> screen, expired |-> FALSE]

\* A backend call that leaves nothing to confirm: apply_layout returning Err
\* (from get_layout, the save or the backend), or apply_profile committed by
\* confirm_current_layout under the same lock.
ApplyUnheld(l) ==
    /\ EnsureNoPending
    /\ BackendApplies(l)
    /\ UNCHANGED <<pending, applies>>

\* confirm_current_layout once get_layout answered. The save comes after the
\* confirmation is gone, so its failure is an Err that leaves nothing pending.
ConfirmCurrentLayout ==
    /\ pending # NoPending
    /\ pending' = NoPending
    /\ UNCHANGED <<screen, applies>>

\* rollback_pending when the backend accepts; as above the save comes last.
RollbackPending ==
    /\ pending # NoPending
    /\ BackendApplies(pending.previous)
    /\ pending' = NoPending
    /\ UNCHANGED applies

\* rollback_pending when the backend refuses: the confirmation is put back.
RollbackFails ==
    /\ pending # NoPending
    /\ BackendApplies(pending.previous)
    /\ UNCHANGED <<pending, applies>>

\* The deadline of the live confirmation passes.
Expire ==
    /\ pending # NoPending
    /\ ~pending.expired
    /\ pending' = [pending EXCEPT !.expired = TRUE]
    /\ UNCHANGED <<screen, applies>>

\* Somebody plugs, unplugs, or uses Windows' own settings.
TopologyChanges ==
    /\ \E l \in Layouts : l # screen /\ screen' = l
    /\ UNCHANGED <<pending, applies>>

\* The process ends and starts again: the confirmation lived in memory only.
ForgetPending ==
    /\ pending' = NoPending
    /\ UNCHANGED <<screen, applies>>

----------------------------------------------------------------------------
ContractNext ==
    \/ \E l \in Layouts : ApplyLayout(l)
    \/ \E l \in Layouts : ApplyUnheld(l)
    \/ ConfirmCurrentLayout
    \/ RollbackPending
    \/ RollbackFails
    \/ Expire
    \/ TopologyChanges
    \/ ForgetPending

ContractSpec == ContractInit /\ [][ContractNext]_contractVars
=============================================================================
