------------------------------- MODULE Topology -------------------------------
(***************************************************************************)
(* WindowsDisplayBackend: the cache of topology, apply_layout with its     *)
(* ladder of rescue, and around them Windows: monitors that are plugged in *)
(* and out, adapters renumbered on waking up, configurations it refuses or *)
(* accepts without doing anything, and queries that fail.                  *)
(*                                                                         *)
(* The manager's mutex lets one call at a time reach the backend, so only  *)
(* Windows moves between the steps of an apply.  A step is what lies       *)
(* between two calls that ask Windows for a change, or for time.           *)
(***************************************************************************)
EXTENDS Enumeration

CONSTANT MaxEra   \* bound: the renumberings, and one

ASSUME BoundsAssumption == MaxEra \in Nat \ {0}

VARIABLES plugged, shown,  \* the monitors that Windows reaches, and those it shows
          era,             \* the numbering of the adapters
          resumed,         \* the machine woke up and al_despertar is still to come
          last_snapshot, last_layout,   \* BackendCache
          apply            \* apply_layout, as far as it is

windows == <<plugged, shown, era, resumed>>
cache == <<last_snapshot, last_layout>>
vars == <<windows, cache, apply>>

\* How far it is; the layout asked for, then remapped; the paths it goes out on; what
\* was on and what may be attached; the net; and, for the properties, the monitors
\* asked for, whether their hashes are known, and whether anything moved meanwhile.
Idle == [at |-> "idle", work |-> <<>>, base |-> {}, active |-> {}, batch |-> {},
         pre |-> {}, aim |-> {}, hashed |-> TRUE, upset |-> FALSE]

\* new: a cache that holds one enumeration.
Init ==
  /\ plugged \in (SUBSET Monitors) \ {{}} /\ shown \in (SUBSET plugged) \ {{}}
  /\ era = 1 /\ resumed = FALSE
  /\ last_snapshot \in Enumerations(era, plugged, shown)
  /\ last_layout = last_snapshot.layout
  /\ apply = Idle

----------------------------------------------------------------------------
(* Windows, the user and the cables.                                        *)

\* What moves under an apply is not its doing.  Bounds: one thing does, and while the
\* apply waits, or between what it asks of Windows and what it tells it.
Upsets == /\ ~apply.upset /\ apply.at \in {"idle", "sets", "attached", "extended", "switched"}
          /\ apply' = IF apply = Idle THEN apply ELSE [apply EXCEPT !.upset = TRUE]

Plugs(m) ==
  /\ m \notin plugged /\ plugged' = plugged \cup {m}
  /\ shown' \in {shown, shown \cup {m}}
  /\ Upsets /\ UNCHANGED <<era, resumed, cache>>

\* With its last monitor gone Windows shows something on the others.
Unplugs(m) ==
  /\ m \in plugged /\ plugged # {m} /\ plugged' = plugged \ {m}
  /\ shown' \in IF shown = {m} THEN (SUBSET plugged') \ {{}} ELSE {shown \ {m}}
  /\ Upsets /\ UNCHANGED <<era, resumed, cache>>

\* The machine sleeps and wakes up, its adapters renumbered; the listener is told, and
\* passes one notice on when no more have come for a while.
Wakes ==
  /\ era < MaxEra /\ era' = era + 1 /\ resumed' = TRUE
  /\ Upsets /\ UNCHANGED <<plugged, shown, cache>>

----------------------------------------------------------------------------
(* The cache.                                                               *)

\* refresh_active, the only place besides apply_layout where it changes.
Refresh(s) == /\ last_snapshot' = MergeSnapshot(last_snapshot, s)
              /\ last_layout' = MergeLayout(last_layout, s.layout, s.raw)

\* Seeded bug: a change of display throws away what was known, as waking up does.
ListsAnew ==
  /\ apply = Idle
  /\ \E s \in Enumerations(era, plugged, shown) :
       last_snapshot' = s /\ last_layout' = s.layout
  /\ UNCHANGED <<windows, apply>>

\* get_layout and list_displays: the window asks, on its own or after
\* al_cambiar_displays, which tells it to and does nothing else.
Lists ==
  /\ apply = Idle
  /\ \E s \in Enumerations(era, plugged, shown) : Refresh(s)
  /\ UNCHANGED <<windows, apply>>

Forgets == last_snapshot' = None /\ last_layout' = <<>>

\* al_despertar, which waits for the manager: once for the notices of one awakening.
Consumes == resumed /\ resumed' = FALSE
Invalidates ==
  /\ apply = Idle /\ Consumes /\ Forgets
  /\ UNCHANGED <<plugged, shown, era, apply>>

----------------------------------------------------------------------------
(* What the manager asks for, after it refreshed.                           *)

Asks(l) ==
  apply' = [Idle EXCEPT !.at = "applies", !.work = l, !.aim = {c[1] : c \in On(l)},
                        !.hashed = \A i \in DOMAIN l : l[i].edid # None]

\* toggle_display and apply_layout, which refuse to turn the last one off.
Toggles ==
  /\ apply = Idle
  /\ \E s \in Enumerations(era, plugged, shown) : Refresh(s)
  /\ \E i \in DOMAIN last_layout' :
       LET l == [last_layout' EXCEPT ![i].enabled = ~@] IN On(l) # {} /\ Asks(l)
  /\ UNCHANGED windows

\* The layouts of profiles, and those to go back to: what was listed once.  Bound: in
\* the first numbering.
Saved == UNION {UNION {{s.layout : s \in Enumerations(1, p, w)} : w \in (SUBSET p) \ {{}}} :
                 p \in (SUBSET Monitors) \ {{}}}

\* apply_profile and restore_last_layout, on what resolves.
AppliesProfile ==
  /\ apply = Idle
  /\ \E s \in Enumerations(era, plugged, shown) : Refresh(s)
  /\ \E saved \in Saved :
       LET l == Remap(saved, last_layout', {})
       IN /\ \A i \in DOMAIN l : l[i].enabled => Id(l[i]) \in Ids(last_layout')
          /\ l # last_layout' /\ Asks(l)
  /\ UNCHANGED windows

\* rollback_pending: the layout of before, as it is.
RollsBack ==
  /\ apply = Idle /\ \E l \in Saved : Asks(l)
  /\ UNCHANGED <<windows, cache>>

----------------------------------------------------------------------------
(* apply_layout.                                                            *)

Waits == UNCHANGED <<windows, cache>>

\* Seeded bug: the snapshot of the cache is taken whatever it covers.
BasesUnchecked(s) ==
  IF ~EnablesInactive(apply.work, s.layout) THEN ActiveOnly(era, shown)
  ELSE IF last_snapshot # None THEN {last_snapshot} ELSE {s}

\* To turn monitors off, what is on; to turn one on, the snapshot of the cache,
\* where it covers what is on.
Bases(s) ==
  IF ~EnablesInactive(apply.work, s.layout) THEN ActiveOnly(era, shown)
  ELSE IF last_snapshot # None /\ Covers(last_snapshot.raw, s.layout)
  THEN {last_snapshot} ELSE {s}

\* Seeded bug: outputs without a path are left to the flags of the others.
StepAnyhow(missing) == "sets"

\* Flags cannot turn on what has no path.
StepFor(missing) == IF missing = {} THEN "sets" ELSE "captures"

Begins ==
  /\ apply.at = "applies" /\ Waits
  /\ \/ \E s \in Enumerations(era, plugged, shown) : \E b \in Bases(s) :
          LET work == Remap(apply.work, b.layout, s.raw)
              missing == Missing(work, b.raw)
          IN apply' = [apply EXCEPT !.at = StepFor(missing), !.work = work, !.base = b.raw,
                         !.active = On(s.layout), !.upset = FALSE,
                         !.batch = Attachable(missing, s)]
     \/ apply' = Idle

\* SetDisplayConfig when it answers 0: it follows, if these connectors are there (and
\* some are), or does nothing.
Follows(request) ==
  /\ shown' \in {shown} \cup
       (IF request # {} /\ request \subseteq {<<m, era>> : m \in plugged}
        THEN {{c[1] : c \in request}} ELSE {})
  /\ UNCHANGED <<plugged, era, resumed>>

\* The enumeration after an apply that Windows accepted, and the cache after it.
Ends ==
  /\ \E s \in Enumerations(era, plugged, shown') :
       /\ last_snapshot' = MergeSnapshot([raw |-> apply.base], s)
       /\ last_layout' = Applied(apply.work, s.layout)
  /\ apply' = Idle

Fails == apply' = Idle /\ UNCHANGED cache

\* The first attempt; what Windows calls an invalid parameter goes on to the rescue,
\* with nothing missing.
Sets ==
  /\ apply.at = "sets"
  /\ \/ Follows(Request(apply.work, apply.base)) /\ (Ends \/ Fails)
     \/ Fails /\ UNCHANGED windows
     \/ apply' = [apply EXCEPT !.at = "captures", !.batch = {}] /\ UNCHANGED <<windows, cache>>

\* capture_pre_recovery_state: nothing is touched before it is known.
Captures ==
  /\ apply.at = "captures" /\ Waits
  /\ apply' \in {Idle, [apply EXCEPT !.at = "attaches", !.pre = {<<m, era>> : m \in shown},
                                     !.upset = FALSE]}

\* build_attach_paths, on top of what was on; and what Windows validates of it.
AttachRequest(batch) == apply.active \cup batch
Validated == (SUBSET apply.batch) \ {{}}

\* try_batch_explicit_attach: what is missing and may be attached.
Attaches ==
  /\ apply.at = "attaches" /\ UNCHANGED cache
  /\ \/ \E b \in Validated : Follows(AttachRequest(b))
        /\ apply' = [apply EXCEPT !.at = "attached", !.active = {}, !.batch = {}]
     \/ apply' = [apply EXCEPT !.at = "extends", !.active = {}, !.batch = {}]
        /\ UNCHANGED windows

\* try_topology_extend: some extended configuration of before, or nothing.
Extends ==
  /\ apply.at = "extends" /\ UNCHANGED <<plugged, era, resumed, cache>>
  /\ shown' \in (SUBSET plugged) \ {{}}
  /\ apply' = [apply EXCEPT !.at = "extended"]

\* What all that fails goes on to.
Restore == [Idle EXCEPT !.at = "restores", !.pre = apply.pre, !.upset = apply.upset]

\* Seeded bug: DisplaySwitch failing ends the rescue there and then.
SwitchesOrFails ==
  /\ apply.at = "switches" /\ UNCHANGED <<plugged, era, resumed, cache>>
  /\ shown' \in (SUBSET plugged) \ {{}}
  /\ apply' \in {[apply EXCEPT !.at = "switched"], Idle}

\* wait_child_with_timeout: it ends well, or fails or is given up, whatever it did.
Exits == apply' \in {[apply EXCEPT !.at = "switched"], Restore}

\* run_display_switch_extend.
Switches ==
  /\ apply.at = "switches" /\ UNCHANGED <<plugged, era, resumed, cache>>
  /\ shown' \in (SUBSET plugged) \ {{}}
  /\ Exits

\* The rung after each that is waited for.
Rung == [attached |-> [apply EXCEPT !.at = "extends"],
         extended |-> [apply EXCEPT !.at = "switches"],
         switched |-> Restore]

\* settle_poll, the round that decides: all is back, or the next rung, or a query
\* that failed.
Settles ==
  /\ apply.at \in DOMAIN Rung /\ Waits
  /\ \/ \E s \in Enumerations(era, plugged, shown) :
          LET l == Remap(apply.work, s.layout, s.raw)
          IN apply' = IF Missing(l, s.raw) # {} THEN Rung[apply.at]
                      ELSE [apply EXCEPT !.at = "finishes", !.work = l, !.active = s.raw]
     \/ apply' = Restore

\* finish_recovery: the layout that was asked for, now that all its paths are there.
Finishes ==
  /\ apply.at = "finishes"
  /\ \/ Follows(Request(apply.work, apply.active))
        /\ (Ends \/ (apply' = Restore /\ UNCHANGED cache))
     \/ apply' = Restore /\ UNCHANGED <<windows, cache>>

\* restore_pre_extend_topology: Windows follows, or refuses or does nothing.
Restores ==
  /\ apply.at = "restores" /\ UNCHANGED <<plugged, era, resumed, cache>>
  /\ \/ /\ apply.pre \subseteq {<<m, era>> : m \in plugged}
        /\ shown' = {c[1] : c \in apply.pre} /\ apply' = Idle
     \/ shown' = shown /\ apply' = [apply EXCEPT !.at = "unrestored"]

\* A rescue that could not be undone is only logged.
GivesUp == apply.at = "unrestored" /\ apply' = Idle /\ Waits

Next ==
  \/ \E m \in Monitors : Plugs(m) \/ Unplugs(m)
  \/ Wakes \/ Lists \/ Invalidates
  \/ Toggles \/ AppliesProfile \/ RollsBack
  \/ Begins \/ Sets \/ Captures \/ Attaches \/ Extends \/ Switches \/ Settles
  \/ Finishes \/ Restores \/ GivesUp

Spec == Init /\ [][Next]_vars
----------------------------------------------------------------------------
\* The request that goes out next, if one does.
Asking == apply.at \in {"sets", "finishes"}
Going == Request(apply.work, IF apply.at = "sets" THEN apply.base ELSE apply.active)

\* Whatever was remembered, renumbered or rescued in between, the request that goes
\* out has a path of each monitor that the layout turns on, so it is never empty and
\* never another monitor's: of a layout that knows all its hashes.
WantedIsRequested == Asking /\ apply.hashed => apply.aim \subseteq {c[1] : c \in Going}

\* The same of any layout.
NeverAcrossAdapters == Asking => apply.aim \subseteq {c[1] : c \in Going}

\* A request never names connectors of an earlier numbering, however old the cache is,
\* unless the machine woke up since the apply asked Windows.
RequestIsCurrent == Asking /\ ~apply.upset => \A c \in Going : c[2] = era

\* After a refresh what is on in the list is what Windows shows, each connector is
\* there once, and so is each monitor whose hash was read, whatever the cache held.
ListIsWindows ==
  [][Lists => /\ On(last_layout') = {<<m, era>> : m \in shown}
              /\ \A i, j \in DOMAIN last_layout' :
                   /\ last_layout'[i].at = last_layout'[j].at => i = j
                   /\ /\ last_layout'[i].edid = last_layout'[j].edid
                      /\ \E k \in DOMAIN last_snapshot'.layout :
                           last_snapshot'.layout[k].edid = last_layout'[i].edid
                      => i = j \/ last_layout'[i].edid = None]_vars

Remembers(l, m) == \E i \in DOMAIN l : l[i].at[1] = m

\* A monitor that was listed stays in the list, off or unplugged or with its queries
\* failing, until the machine wakes up or a layout without it is applied.
Remembered ==
  [][~Invalidates => \A m \in Monitors :
       Remembers(last_layout, m) /\ (Asking => Remembers(apply.work, m))
         => Remembers(last_layout', m)]_vars

\* The same with any layout.
AlwaysRemembered ==
  [][~Invalidates => \A m \in Monitors :
       Remembers(last_layout, m) => Remembers(last_layout', m)]_vars

\* An apply that fails after its rescue began leaves on the screen what was there
\* before, unless the cables or the adapters moved since or Windows refused that too.
RescueLeavesNoTrace ==
  [][/\ apply.pre # {} /\ ~apply.upset /\ apply' = Idle
     /\ apply.at \notin {"finishes", "unrestored"}
     => {<<m, era>> : m \in shown'} = apply.pre]_vars
=============================================================================
