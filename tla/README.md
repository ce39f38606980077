# A verification of Millennium

Millennium is a desktop (Windows) and Android application, a Rust/Tauri backend
under `src/src-tauri/src` with a JavaScript window under `src/src`. It has two
halves that share a process and little else:

* **LAN sharing.** Machines on one network find each other (mDNS, a UDP hello, probes),
  send files to each other over HTTPS with pinned certificates, and keep their
  clipboards in step.
* **Displays.** Turning monitors on and off, moving them, saving and applying
  profiles ("scenes", with an audio output, a list of programs and a global shortcut),
  with a safety net: a change that nobody confirms within its timeout is undone.

This directory holds TLA+ models of the parts whose correctness depends on the
order in which things happen, the TLC runs that check small instances of them, and
proofs of their main properties for all instances, checked by TLAPS. `PROJECT.json`
ties each definition to the lines of code it models.

## 1. Inventory

| Component | Source (`src/src-tauri/src/`) | State it keeps | Operations | Here |
|---|---|---|---|---|
| Confirm-or-revert net | `displays/mod.rs`, `displays/watchdog.rs` | `audio_previo`, `escena_activa`, `escena_pendiente`; a thread per armed change | toggle, rearrange, primary, load/apply/save/delete profile, confirm, revert, the watchdog's loop and report | `SafetyNet` |
| Display manager | `vendor/monarch/src/manager.rs`, `model.rs`, `store.rs` | `pending_confirmation`, `AppConfig` in memory | `apply_layout`, `confirm_current_layout`, `rollback_pending`, profiles, settings, restore | `DisplayManager`, `ConfirmOrRevert` |
| Configuration store of the displays | `displays/store.rs` | `displays.json` | load, save (temporary file and rename) | `disk` of `DisplayManager` and `Shortcuts`; `JsonStore` |
| CCD backend | `displays/enumerate.rs`, `apply.rs`, `ids.rs` | none (Windows) | enumerate, remap, build a request, apply | `Enumeration`, `Topology` |
| Topology cache, rescue | `displays/topology.rs` | last snapshot and layout | refresh, merge, apply with four rungs of rescue, put back | `Topology` |
| System events | `displays/system_events.rs` | two debounces | resume, `WM_DISPLAYCHANGE` | the resume that drops the cache, in `Topology` |
| Audio, scene actions | `displays/audio.rs`, `acciones.rs` | none of their own | set default output; start and close programs | their slots, in `SafetyNet` |
| Shortcuts of profiles | `lib.rs`, `displays/mod.rs` | shortcuts registered with Windows, the map in `displays.json` | set, clear, switch, save/delete profile, resync, register at start | `Shortcuts`; a hotkey that fires is a thread of `SafetyNet` |
| File transfer | `lib.rs` (`send_files`), `http_client.rs`, `http_server.rs` | `approval_registry`, `sessions`, `bytes_received`, `completed`, the files | prepare, approve/reject, upload, progress, cancel | `Transfer` |
| Presence | `discovery.rs`, `udp_discovery.rs`, `lib.rs` | the table of peers, confirmed route, `last_seen`, backoffs, probes under way | hello, mDNS resolved, probe, reaper, rescan, add, pair, favourite, forget; the list told to the window | `Presence`, `PresenceTimers` |
| Clipboard sync | `clipboard_sync.rs`, `lib.rs`, `http_server.rs` | last text and image seen, the anti-echo slot, who is opted in to | poll, fan out, post, receive | `ClipboardSync` |
| JsonStore, small stores | `json_store.rs`, `settings.rs`, `preferences.rs`, ... | a value in memory, its file, a temporary file, a backup | load, get, update | `JsonStore`, `SavedValue` |
| Start with Windows | `lib.rs`, `settings.rs` | a field of `settings.json`, a value in the registry | heal at boot, toggle | `Autostart` |
| Window | `src/src/main.js` | list of peers, confirmation bar, incoming modal | the user's orders | its list of peers, in `Presence`; that it gives one displays order at a time |
| Identity, updater, log, thumbnails, Windows integration, Android bridge | `identity.rs`, `updater.rs`, `runtime_log.rs`, `thumbnails.rs`, `windows_integration.rs`, `android_fs_bridge.rs` | | | not modelled: I/O, cryptography or pure conversions |

### How they interact

* The window calls the backend through Tauri commands; the backend answers and
  emits events. The displays commands of the window are serialised by `main.js`
  (`displaysBusy`); hotkeys, the start-up thread and the watchdogs are threads of
  their own, and the backend serialises nothing but its mutexes.
* All displays threads share one `MonarchDisplayManager` behind a mutex. The audio
  and scene slots are behind mutexes of their own, taken after the manager's was
  released: no lock ties a slot to the confirmation it was filled for.
* The manager calls the CCD backend and the store while its mutex is held; only
  Windows (cables, sleep, its own mind) moves under a call of the backend.
* The shortcuts are registered from the configuration the manager holds, by whichever
  command changed it last, after its lock was released.
* Sender and receiver of a file talk HTTPS. A request the sender gave up is, at
  the receiver, a future that is dropped at one of its awaits, later.
* The handlers of a session share its entry in `sessions` (an `RwLock` around the
  map, atomics inside) and the file on disk.
* Presence is fed by datagrams, mDNS, a probe scheduler, a reaper and the window's
  commands into one table; each of them that changed something builds a list under the lock
  and emits it after. The window asks for its first list, then begins to listen.
* The clipboard is written by the user and by the receive handler and polled by a
  thread; what it found goes through a queue to a task that posts to each partner.
* Every store writes a temporary file and renames it, with its mutex held.

### What is hard

* A change of layout that "failed" may be on the screen, and one that succeeded may
  not be: the return code of Windows says little. A rescue has four rungs, each of which
  may do something, nothing, or the wrong thing.
* Every way out of a command (early return, `?`, failed read-back) has to leave a
  watchdog behind; the watchdog is a sleeping thread that will find whatever is
  pending when it wakes, which may be a younger change.
* Slots without a generation, filled and emptied under other locks than the
  confirmation they belong to.
* A save that fails after the state in memory changed, a process that dies between
  the save and the next step.
* Connectors are renumbered when the machine wakes up, while a cache, a layout asked for
  and profiles saved long ago still hold the old numbers.
* A resumed upload trusts a counter that the dropped handler of the previous
  attempt may still be moving; its connection may break between any two awaits.
* The user's answer, its 60 s timeout, the sender's cancel and a sender that is
  gone all race for one ticket.
* A route read before an await and used after it; lists of peers that overtake each
  other; clocks of 2, 5, 6, 15 and 300 seconds that must not conspire to drop a live peer.
* A clip received is indistinguishable from one copied but for one slot of memory.
* Two copies of one truth (the setting and the registry; the map and the registered
  shortcuts), each side of which may fail on its own.

Every such place is a `hazard` of `PROJECT.json`, at its line, with the properties
that would notice it going wrong or a note on why none does.

### What makes each component correct

* *Net:* a change that is held is chased until it is settled or reported; the layout
  to go back to is never replaced; no slot of one change is used for another; a
  scene runs only when committed; every watchdog thread ends.
* *Manager:* while a change is unsettled the file on disk names the layout before it,
  whatever fails; every layout asked of Windows has exactly one primary.
* *Backend:* a request has a path of every monitor it is to turn on, of the present
  numbering; the list shows what Windows shows and keeps what is off; a rescue that
  fails leaves no trace.
* *Shortcuts:* what is registered is what is saved; a shortcut set with success works.
* *Transfer:* what a resume skips is on the disk; a file reported delivered is whole;
  a session is announced once, and only when all its files were; nothing happens
  before a yes; `send_files` returns.
* *Presence:* the source of a datagram is the route; a peer that runs is not dropped and
  one that comes back is found in time; a forgotten peer stays gone; the window ends up
  with what is known.
* *Clipboard:* what was received is not sent on; when all is at rest partners hold the last
  copy; it comes to rest.
* *Stores:* the file is always, as a whole, the last value saved; what starts with Windows
  is what the settings say.

## 2. Modules

```
ConfirmOrRevert            the contract of the display manager (abstract)
   ^ EXTENDS        ^ refined by
SafetyNet        DisplayManager          Enumeration <- Topology       Shortcuts

SavedValue       the promise of a store (abstract)
   ^ refined by
JsonStore <- Autostart        Presence   PresenceTimers   ClipboardSync

Delivery                   the promise of a send (abstract)
   ^ refined by
Transfer
```

`MC<module>` gives an instance its constants; `<module>Proofs` holds the theorems:
`SafetyNetProofs`, `DisplayManagerProofs`, `TransferProofs`, `PresenceProofs`,
`PresenceTimersProofs`, `ClipboardSyncProofs`, `TopologyProofs`, `CommandsProofs` (the settings and the
shortcuts; names of `Autostart` carry its name, for the two to be extended together).

**`ConfirmOrRevert`** is what callers of `MonarchDisplayManager` rely on: a
layout on the screen, at most one open confirmation with the layout it replaced,
and the operations that open or end it. Every call of the backend leaves the screen
as it was or as asked, whatever it answers. Confirmations are numbered; the number
is history, the code has none.

**`DisplayManager`** is the manager with its contents: layouts made of outputs that
are off, on or primary, `AppConfig` in memory (`config`) and in `displays.json`
(`disk`), saves that fail (`Unsaved`: memory changed, file not) and a process that
dies between the save and the end of an operation (`ApplyRejected`,
`RollbackInterrupted`, `Restart`). It is shown to implement `ConfirmOrRevert`,
so what is proved of the threads holds of the manager they really call.
`base`, history, is the layout before the change that is not settled.

**`SafetyNet`** extends the contract with the threads of `displays/mod.rs`. One action
is one section under a lock; `pc` tells apart the places of a command between two
locks. Correspondence:

| Code | Model |
|---|---|
| `toggle`: apply, re-enumerate, immediate rollback | `Toggle`, `ToggleVerify`, `ToggleUndo`, `ToggleUndoFails` |
| `hacer_primario`, `aplicar_layout` (through `aplicar_con_red`) | `Rearrange` |
| `cargar_perfil`, `aplicar_perfil_directo` | `LoadProfile`, `CommitNow`, `EmergencyNet` |
| `aplicar_audio_de_perfil`, `marcar_escena_pendiente`, `armar_watchdog` | `CaptureAudio`, `MarkScene`, `ArmWatchdog` |
| `correr_ciclo_de_escena` | `RunScene` |
| `confirm`, `revert`: the lock, then the audio slot, then the scene slot | `Confirm`/`Revert`/`SettleFails`, `ClearAudio`, `TakeScene`/`DiscardScene` |
| `borrar_perfil` with `olvidar_escena_si_es` | `DeleteProfile` |
| `watchdog::correr` and `reportar_desenlace` | `DogFindsNothing`, `DogWaits`, `DogReverts`, `DogFails`, `DogClearsAudio`, `DogDiscardsScene` |
| the process ends and starts again | `Restart` |

`dog[g]`, `vueltas[g]` and `waitFor[g]` are the locals of the thread armed for
confirmation `g`. `origin`, `committed`, `abandoned` and the numbers in the slots are
history: actions write them and only properties read them. Reading the slots'
numbers in a guard would model code that is not there.

**`Enumeration`** has the backend's pure algorithms: what an enumeration may yield
(`Enumerations`: what is shown, what of the rest Windows' database or its full list of paths
has, hashes that could not be read), the merges of the cache (`MergeSnapshot`,
`MergeLayout`, `StaleDuplicate`), the remap of a saved layout by hash, then by
number (`Remap`), and the paths of a request. A connector is `<<m, era>>`: the target of
monitor `m` under the adapter numbers of one era.

**`Topology`** is `WindowsDisplayBackend` with Windows around it. `apply.at` is how far an
`apply_layout` is; a step lies between two calls that ask Windows for a change or for time:

| Code | Model |
|---|---|
| `get_layout`, `list_displays` (`refresh_active`) | `Lists` |
| `al_despertar`, `invalidate` | `Wakes`, `Invalidates` |
| toggle, profiles, rollback of the manager | `Toggles`, `AppliesProfile`, `RollsBack` |
| the base of an apply, its remap, what has no path | `Begins` (`Bases`, `Missing`, `StepFor`) |
| `SetDisplayConfig` | `Sets`, `Finishes` (`Follows`: it may answer 0 and do nothing) |
| the rungs: explicit attach, extend, `DisplaySwitch`, each with its wait | `Captures`, `Attaches`, `Extends`, `Switches`, `Settles` |
| `restore_pre_extend_topology` | `Restores`, `GivesUp` |

**`Shortcuts`** is every command that changes a shortcut, the general switch or the set of
profiles, then `resync_profile_shortcuts` step by step (unregister all, read, register one
at a time), with other programs taking and letting go of combinations, and saves that
fail. `held`, `stale` and `assigned` are history.

**`Transfer`** is one `send_files` and its receiver. `sender` is where the loop over
files and attempts is; `request`, `ticket` and `open` are
`handle_prepare_upload`, the entry of `approval_registry` and the session;
`granted` is history: a yes (of the user, or of the list of favorites) reached the
handler while it listened. `post[<<f, a>>]` is the `handle_upload` of attempt `a` at file `f`, cut at its awaits
(lookup, open, counter stored, chunks, flush, completion, "is that all?", removal of
the session); `received`, `completed` and `disk` are what its handlers share. Data comes
in chunks that know their file and number, so a hole, a duplicate or a chunk of another
file on a path is seen. A handler whose request is over (`~Attached`) still reads what is
on the wire, and ends by seeing the cut or by being dropped at an await.

**`Delivery`** is what both sides of a send rely on: after a yes the files arrive one after the other, one that is whole stays whole,
the receiver is told of a file and the sender that it is there only when it is, and of the session once, when every file was announced.
`Transfer` implements it while it is calm.

**`Presence`** follows the record of one peer. Five actors write it under the mutex: `udp`
(`Hello`), `mdns` (`Resolved`), `reaper` (`Reaps`), `sched` (`Probes`, `Answers`,
`Unanswered`, its backoff and the permit of a rescan) and `ui` (the commands). Each that changed something goes on to build a list
(`Builds`, a second lock) and to emit it (`Emits`, no lock). `boot` is the window between its
first question and its listening. Time is a record's age (`Ageing`); a probe in flight
is the route it was read from. `heard` and `forgotten` are history.

**`PresenceTimers`** has the clocks of the same peer, in seconds: the hello every 5, the
reaper and the scheduler every 2, `peer_ttl` 15, probes that time out after 5, backoffs from 6
doubling to 300, `probe_wake` with its one permit, and passes that wait for all of
their probes, those of dead peers too. `Conditions` is a set of records: each is a kind of
network and peer (are there hellos and how many are lost in a row, does it answer probes and
how late, are there dead peers, does the user rescan, how often does it come and go).

**`ClipboardSync`** has, of each machine, the clipboard of the system with its sequence number,
the poller between its gates (`Wakes` asks who opted in, `Looks` reads the number,
`ReadsKnown`/`ReadsEcho`/`ReadsNew` the content, `Notes` writes the slot and the queue), the task
that fans out, and the handler of a post (`Accepts` notes the slot, then `WritesReceived`).
`held.from` and `held.private` are history: whence a clip came, and whether it was
copied while nobody was opted in to.

**`SavedValue`** is what a store promises; **`JsonStore`** is `json_store.rs`: memory, the file,
the temporary file, threads between their steps, a process that dies, a file that does not parse.
**`Autostart`** extends it with `settings.json` and the entry in the registry: heal at boot, toggle
(the system first, then the store), updates that leave the entry with a path that is gone; it
is shown to implement `SavedValue`.

## 3. Runs

| Run | Question | Distinct states |
|---|---|---|
| `net` | every interleaving of the window, a hotkey thread and the watchdogs, failed saves, restarts: is a held change always chased, its way back never replaced, settled or given up in the end, and does every watchdog end? | 165 214 |
| `net_slots` | are the slots always those of the change being settled, and do only committed scenes run? | 180 718 |
| `manager` | does the file name the way back, and does the manager keep the contract? | 78 576 |
| `transfer` | three files, breaks noticed before the retry: whole, after a yes, and is the send a delivery? | 269 647 |
| `transfer_worst` | overlapping handlers, lost queries, failing disk: announced only when all were, and does the send end? | 186 670 |
| `transfer_overlap` | is a file announced as verified whole when a handler outlives its request? **violated** | |
| `presence` | two addresses, five actors: does the route of a datagram hold, does the window show what is known, does a forgotten peer stay gone, is a kept peer found and a gone one seen to be gone? | 936 964 |
| `timers` | under three kinds of network: is a live peer never dropped, is one that comes back found in time? | 4 949 404 |
| `clipboard` | three machines: no echo, the last copy spreads, everything comes to rest? | 349 195 |
| `store` | two threads, deaths, a spoiled file: whole or not at all, and is the entry what memory says? | 216 774 |
| `shortcuts` | two profiles, two combinations, another program, failed saves: is what is registered what is saved? | 89 416 |
| `topology` | two monitors on two adapters, renumbered once: requests, list and rescue | 2 585 913 |

Type invariants of `net`, `manager` and `transfer` are conjuncts of `NetInv`, `ManagerInv` and
`TransferInv`; that of `presence` is only proved.

### Bounds, and why they are enough

* *Layouts of the net:* two. The net only compares layouts for equality (is there anything to
  do, did the screen follow); the manager has two monitors, every layout of which is
  enumerated (the smallest number where turning off the primary has to choose another,
  and where turning off the last is refused).
* *Confirmations:* `MaxApplies` = 2 (3 in `net_slots`, where a third change may find
  what the first two left). A watchdog older than the live change, and a change younger
  than the one being reported, both need two.
* *`MaxVueltas`* = 2 for the 5 of the code: the smallest where a round can be used
  up without being the last. The proofs hold for any number.
* *Threads:* the window and one hotkey. Hotkey threads differ in nothing; a second adds
  interleavings of `RunScene` alone.
* *Topology:* two monitors whose adapters number their targets alike, so that a number alone
  does not tell them apart; `MaxEra` = 2, one renumbering; one monitor whose
  hash may not be read (`Flaky`); one thing at most moves under one apply (`Upsets`), while
  it waits or between its question and its answer. Saved layouts are of the first numbering.
  Any enumeration that Windows may give is taken at each query.
* *Shortcuts:* two profiles and two combinations: enough for one to take the other's, and for a
  resync to be between the two. No bound on the number of commands.
* *Transfer:* three files of 2, 1 and 0 chunks (an empty file has no "end reached"
  shortcut) with 3 attempts each, as `MAX_ATTEMPTS`; or, with handlers that overlap,
  two files of one chunk with 2 attempts (with a third there are more than seven million states). Overlap
  and cut need one file of 3 chunks: one lands, one is counted twice, one is skipped.
* *Presence:* two addresses (the real one and a virtual adapter's); one command of the user
  (`MaxClicks`), one move of the peer (`MaxMoves`), two actors with a list to tell at once
  (`MaxTelling`): the smallest at which lists cross, or a command meets a probe or a roaming
  peer. A peer that was paired before starts in both stores. The record itself is not bounded: hellos, resolves, ages and probes go on for ever.
* *Timers:* the code's own numbers. Clocks are relative, so the graph is finite; two comings and
  goings (`flips`), which is what it takes to find a backoff of 300 s at its worst.
* *Clipboard:* a chain of three (the middle shares with both ends, who do not share with each other), two texts
  and an image, three copies, one change of who is opted in to. An echo needs two machines, an echo passed on three.
* *Stores:* two threads, two deaths (one in the repair of another), one spoiled file.
* `CHECK_DEADLOCK FALSE` where the system may rest: a send ends, the user and the peer may
  do nothing more, and clipboards settle. `net`, `net_slots`, `manager`, `store`, `shortcuts` and `topology`
  are checked for deadlock.

### Assumptions as constants

* `Prompt` (net): a command or report that has begun is over before the deadline
  passes and before the next command begins. The slots' properties need it: the
  timeouts are seconds and the sections between two locks are milliseconds, yet
  nothing in the code enforces it. `net` does not assume it.
* `StoreMayFail` (net): `FALSE` in `net_slots` because `net_unsaved.cfg` shows what
  happens otherwise.
* `Overlaps`, `ProgressLost`, `DiskFails` (transfer): when all are `FALSE`, and names
  differ, the send is *calm* (`Calm`). `transfer_overlap` and `transfer_names.cfg` show why.
* `Ordered` (presence): lists are emitted in the order they were built. The time between is microseconds,
  and `presence_order.cfg` shows what happens otherwise. `Alone`: a peer that is being probed
  as it is forgotten does not count as forgotten; `presence_forget.cfg`. `DiskFails`: `FALSE` in `presence`.
* `Calm`, `InOrder` (clipboard): the user copies when the last copy has come to rest; posts do not overtake
  each other. The run assumes the first only, and `clip_loop.cfg` and `clip_stale.cfg` show what it hides.
* `Commands` (shortcuts) and `Toggling` (autostart): one at a time in the runs, as the window sends displays commands: of two at once, one may
  read the map before the other's change and register after it (`RegisteredAreSaved` fails when `shortcuts.cfg` is given two).
  The window does not keep the user from toggling twice (`store_toggles.cfg`).

### Fairness

* Net: weak fairness of the continuation of every command, of every watchdog and of the
  clock, that is, the operating system runs each thread that can run, and time
  passes. Nothing is assumed of the user, the monitors, or the backend: a rollback may be
  refused for ever, which is why `EveryChangeIsSettled` has the alternative that the
  watchdog gave the change up and said so.
* Transfer: weak fairness of the sender's steps and of its requests ending
  (`Breaks`, `AskBreaks`: `reqwest`'s timeout of 300 s). Nothing is assumed of the receiver or
  of the person asked. `SendEnds` holds because attempts are counted.
* Presence: weak fairness of the reaper, the scheduler, its probes (each ends, by its answer or its timeout) and
  of telling the window. Nothing makes the peer send, be resolved, roam or come back, nor the user click:
  `KeptPeerIsFound` rests on probes alone, and on the peer being where the store says.
* Clipboard: weak fairness of the poller's thread, the fan-out and the handlers; strong
  fairness of a read that succeeds, as a clipboard another program holds open is released again and read at a later tick.
  Nothing makes the user copy.
* Timers need none: `FoundInTime` is a safety property with a bound in seconds.

## 4. Proofs

All theorems hold for every value of the constants that meets the modules' ASSUMEs; what a theorem needs beyond them is in its own
ASSUME and named below.

**`SafetyNetProofs`.** `NetInvariant` proves `NetInv` inductive. `Chased` (ADR-009) alone
is not: that the watchdog of the live change is asleep is only worth something if that
watchdog will act on it. So `NetInv` adds that the live confirmation is the last one
opened and nothing refers to a later one (`Numbered`), that a sleeping watchdog has a round
left (`RoundsLeft`), and that a watchdog that may still meet its own confirmation waits
for that one's deadline (`OwnDeadline`). From it, `ChangeIsChased` and `TypesHold`;
`PreviousLayoutIsKept` is a property of every step and needs the types only. No
assumption on saves, promptness or the number of threads.

The slots carry no generation, so that they belong to the change being settled
(`SlotsBelongToTheSettled`, `SlotsAreEmptied`, `ScenesRunWhenCommitted`, `ActiveSceneIsCommitted`) is proved
under `Undisturbed`: `Prompt`, no failing save, only the window gives orders. Each part is needed, TLC has a counterexample without it:
a watchdog that reports late empties the slots of the next change; `net_unsaved.cfg` has the second and `net_two_cycles.cfg` the third. `SlotsInv` is the generation argument: whoever is at work is at work on the last
confirmation (`AboutTheLast`), the slots are that one's or empty (`SlotsOfTheLast`), with nothing open a slot is full only
while someone is on his way to empty it (`OnTheWayOut`), the slot holds the scene of the profile being applied
(`SceneOfTheChange`), and the active scene is the committed one but for the section between
a commit and its cycle (`SceneOfTheCommit`).

**`DisplayManagerProofs`.** The lemma on `NormalizePrimary` (something enabled in,
exactly one primary out) gives the types (`OnePrimary`: every layout asked for, kept or
saved has exactly one primary). `WayBack` needs that the copy in memory names
the way back too (`InMemoryToo`), since the next save of any operation writes the whole
configuration. `ManagerImplementsContract` is the refinement: Init to Init, each action to
an action of the contract or a stutter.

**`TransferProofs`.** `TransferInv` has eight parts beside the types: nothing has
happened before the yes (`Consent`), one handler is at work (`OneHandler`), the counter of its file is what it skipped plus what it read
(`Follows`), within what was sent (`Bounded`), what is counted is on the disk
(`Sound`) and nothing else of the file is (`Exact`), files before the current one are all counted and those after not at all
(`InOrder`), and told once (`ToldOnce`). The argument: under `Calm` a retry finds every earlier handler over,
hence the counter it is told is the one its own handler will store, hence the chunks it
skips are on the disk and the ones it writes follow them. From it `ResumesAreSound`,
`DeliveredFilesAreWhole`, `VerifiedFilesAreWhole` and `AnnouncedOnce`, and the refinement,
`SendImplementsDelivery`: `Exact` makes a file whole exactly when all of it is counted, so that the open that empties a file only ever empties one
of which nothing had arrived; and a handler at work is of the file the sender is at. `ConsentComesFirst`, `AnnouncedWhenAll` and
`TransferTypes` need no assumption: they hold with overlapping handlers, lost queries and
a failing disk (the first by `Consent`, inductive on its own; the second by
`Tallied`: what is completed was reported, and a handler that found the session
complete leaves it complete).

**`PresenceProofs`.** `Typed`, and `HelloWins`: the address a peer's last datagram came from is its
route and is confirmed, for any addresses and whatever mDNS resolves, probes answer and the
user does. That is what "UDP always wins the route" says, and it holds although a probe of an older
route may end after the datagram: the answer refreshes the record there is, and its route is left alone.
`WindowIsRight` is `QuietWindow`, when lists are emitted in order and saves go through (`Told`). Between a change
and the list that tells it the window is simply old, so the invariant (`WindowInv`) only speaks when nobody has a list still to
build: then a list that was built is what is known (`ListIsNew`), and so is the one that is shown when none is on its way
(`ShownIsNew`). A save that fails changes the store in memory and tells nobody, hence the second assumption.
`ForgottenIsGone` needs `Alone` and nothing of the disk: while a peer counts as forgotten no store has it and no probe is on
its way to it (`Unknown`), so none can begin.

**`PresenceTimersProofs`.** Both properties of `timers`, for every set of conditions and every number of comings and goings.
`PeersAreKept`: while at most one hello in a row is lost, or while it answers within three seconds,
dead peers in the passes or not, the reaper never drops a peer that runs. With hellos (`Paced`) the age of the record is tied to the
clock of the datagrams: the age plus the time to the next is at most 5, or 10 after a loss, and the reaper needs 15. With
probes (`Caught`) it is tied to the scheduler: between passes it is at most 11 and younger the longer the next tick takes, a pass that left
it out began when it was fresh, and one that probes it has the answer in time. `PeersAreFound`: a peer that comes back and
answers before the probe's timeout is found within the longest backoff, a probe that times out and its own answer
(`Waits`), and after a rescan, with no dead peer in the passes, within the probe that was under way and one more (`Asks`); the probe that may
have begun before it came back (`doubtful`) is why one timeout is in both bounds.

**`ClipboardSyncProofs`.** `ClipboardTyped`, and, while the user copies at rest only (`Calm`), `ReceivedIsNotSentOn` (`NoEcho`)
and `LastCopyArrives` (`LastCopySpreads`), for any finite set of machines, any relation of sharing and any clips. At rest nothing is under way, so
everything under way is of one copy: only the machine of that copy queues it and posts it, and any other whose clipboard
is still to be read holds it and has noted it, which is what its gate compares with (`Wave`). An echo would
be a machine that is neither. `Spreading` adds that, until a partner has it, the copy is still to be read, about to be handed over,
queued, or posted to that very partner: no gate drops it. Machines are finite because the fan-out makes a sequence of posts out of a set.

**`TopologyProofs`.** `RequestsAreCurrent`: a request that Windows sees has paths of one numbering of the adapters, today's, unless something
moved since the question. That is the reason for the merges and for what `StaleDuplicate` drops, and it holds for any
finite set of monitors and any number of renumberings: the cache never keeps paths of two numberings together
(`OfOneEra`), a path of what is on is always among those of the base, so a base that has what is on today is of today (`Current`).
`RescuesLeaveNoTrace`: a rescue that is given up leaves on what was on before it; the net is known, and not empty, from its first change
of the screen on (`Netted`).

`RequestsAreComplete`, `ListsShowWindows` and `MonitorsAreRemembered` rest on what the merge and the remap compute for every list. Both
are recursive functions of the position in the list, and the induction over it is one of sets: the least position outside the set of those
where a fact holds would have its predecessor inside (`SetInduction`, from the library's well-founded minimum), and `RecursionExists`
says that a recursive definition by steps means what it says. From these:

- `EnumerationLists`: what a query answers has each connector once, of today's numbering, on exactly if Windows shows it; an output's hash is its
  own monitor's or none (`Outputs`).
- `MergeKeeps`: the merged list has each connector once, each as it is listed or else off; everything listed; and all that was remembered
  but stale duplicates. A stale duplicate's hash is listed at another connector, hence its monitor stays (`MergeLists`).
- `RemapKeeps`: no output comes out twice, each keeps whether it is on, and its hash if it has one, since no replacement is taken twice or is among those
  known. Without a hash the candidate may be another monitor's, which is why `WantedIsRequested` speaks of `hashed` layouts only (`topology_guess.cfg`).

The invariant gains two parts. `Listed`: what is remembered are lists of outputs. `Worked`: the layout an apply works on has no output twice; with
its hashes it still turns on all that was asked for, after any number of remaps; and when it goes out it goes out on paths that hold all it turns on.

**`CommandsProofs`.** Of the settings: `SettingsTyped` includes that the store's lock has one holder;
`SettingsImplementSavedValue` is the refinement of `SavedValue`, with `file` for the file and `inner` for memory: writing
the temporary file is a stutter, the rename a save. `EntryFollows` proves
`EntryIsMemory` for any number of threads of which one toggles (`OneToggler`): its invariant (`Followed`) says that after a heal the
entry is what memory holds, or what the thread between the system and the store was asked for.

Of the shortcuts, with one command at a time (`OneCommand`): `RegisteredAreTheSaved` and `AssignedShortcutWorks`. The invariant
(`ShortcutsInv`) has one statement for each place of a resync (`Steady`): what is registered so far, what is to do and what could not be
add up to what memory holds; two profiles never have one combination (`Distinct`), in memory or in the file.
`ShortcutsTyped` needs no assumption.

**Only model-checked:** the five liveness properties (`EveryChangeIsSettled`, `EveryWatchdogEnds`, `SendEnds`, `Followed`
of `Presence`, `Settles`), which rest on fairness. Every invariant and every other action property that a passing run checks
has its theorem.

## 5. Where the code and its words part

`transfer_overlap` is a `finding` of `PROJECT.json`: two handlers of one file add to one counter, and the
file is announced `verified: true` with a hole. The comment says a final size check catches it; there is none.

Each of the other configurations violates the property it checks, and shows where an assumption of a run is needed or where a
sentence of the repository says more than the code does (`tlc -config X.cfg MC...`):

| Configuration | Module, property | What TLC shows |
|---|---|---|
| `net_exhausted.cfg` | `MCSafetyNet`, `SlotDropIsDue` | A watchdog that only waited for a younger change still uses up its rounds; at the last it reports `NoPudoRevertir` and empties the slots of that younger, live change (`watchdog.rs:198`). The comment at `mod.rs:535` says no interleaving does. |
| `net_unsaved.cfg` | `MCSafetyNet`, `OnlyCommittedRuns` | A revert whose rollback went through and whose save failed returns before the scene slot is emptied (`mod.rs:805`); the next confirm of any change runs the scene that was reverted (`mod.rs:1548-1550` and `DECISIONS.md:471` say only a commit does). |
| `net_two_cycles.cfg` | `MCSafetyNet`, `LastCommitIsActive` | Two scene cycles at once (`mod.rs:1493`, `1515-1525`); the one that ends last names the active scene, not the commit that came last. |
| `transfer_cut.cfg` | `MCTransfer`, `DeliveredIsReported` | The last chunk arrived and the handler was dropped before it finished; the retry returns Ok without a request (`http_client.rs:441`) and the receiver never announces the file. |
| `transfer_names.cfg` | `MCTransfer`, `SavedIsWhole` | Two queued files with the same name go to one path (`http_server.rs:605`), and both are counted as saved (`main.js:3884`). |
| `presence_order.cfg` | `MCPresence`, `QuietWindow` | Two lists emitted in the opposite order of their snapshots: the window keeps the older (`discovery.rs:400`). |
| `presence_boot.cfg` | `MCPresence`, `ListeningIsRight` | A list emitted between the window's first question and its listening is lost (`main.js:3744`, `3752`). |
| `presence_forget.cfg` | `MCPresence`, `ForgottenStaysGone` | A probe under way as the peer is forgotten brings it back (`lib.rs:626-629`, `discovery.rs:574`). |
| `timers_worse.cfg` | `MCPresenceTimers`, `Kept` | With two hellos in a row lost, or an answer that takes four seconds and dead peers in the pass, a peer that runs is dropped for a while: the margins are exactly those of `NoFlap`. The comment at `discovery.rs:342` says "a lost hello or two doesn't flap it"; one does not, two may. |
| `clip_loop.cfg` | `MCClipboardSync`, `Settles` | Two clips copied at once on two machines chase each other for ever: the slot holds one clip (`clipboard_sync.rs:35-38`), and each received overwrites it. |
| `clip_stale.cfg` | `MCClipboardSync`, `LastCopySpreads` | Even in order: clips that cross while the user copies on leave the machines apart. |
| `clip_retro.cfg` | `MCClipboardSync`, `NotRetroactive` | "content copied while sync was OFF isn't retroactively sent": a clip copied within one period before the opt-in is. |
| `store_toggles.cfg` | `MCAutostart`, `EntryIsMemory` | Two toggles at once cross between the registry and the store, and the two disagree until the next boot. |
| `topology_guess.cfg` | `MCTopology`, `NeverAcrossAdapters` | A saved output without a hash, and one candidate left, of another adapter: it is taken (`topology.rs:764-790`); the comment above `:725` says it never guesses across adapters. |
| `topology_forgets.cfg` | `MCTopology`, `AlwaysRemembered` | Applying a layout without a monitor that is off drops it from the cached layout, which the comment of `BackendCache` (`:76-79`) means to prevent; the list shown beside it keeps it. |

Read while modelling, and outside any property: `SetDisplayConfig`'s 0 is believed after the plain and the final apply; a
re-enumeration that fails after an apply that went through returns an error and leaves no confirmation; the settle of the rescue counts paths
of the database as present; `json_store.rs:96-100` ("committed on-disk state always matches the last mutation") holds only
when saves succeed; a second corrupt load overwrites the first backup, and a backup that failed does not stop the next update from
overwriting the file; a store that cannot be read (rather than parsed) ends the setup; a command that could not save leaves memory changed and tells nobody.

## 6. Limits

* A section under a lock is one step. A monitor plugged or unplugged during such a section
  of the manager is taken before or after it; in `Topology` it may come between any two questions to Windows.
* Positions, resolutions, refresh rates, colour profiles and gamma are left out, as is the list of
  `DisplayInfo` kept beside the layout, merged by the same rules. Monitors have one connector each; twins are told apart by
  the device path in their hash.
* The net takes the backend as `ConfirmOrRevert` says (the screen follows or stays); what a failing rescue may leave in between is
  in `Topology` only.
* Writing a file that is then renamed over another is taken as whole-or-nothing by `DisplayManager` and `Shortcuts`; `JsonStore`
  has the steps. A power failure that loses what a rename had not flushed is left out.
* `DeleteProfile` of the net has no failing save (it is then a stutter there), and a
  profile deleted may be applied again, standing for one saved anew.
* `Transfer`: no Android copy to Downloads, no receiver that restarts, one send at a time;
  tokens, path and hash checks are left out (`send_files` sends no hash). A write that
  `tokio::fs::File` still has in flight when the handler is dropped is taken as done. The
  operating system's buffers are the disk.
* `Presence` follows one peer: peers meet only in a list and in a pass of the scheduler, which
  `PresenceTimers` has. Aliases, icons and names are left out of the list. The answer of a stranger to
  a probe (`DRIFT`) is left out: the pinned handshake refuses it first. The two presence modules are not composed: one has
  every order without time, the other time with one record.
* `ClipboardSync`: size limits, encodings and the text an image may also offer are left out; a post that fails on the network
  is one that is refused. A machine that restarts is left out.

## 7. Not modelled, and the plan

* *Window:* the confirmation bar and the incoming modal. The bar reads a snapshot in two steps and loads may answer out of order
  (`main.js:1940-1965`, `3926-3963`); a second request replaces the modal of the first (`3828`). They are next: `Banner`, composed
  with the events of `SafetyNet` and `Transfer`, in place of the assumption that the user's answer reaches the change it was shown.
* *System events:* the two debounces. Their one effect on state, that the cache is dropped once after the notices of one
  awakening, is in `Topology`.
* *Updater:* download, verify, run the installer; a marker read at the next boot. Sequential, around I/O.
* *Identity, log, thumbnails, Windows integration, Android bridge:* cryptography, files and platform calls without an order that matters.
* *Audio and scene actions:* what the programs and the audio service do; their slots are in `SafetyNet`.
* `last_displays`, the migration of Monarch's own file, geometry.
