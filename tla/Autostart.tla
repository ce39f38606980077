------------------------------ MODULE Autostart ------------------------------
(***************************************************************************)
(* settings.json and the entry that starts the program with Windows.  The  *)
(* setting is a field of the store and the entry is a value in the         *)
(* registry: two things that commands and the boot keep equal, while       *)
(* either may fail, the process may die in between, and an update of the   *)
(* program leaves the entry with the path of an executable that is gone.   *)
(***************************************************************************)
EXTENDS JsonStore

CONSTANT Toggling   \* the threads that toggle the start with Windows

VARIABLES entry,    \* HKCU\...\Run: "none", "current" or "stale"
          boot,     \* how the heal went: "off" (not yet), "healed", "failed", "skipped"
          asked     \* of each thread: what it told the system and not yet the store

autostart == <<store, entry, boot, asked>>

Settings == [start_with_windows : BOOLEAN, rest : BOOLEAN]

ASSUME AutostartAssumption == Values = Settings /\ Toggling \subseteq Threads

AutostartInit ==
  /\ StoreInit
  /\ entry \in {"none", "current", "stale"}
  /\ boot = "off" /\ asked = [t \in Threads |-> "nothing"]

Boots == /\ Loads /\ boot' = "off"
         /\ UNCHANGED <<entry, asked>>

\* The setup rewrites the entry to the program that runs, or drops a ghost of it;
\* disable and enable may each fail.
HealsAlways ==
  /\ running /\ boot = "off"
  /\ IF inner.start_with_windows
     THEN \/ entry' = "current" /\ boot' = "healed"
          \/ entry' \in {"none", entry} /\ boot' = "failed"
     ELSE \/ entry' = "none" /\ boot' = "healed"
          \/ entry # "none" /\ entry' = entry /\ boot' = "failed"
  /\ UNCHANGED <<store, asked>>

\* Not from a default that stands for settings nobody could read.
Skips == /\ running /\ boot = "off" /\ loaded_corrupt
         /\ boot' = "skipped" /\ UNCHANGED <<store, entry, asked>>

\* Seeded bug: a boot with the setting on trusts the entry it finds.
HealsTrusting ==
  \/ Skips
  \/ /\ ~loaded_corrupt
     /\ IF running /\ inner.start_with_windows /\ entry # "none"
        THEN boot = "off" /\ boot' = "healed" /\ UNCHANGED <<store, entry, asked>>
        ELSE HealsAlways

Heals == (~loaded_corrupt /\ HealsAlways) \/ Skips

Tells(t, b) == asked' = [asked EXCEPT ![t] = IF b THEN "on" ELSE "off"]

\* set_start_with_windows: the system first, and nothing else when it refuses.
Toggles(t, b) ==
  /\ running /\ boot # "off" /\ asked[t] = "nothing" /\ step[t] = "idle"
  /\ entry' = IF b THEN "current" ELSE "none"
  /\ Tells(t, b)
  /\ UNCHANGED <<store, boot>>

\* Then the store, which may fail to save what it has changed.
Records(t) ==
  /\ asked[t] # "nothing"
  /\ Changes(t, [inner EXCEPT !.start_with_windows = (asked[t] = "on")])
  /\ asked' = [asked EXCEPT ![t] = "nothing"]
  /\ UNCHANGED <<entry, boot>>

\* The setters of the other fields.
Sets(t, b) ==
  /\ boot # "off" /\ asked[t] = "nothing"
  /\ Changes(t, [inner EXCEPT !.rest = b])
  /\ UNCHANGED <<entry, boot, asked>>

Persists(t) == /\ WritesTmp(t) \/ Renames(t)
               /\ UNCHANGED <<entry, boot, asked>>

Crashes == /\ Dies
           /\ boot' = "off" /\ asked' = [t \in Threads |-> "nothing"]
           /\ entry' = entry

Breaks == Spoils /\ UNCHANGED <<entry, boot, asked>>

\* An update of the program, while it does not run.
Updates == /\ ~running /\ entry = "current" /\ entry' = "stale"
           /\ UNCHANGED <<store, boot, asked>>

AutostartNext ==
  \/ Boots \/ Heals \/ Crashes \/ Breaks \/ Updates
  \/ \E t \in Threads :
       \/ Records(t) \/ Persists(t)
       \/ \E b \in BOOLEAN : (t \in Toggling /\ Toggles(t, b)) \/ Sets(t, b)

AutostartSpec == AutostartInit /\ [][AutostartNext]_autostart
-----------------------------------------------------------------------------
\* The settings, and the state of the entry.
AutostartTypeOK ==
  /\ StoreTypeOK
  /\ entry \in {"none", "current", "stale"}
  /\ boot \in {"off", "healed", "failed", "skipped"}
  /\ asked \in [Threads -> {"nothing", "on", "off"}]

\* Whatever the threads, the failed writes and the deaths, settings.json is the
\* saved value that json_store.rs promises: it only ever becomes, as a whole, what
\* memory holds, and what a boot finds is what was saved last.
ImplementsSavedValue == Promise!Spec

\* From a boot that could heal it on, the program starts with Windows exactly when
\* the settings in memory say so, but while a toggle is between the two: whatever
\* was not saved, and whatever an update or a death left behind.
EntryIsMemory ==
  running /\ boot = "healed" /\ (\A t \in Threads : asked[t] = "nothing")
    => (entry = "current") = inner.start_with_windows
=============================================================================
