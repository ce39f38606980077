------------------------------ MODULE JsonStore ------------------------------
(***************************************************************************)
(* One store of json_store.rs: a value under a mutex, its file, and the    *)
(* temporary file that is written and renamed over it, by any number of    *)
(* threads, in a process that may die between any two steps.  What is in   *)
(* the value is up to those who use the store (Autostart, Shortcuts).      *)
(***************************************************************************)
EXTENDS Naturals

CONSTANTS Values,      \* what the store may hold
          Default,     \* what it holds when there is no file, or none that parses
          Missing,     \* a file that is not there
          Partial,     \* bytes that do not parse
          Threads,     \* the commands that run at the same time
          MaxDeaths,   \* bound: how often the process dies
          MaxSpoiled   \* bound: how often something else spoils the file

ASSUME StoreAssumption ==
  /\ Default \in Values /\ {Missing, Partial} \cap Values = {} /\ Missing # Partial
  /\ MaxDeaths \in Nat /\ MaxSpoiled \in Nat

VARIABLES running,         \* the process is up and the store loaded
          inner,           \* the value under the mutex
          loaded_corrupt,
          file, tmp, corrupt,   \* <base>.json, <base>.tmp, <base>.json.corrupt
          step, payload,   \* of each thread: how far its update is; what it serialized
          saved,           \* history: the last update returned Ok, and nothing since
          deaths, spoiled

files == <<file, tmp, corrupt>>
updates == <<step, payload>>
store == <<running, inner, loaded_corrupt, files, updates, saved, deaths, spoiled>>

Bytes == Values \cup {Missing, Partial}

StoreInit ==
  /\ running = FALSE /\ inner = Default /\ loaded_corrupt = FALSE
  /\ file \in Bytes /\ tmp = Missing /\ corrupt = Missing
  /\ step = [t \in Threads |-> "idle"] /\ payload = [t \in Threads |-> Default]
  /\ saved = FALSE /\ deaths = 0 /\ spoiled = 0

\* load: what cannot be parsed is copied aside, which may fail, and counts as
\* the default.
Loads ==
  /\ ~running /\ running' = TRUE
  /\ inner' = IF file \in Values THEN file ELSE Default
  /\ loaded_corrupt' = (file = Partial)
  /\ corrupt' \in IF file = Partial THEN {corrupt, Partial} ELSE {corrupt}
  /\ UNCHANGED <<file, tmp, updates, saved, deaths, spoiled>>

\* The mutex is held from the change of the value to the end of the save.
Locked == \E t \in Threads : step[t] # "idle"

Changes(t, v) ==
  /\ running /\ ~Locked
  /\ inner' = v /\ saved' = FALSE
  /\ step' = [step EXCEPT ![t] = "changed"] /\ payload' = [payload EXCEPT ![t] = v]
  /\ UNCHANGED <<running, loaded_corrupt, files, deaths, spoiled>>

Returns(t) == step' = [step EXCEPT ![t] = "idle"] /\ payload' = payload

\* Seeded bug: the file itself is written.
WritesInPlace(t) ==
  /\ running /\ step[t] = "changed"
  /\ \/ file' = payload[t] /\ tmp' = payload[t]
        /\ step' = [step EXCEPT ![t] = "written"] /\ payload' = payload
     \/ file' = Partial /\ tmp' = tmp /\ Returns(t)
  /\ UNCHANGED <<running, inner, loaded_corrupt, corrupt, saved, deaths, spoiled>>

\* persist: the temporary file is written whole, or in part when that fails,
WritesTmp(t) ==
  /\ running /\ step[t] = "changed"
  /\ \/ tmp' = payload[t] /\ step' = [step EXCEPT ![t] = "written"] /\ payload' = payload
     \/ tmp' \in {tmp, Partial} /\ Returns(t)
  /\ UNCHANGED <<running, inner, loaded_corrupt, file, corrupt, saved, deaths, spoiled>>

\* and renamed over the file, or left there when that fails.
Renames(t) ==
  /\ running /\ step[t] = "written" /\ Returns(t)
  /\ \/ tmp # Missing /\ file' = tmp /\ tmp' = Missing /\ saved' = TRUE
     \/ UNCHANGED <<file, tmp, saved>>
  /\ UNCHANGED <<running, inner, loaded_corrupt, corrupt, deaths, spoiled>>

\* The process dies, in the middle of a write or not.
Dies ==
  /\ running /\ deaths < MaxDeaths /\ deaths' = deaths + 1
  /\ running' = FALSE /\ saved' = FALSE
  /\ tmp' \in IF \E t \in Threads : step[t] = "changed" THEN {tmp, Partial} ELSE {tmp}
  /\ step' = [t \in Threads |-> "idle"]
  /\ UNCHANGED <<inner, loaded_corrupt, file, corrupt, payload, spoiled>>

Spoils ==
  /\ spoiled < MaxSpoiled /\ spoiled' = spoiled + 1
  /\ file' = Partial /\ saved' = FALSE
  /\ UNCHANGED <<running, inner, loaded_corrupt, tmp, corrupt, updates, deaths>>

\* What any user of the store may do to it.
StoreNext ==
  \/ Loads \/ Dies \/ Spoils
  \/ \E t \in Threads : (\E v \in Values : Changes(t, v)) \/ WritesTmp(t) \/ Renames(t)

StoreTypeOK ==
  /\ {running, loaded_corrupt, saved} \subseteq BOOLEAN
  /\ inner \in Values /\ {file, tmp, corrupt} \subseteq Bytes
  /\ step \in [Threads -> {"idle", "changed", "written"}]
  /\ payload \in [Threads -> Values]
  /\ deaths \in 0 .. MaxDeaths /\ spoiled \in 0 .. MaxSpoiled
-----------------------------------------------------------------------------
\* The store is the saved value it promises to be.  A value that is lost with the
\* process was not there for anybody; what the next process sees is the file.
Promise == INSTANCE SavedValue
  WITH Unreadable <- Partial,
       memory <- IF running THEN inner ELSE Default,
       file <- IF file = Missing THEN Default ELSE file,
       ok <- saved
=============================================================================
