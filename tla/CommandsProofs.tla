---------------------------- MODULE CommandsProofs ----------------------------
(* What the commands of lib.rs keep equal to what Windows holds: the setting   *)
(* and the entry that starts the program, on top of what json_store.rs         *)
(* promises; and the saved shortcuts and those that are registered.  For any   *)
(* threads, values and deaths, and for any profiles and combinations.          *)
EXTENDS Autostart, Shortcuts, TLAPS

-----------------------------------------------------------------------------
(* The settings, and the start with Windows. *)
\* While the mutex is held it is held by one thread, which writes what memory
\* holds; what does not run has nothing under way and nothing saved.
LockHeld ==
  /\ \A t, u \in Threads : step[t] # "idle" /\ step[u] # "idle" => t = u
  /\ \A t \in Threads : step[t] # "idle" => running /\ payload[t] = inner
  /\ \A t \in Threads : step[t] = "written" => tmp = inner
  /\ ~running => ~saved

StoreInv == StoreTypeOK /\ LockHeld

LEMMA InitStoreInv == StoreInit => StoreInv
  <1> SUFFICES ASSUME StoreInit PROVE StoreInv
    OBVIOUS
  <1>1. step \in [Threads -> {"idle", "changed", "written"}] /\ payload \in [Threads -> Values]
    BY StoreAssumption DEF StoreInit
  <1>2. {running, loaded_corrupt, saved} \subseteq BOOLEAN
    BY DEF StoreInit
  <1>3. inner \in Values /\ {file, tmp, corrupt} \subseteq Bytes
    BY StoreAssumption DEF StoreInit, Bytes
  <1>4. deaths \in 0 .. MaxDeaths /\ spoiled \in 0 .. MaxSpoiled
    BY StoreAssumption DEF StoreInit
  <1>5. LockHeld
    BY DEF StoreInit, LockHeld
  <1> QED
    BY <1>1, <1>2, <1>3, <1>4, <1>5 DEF StoreInv, StoreTypeOK

\* Every step of any user of the store keeps the types,
LEMMA StoreStepTyped == StoreInv /\ [StoreNext]_store => StoreTypeOK'
  <1> SUFFICES ASSUME StoreInv, [StoreNext]_store PROVE StoreTypeOK'
    OBVIOUS
  <1> USE StoreAssumption DEF StoreInv, StoreTypeOK, Bytes
  <1>1. CASE Loads
    BY <1>1 DEF Loads, updates
  <1>2. CASE Dies
    <2>1. deaths' \in 0 .. MaxDeaths /\ step' \in [Threads -> {"idle", "changed", "written"}]
      BY <1>2 DEF Dies
    <2>2. {running, loaded_corrupt, saved}' \subseteq BOOLEAN /\ {file, tmp, corrupt}' \subseteq Bytes
      BY <1>2 DEF Dies
    <2> QED
      BY <1>2, <2>1, <2>2 DEF Dies
  <1>3. CASE Spoils
    <2>1. spoiled' \in 0 .. MaxSpoiled
      BY <1>3 DEF Spoils
    <2>2. {running, loaded_corrupt, saved}' \subseteq BOOLEAN /\ {file, tmp, corrupt}' \subseteq Bytes
      BY <1>3 DEF Spoils
    <2> QED
      BY <1>3, <2>1, <2>2 DEF Spoils, updates
  <1>4. ASSUME NEW t \in Threads, NEW v \in Values, Changes(t, v) PROVE StoreTypeOK'
    BY <1>4 DEF Changes, files
  <1>5. ASSUME NEW t \in Threads, WritesTmp(t) PROVE StoreTypeOK'
    BY <1>5 DEF WritesTmp, Returns
  <1>6. ASSUME NEW t \in Threads, Renames(t) PROVE StoreTypeOK'
    BY <1>6 DEF Renames, Returns
  <1>7. CASE UNCHANGED store
    BY <1>7 DEF store, files, updates
  <1> QED
    BY <1>1, <1>2, <1>3, <1>4, <1>5, <1>6, <1>7 DEF StoreNext

\* and the mutex with what it protects.
LEMMA StoreStepLocked == StoreInv /\ [StoreNext]_store => LockHeld'
  <1> SUFFICES ASSUME StoreInv, [StoreNext]_store PROVE LockHeld'
    OBVIOUS
  <1> USE StoreAssumption DEF StoreInv, StoreTypeOK, LockHeld
  <1>1. CASE Loads
    BY <1>1 DEF Loads, updates
  <1>2. CASE Dies
    BY <1>2 DEF Dies
  <1>3. CASE Spoils
    BY <1>3 DEF Spoils, updates
  <1>4. ASSUME NEW t \in Threads, NEW v \in Values, Changes(t, v) PROVE LockHeld'
    BY <1>4 DEF Changes, Locked, files
  <1>5. ASSUME NEW t \in Threads, WritesTmp(t) PROVE LockHeld'
    BY <1>5 DEF WritesTmp, Returns
  <1>6. ASSUME NEW t \in Threads, Renames(t) PROVE LockHeld'
    BY <1>6 DEF Renames, Returns
  <1>7. CASE UNCHANGED store
    BY <1>7 DEF store, files, updates
  <1> QED
    BY <1>1, <1>2, <1>3, <1>4, <1>5, <1>6, <1>7 DEF StoreNext

\* Every step of any user of the store is a step of the saved value, or none.
LEMMA StoreStepPromised ==
  StoreInv /\ [StoreNext]_store => [Promise!Next]_(Promise!vars)
  <1> SUFFICES ASSUME StoreInv, [StoreNext]_store PROVE [Promise!Next]_(Promise!vars)
    OBVIOUS
  <1> USE StoreAssumption DEF StoreInv, StoreTypeOK, LockHeld, Bytes, Promise!Next, Promise!vars
  <1>1. CASE Loads
    <2>1. Promise!Restarts
      BY <1>1 DEF Loads, updates, Promise!Restarts, Promise!Parsed
    <2> QED
      BY <2>1
  <1>2. CASE Dies
    <2>1. Promise!Changes
      BY <1>2 DEF Dies, Promise!Changes
    <2> QED
      BY <2>1
  <1>3. CASE Spoils
    <2>1. Promise!Spoiled
      BY <1>3 DEF Spoils, updates, Promise!Spoiled
    <2> QED
      BY <2>1
  <1>4. ASSUME NEW t \in Threads, NEW v \in Values, Changes(t, v)
        PROVE  [Promise!Next]_(Promise!vars)
    <2>1. Promise!Changes
      BY <1>4 DEF Changes, files, Promise!Changes
    <2> QED
      BY <2>1
  <1>5. ASSUME NEW t \in Threads, WritesTmp(t) PROVE [Promise!Next]_(Promise!vars)
    BY <1>5 DEF WritesTmp
  <1>6. ASSUME NEW t \in Threads, Renames(t) PROVE [Promise!Next]_(Promise!vars)
    <2>1. CASE UNCHANGED <<file, tmp, saved>>
      BY <1>6, <2>1 DEF Renames
    <2>2. CASE tmp # Missing /\ file' = tmp /\ tmp' = Missing /\ saved' = TRUE
      <3>1. Promise!Saves
        BY <1>6, <2>2 DEF Renames, Promise!Saves
      <3> QED
        BY <3>1
    <2> QED
      BY <1>6, <2>1, <2>2 DEF Renames
  <1>7. CASE UNCHANGED store
    BY <1>7 DEF store, files, updates
  <1> QED
    BY <1>1, <1>2, <1>3, <1>4, <1>5, <1>6, <1>7 DEF StoreNext

\* What the settings do to their store is what any user may do.
LEMMA SettingsUseTheStore == AutostartTypeOK /\ [AutostartNext]_autostart => [StoreNext]_store
  <1> SUFFICES ASSUME AutostartTypeOK, [AutostartNext]_autostart PROVE [StoreNext]_store
    OBVIOUS
  <1> USE AutostartAssumption DEF AutostartTypeOK, StoreTypeOK, StoreNext
  <1>1. CASE Boots \/ Crashes \/ Breaks
    BY <1>1 DEF Boots, Crashes, Breaks
  <1>2. CASE Heals \/ Updates
    BY <1>2 DEF Heals, HealsAlways, Skips, Updates
  <1>3. ASSUME NEW t \in Threads, Records(t) PROVE [StoreNext]_store
    <2>1. [inner EXCEPT !.start_with_windows = (asked[t] = "on")] \in Values
      BY DEF Settings
    <2> QED
      BY <1>3, <2>1 DEF Records
  <1>4. ASSUME NEW t \in Threads, Persists(t) PROVE [StoreNext]_store
    BY <1>4 DEF Persists
  <1>5. ASSUME NEW t \in Threads, NEW b \in BOOLEAN, Toggles(t, b) PROVE [StoreNext]_store
    BY <1>5 DEF Toggles
  <1>6. ASSUME NEW t \in Threads, NEW b \in BOOLEAN, Sets(t, b) PROVE [StoreNext]_store
    <2>1. [inner EXCEPT !.rest = b] \in Values
      BY DEF Settings
    <2> QED
      BY <1>6, <2>1 DEF Sets
  <1>7. CASE UNCHANGED autostart
    BY <1>7 DEF autostart
  <1> QED
    BY <1>1, <1>2, <1>3, <1>4, <1>5, <1>6, <1>7 DEF AutostartNext

LEMMA SettingsStepTyped == AutostartTypeOK /\ LockHeld /\ [AutostartNext]_autostart => AutostartTypeOK'
  <1> SUFFICES ASSUME AutostartTypeOK, LockHeld, [AutostartNext]_autostart PROVE AutostartTypeOK'
    OBVIOUS
  <1>1. StoreTypeOK'
    BY SettingsUseTheStore, StoreStepTyped DEF AutostartTypeOK, StoreInv
  <1>2. /\ entry' \in {"none", "current", "stale"}
        /\ boot' \in {"off", "healed", "failed", "skipped"}
        /\ asked' \in [Threads -> {"nothing", "on", "off"}]
    BY DEF AutostartTypeOK, AutostartNext, autostart, Boots, Heals, HealsAlways, Skips, Crashes, Breaks, Updates,
       Records, Persists, Toggles, Tells, Sets
  <1> QED
    BY <1>1, <1>2 DEF AutostartTypeOK

\* The types, whatever the number of threads.
THEOREM SettingsTyped == AutostartSpec => [](AutostartTypeOK /\ LockHeld)
  <1>1. AutostartInit => AutostartTypeOK /\ LockHeld
    BY InitStoreInv DEF AutostartInit, AutostartTypeOK, StoreInv
  <1>2. AutostartTypeOK /\ LockHeld /\ [AutostartNext]_autostart => AutostartTypeOK' /\ LockHeld'
    BY SettingsStepTyped, StoreStepLocked, SettingsUseTheStore DEF AutostartTypeOK, StoreInv
  <1> QED
    BY <1>1, <1>2, PTL DEF AutostartSpec

\* json_store.rs: what reaches the file is, as a whole, what memory holds.
THEOREM SettingsImplementSavedValue == AutostartSpec => ImplementsSavedValue
  <1>1. AutostartInit => Promise!Init
    BY StoreAssumption DEF AutostartInit, StoreInit, Bytes, Promise!Init
  <1>2. AutostartTypeOK /\ LockHeld /\ [AutostartNext]_autostart => [Promise!Next]_(Promise!vars)
    BY SettingsUseTheStore, StoreStepPromised DEF AutostartTypeOK, StoreInv
  <1> QED
    BY <1>1, <1>2, SettingsTyped, PTL DEF AutostartSpec, ImplementsSavedValue, Promise!Spec

\* The entry follows the toggle that is on its way to the store, and otherwise
\* what is in memory: inductive with the types when one thread toggles.
Followed ==
  /\ \A t \in Threads : asked[t] # "nothing" => t \in Toggling /\ running /\ boot # "off"
  /\ running /\ boot = "healed" =>
       /\ (\A t \in Threads : asked[t] = "nothing")
            => (entry = "current" <=> inner.start_with_windows = TRUE)
       /\ \A t \in Threads :
            asked[t] # "nothing" => (entry = "current" <=> asked[t] = "on")

OneToggler == \A t, u \in Toggling : t = u

LEMMA FollowedStep ==
  ASSUME OneToggler, AutostartTypeOK, Followed, [AutostartNext]_autostart
  PROVE  Followed'
  <1> USE AutostartAssumption DEF AutostartTypeOK, StoreTypeOK, Settings, OneToggler, Followed
  <1>1. CASE Boots
    BY <1>1 DEF Boots, Loads
  <1>2. CASE Heals
    BY <1>2 DEF Heals, HealsAlways, Skips, store
  <1>3. CASE Crashes
    BY <1>3 DEF Crashes, Dies
  <1>4. CASE Breaks
    BY <1>4 DEF Breaks, Spoils
  <1>5. CASE Updates
    BY <1>5 DEF Updates, store
  <1>6. ASSUME NEW t \in Threads, Records(t) PROVE Followed'
    <2>1. /\ inner'.start_with_windows = (asked[t] = "on")
          /\ UNCHANGED <<running, boot, entry>>
          /\ asked' = [asked EXCEPT ![t] = "nothing"]
      BY <1>6 DEF Records, Changes
    <2>2. asked[t] # "nothing" /\ t \in Toggling
      BY <1>6 DEF Records
    <2>3. \A u \in Threads : asked'[u] = "nothing"
      BY <2>1, <2>2
    <2>4. running /\ boot = "healed" => (entry = "current" <=> asked[t] = "on")
      BY <2>2
    <2> QED
      BY <2>1, <2>3, <2>4
  <1>7. ASSUME NEW t \in Threads, Persists(t) PROVE Followed'
    BY <1>7 DEF Persists, WritesTmp, Renames
  <1>8. ASSUME NEW t \in Toggling, NEW b \in BOOLEAN, Toggles(t, b) PROVE Followed'
    <2>1. \A u \in Threads : u # t => asked[u] = "nothing"
      OBVIOUS
    <2>2. /\ entry' = IF b THEN "current" ELSE "none"
          /\ asked' = [asked EXCEPT ![t] = IF b THEN "on" ELSE "off"]
          /\ running' /\ boot' = boot /\ boot # "off"
      BY <1>8 DEF Toggles, Tells, store
    <2>3. t \in Threads /\ asked'[t] = (IF b THEN "on" ELSE "off")
      BY <2>2
    <2>4. \A u \in Threads : u # t => asked'[u] = "nothing"
      BY <2>1, <2>2
    <2> QED
      BY <2>2, <2>3, <2>4
  <1>9. ASSUME NEW t \in Threads, NEW b \in BOOLEAN, Sets(t, b) PROVE Followed'
    <2>1. inner'.start_with_windows = inner.start_with_windows
      BY <1>9 DEF Sets, Changes
    <2>2. UNCHANGED <<running, boot, entry, asked>>
      BY <1>9 DEF Sets, Changes
    <2> QED
      BY <2>1, <2>2
  <1>10. CASE UNCHANGED autostart
    BY <1>10 DEF autostart, store
  <1> HIDE DEF AutostartTypeOK, StoreTypeOK, Settings, OneToggler, Followed
  <1> QED
    BY <1>1, <1>2, <1>3, <1>4, <1>5, <1>6, <1>7, <1>8, <1>9, <1>10 DEF AutostartNext

\* set_start_with_windows and the heal of the setup: with one toggle at a time the
\* program starts with Windows exactly when the settings say so.
THEOREM EntryFollows ==
  ASSUME OneToggler
  PROVE  AutostartSpec => []EntryIsMemory
  <1>1. AutostartInit => Followed
    BY DEF AutostartInit, StoreInit, Followed
  <1>2. AutostartTypeOK /\ Followed /\ [AutostartNext]_autostart => Followed'
    BY FollowedStep
  <1>3. AutostartTypeOK /\ Followed => EntryIsMemory
    <2>1. AutostartTypeOK => inner.start_with_windows \in BOOLEAN
      BY AutostartAssumption DEF AutostartTypeOK, StoreTypeOK, Settings
    <2> QED
      BY <2>1 DEF Followed, EntryIsMemory
  <1> QED
    BY <1>1, <1>2, <1>3, SettingsTyped, PTL DEF AutostartSpec

-----------------------------------------------------------------------------
(* The shortcuts. *)
\* What a resync is to register.
Wanted == IF config.global_shortcuts_enabled THEN Atajos ELSE {}

\* No two profiles have a combination in common.
Distinct(conf) ==
  \A p, q \in Profiles :
    conf.profile_shortcuts[p] = conf.profile_shortcuts[q] /\ conf.profile_shortcuts[p] # None
      => p = q

\* The shortcut of p is there, in memory and in the file.
Kept(p) == disk = config /\ config.profile_shortcuts[p] # None

\* A command at each of its steps: between commands what is registered is what is
\* wanted, but for what others have; while it registers, what it has yet to
\* register is not registered and what it could not is another's.
Resting == ~stale => registered \subseteq Wanted /\ Wanted \subseteq registered \cup held
Assigned ==
  ~stale /\ assigned # None =>
    /\ Kept(assigned)
    /\ config.global_shortcuts_enabled => config.profile_shortcuts[assigned] \in registered
Registering(c) ==
  /\ registered \cup cmd[c].todo \subseteq Wanted
  /\ Wanted \subseteq registered \cup cmd[c].todo \cup cmd[c].fallidos
  /\ registered \cap cmd[c].todo = {} /\ cmd[c].fallidos \subseteq held

Steady(c) ==
  /\ cmd[c].at = "idle" => Resting /\ Assigned
  /\ cmd[c].at # "idle" /\ cmd[c].name # None => Kept(cmd[c].name)
  /\ cmd[c].at = "reads" => registered = {} /\ cmd[c].fallidos = {}
  /\ cmd[c].at = "registers" => Registering(c)

ShortcutsInv ==
  /\ \E c \in Commands : TRUE
  /\ foreign \subseteq held
  /\ Distinct(config) /\ Distinct(disk)
  /\ \A c \in Commands : Steady(c)

OneCommand == \A c, d \in Commands : c = d
-----------------------------------------------------------------------------
(* The types.                                                                *)

LEMMA ConfigOfSin ==
  ASSUME NEW conf \in Configs, NEW p \in Profiles
  PROVE  /\ Sin(conf, p) \in Configs
         /\ Distinct(conf) => Distinct(Sin(conf, p))
         /\ Sin(conf, p).global_shortcuts_enabled = conf.global_shortcuts_enabled
  BY DEF Sin, Configs, Distinct

LEMMA ConfigOfGone ==
  ASSUME NEW conf \in Configs, NEW S \in SUBSET Profiles
  PROVE  /\ [conf EXCEPT !.profiles = S] \in Configs
         /\ [conf EXCEPT !.profiles = S].profile_shortcuts = conf.profile_shortcuts
         /\ [conf EXCEPT !.profiles = S].global_shortcuts_enabled
              = conf.global_shortcuts_enabled
         /\ Distinct(conf) => Distinct([conf EXCEPT !.profiles = S])
  BY DEF Configs, Distinct

LEMMA ConfigOfAjustes ==
  ASSUME config \in Configs, NEW b \in BOOLEAN
  PROVE  /\ Ajustes(b) \in Configs
         /\ Distinct(config) => Distinct(Ajustes(b))
  BY DEF Ajustes, Configs, Distinct

LEMMA ConfigOfAsignar ==
  ASSUME config \in Configs, NEW p \in Profiles, NEW a \in Accels,
         \A q \in Profiles \ {p} : config.profile_shortcuts[q] # a
  PROVE  LET conf == [config EXCEPT !.profile_shortcuts[p] = a]
         IN /\ conf \in Configs
            /\ conf.profile_shortcuts[p] # None
            /\ Distinct(config) => Distinct(conf)
  BY ShortcutsAssumption DEF Configs, Distinct

\* What a command asks of the configuration, before it registers.
Changed(c, conf, p) ==
  /\ conf \in Configs /\ p \in Profiles \cup {None} /\ Asks(c, conf, p)
  /\ Distinct(config) => Distinct(conf)
  /\ p # None => conf.profile_shortcuts[p] # None

LEMMA AskedIsChanged ==
  ASSUME TypeOK, NEW c \in Commands, Asked(c)
  PROVE  \/ \E conf, p : Changed(c, conf, p)
         \/ \E p \in Profiles : Borrar(c, p) \/ Guarda(c, p)
  <1> USE DEF TypeOK
  <1>1. ASSUME NEW b \in BOOLEAN, Guardar(c, b) PROVE \E conf, p : Changed(c, conf, p)
    <2>1. Changed(c, Ajustes(b), None)
      BY <1>1, ConfigOfAjustes DEF Guardar, Changed
    <2> QED
      BY <2>1
  <1>2. ASSUME NEW p \in Profiles, NEW a \in Accels, Asignar(c, p, a)
        PROVE  \E conf, q : Changed(c, conf, q)
    <2>1. Changed(c, [config EXCEPT !.profile_shortcuts[p] = a], p)
      BY <1>2, ConfigOfAsignar DEF Asignar, Changed
    <2> QED
      BY <2>1
  <1>3. ASSUME NEW p \in Profiles, Limpiar(c, p) PROVE \E conf, q : Changed(c, conf, q)
    <2>1. Changed(c, Sin(config, p), None)
      BY <1>3, ConfigOfSin DEF Limpiar, Changed
    <2> QED
      BY <2>1
  <1> QED
    BY <1>1, <1>2, <1>3 DEF Asked

Kinds == [at : {"idle", "unregisters", "reads", "registers"},
          todo : SUBSET Accels, fallidos : SUBSET Accels, name : Profiles \cup {None}]

LEMMA ResyncTyped == Idle \in Kinds /\ \A p \in Profiles \cup {None} : Resync(p) \in Kinds
  BY DEF Idle, Resync, Kinds

LEMMA AtajosTyped == TypeOK => Atajos \subseteq Accels
  BY DEF TypeOK, Configs, Atajos

LEMMA InitTyped == Init => TypeOK
  <1> SUFFICES ASSUME Init PROVE TypeOK
    OBVIOUS
  <1>1. cmd \in [Commands -> Kinds]
    BY ResyncTyped DEF Init
  <1> QED
    BY <1>1 DEF Init, TypeOK, Configs, Kinds

LEMMA StepTyped ==
  ASSUME TypeOK, [Next]_vars
  PROVE  TypeOK'
  <1> USE DEF TypeOK
  <1>1. ASSUME NEW c \in Commands, NEW conf, NEW p, Changed(c, conf, p) PROVE TypeOK'
    <2>1. cmd' \in [Commands -> Kinds]
      BY <1>1, ResyncTyped DEF Changed, Asks, Kinds
    <2> QED
      BY <1>1, <2>1 DEF Changed, Asks, Saved, Unsaved, Kinds
  <1>2. ASSUME NEW c \in Commands, NEW p \in Profiles, Borrar(c, p) PROVE TypeOK'
    <2>1. cmd' \in [Commands -> Kinds]
      BY <1>2, ResyncTyped DEF Borrar, Kinds
    <2> DEFINE gone == [config EXCEPT !.profiles = @ \ {p}]
    <2>2. gone \in Configs
      BY DEF Configs
    <2>3. Sin(gone, p) \in Configs
      BY <2>2, ConfigOfSin
    <2>4. config' \in Configs /\ disk' \in Configs
      BY <1>2, <2>2, <2>3 DEF Borrar, Saved, Unsaved
    <2> QED
      BY <1>2, <2>1, <2>4 DEF Borrar, Kinds
  <1>3. ASSUME NEW c \in Commands, NEW p \in Profiles, Guarda(c, p) PROVE TypeOK'
    <2>1. [config EXCEPT !.profiles = @ \cup {p}] \in Configs
      BY DEF Configs
    <2> QED
      BY <1>3, <2>1 DEF Guarda, Saved, Unsaved
  <1>4. ASSUME NEW c \in Commands, Goes(c) PROVE TypeOK'
    <2>1. CASE Unregisters(c)
      <3>1. [cmd[c] EXCEPT !.at = "reads", !.fallidos = {}] \in Kinds
        BY DEF Kinds
      <3>2. cmd' = [cmd EXCEPT ![c] = [cmd[c] EXCEPT !.at = "reads", !.fallidos = {}]]
        BY <2>1 DEF Unregisters
      <3>3. cmd' \in [Commands -> Kinds]
        BY <3>1, <3>2 DEF Kinds
      <3> QED
        BY <2>1, <3>3 DEF Unregisters, Kinds
    <2>2. CASE Reads(c)
      <3> DEFINE todo == IF config.global_shortcuts_enabled THEN Atajos ELSE {}
      <3>1. [cmd[c] EXCEPT !.at = "registers", !.todo = todo] \in Kinds
        BY AtajosTyped DEF Kinds
      <3>2. cmd' = [cmd EXCEPT ![c] = [cmd[c] EXCEPT !.at = "registers", !.todo = todo]]
        BY <2>2 DEF Reads
      <3>3. cmd' \in [Commands -> Kinds]
        BY <3>1, <3>2 DEF Kinds
      <3> QED
        BY <2>2, <3>3 DEF Reads, Kinds
    <2>3. CASE \E a \in Accels : Registers(c, a)
      BY <2>3 DEF Registers
    <2>4. CASE Ends(c)
      BY <2>4 DEF Ends, Idle
    <2>5. CASE Deshace(c)
      <3>1. cmd[c].name \in Profiles
        BY <2>5 DEF Deshace
      <3>2. Sin(config, cmd[c].name) \in Configs
        BY <3>1, ConfigOfSin
      <3>3. cmd' \in [Commands -> Kinds]
        BY <2>5, ResyncTyped DEF Deshace, Kinds
      <3> QED
        BY <2>5, <3>2, <3>3 DEF Deshace, Saved, Unsaved, Kinds
    <2> QED
      BY <1>4, <2>1, <2>2, <2>3, <2>4, <2>5 DEF Goes
  <1>5. CASE Restarts
    <2>1. cmd' \in [Commands -> Kinds]
      BY <1>5, ResyncTyped DEF Restarts
    <2> QED
      BY <1>5, <2>1 DEF Restarts, Kinds
  <1>6. CASE \E a \in Accels : Takes(a) \/ LetsGo(a)
    BY <1>6 DEF Takes, LetsGo
  <1>7. CASE UNCHANGED vars
    BY <1>7 DEF vars
  <1> HIDE DEF TypeOK
  <1> QED
    BY <1>1, <1>2, <1>3, <1>4, <1>5, <1>6, <1>7, AskedIsChanged DEF Next

\* The types of the configuration, the registrations and the commands.
THEOREM ShortcutsTyped == Spec => []TypeOK
  <1>1. TypeOK /\ [Next]_vars => TypeOK'
    BY StepTyped
  <1> QED
    BY <1>1, InitTyped, PTL DEF Spec
-----------------------------------------------------------------------------
(* What is registered.                                                       *)

LEMMA InitSteady == Init => ShortcutsInv
  <1> SUFFICES ASSUME Init PROVE ShortcutsInv
    OBVIOUS
  <1>1. Distinct(config) /\ Distinct(disk)
    BY DEF Init, Distinct
  <1>2. ASSUME NEW c \in Commands PROVE cmd[c] = Idle \/ cmd[c] = Resync(None)
    BY DEF Init
  <1>3. ASSUME NEW c \in Commands PROVE Steady(c)
    BY <1>2, <1>3 DEF Init, Steady, Idle, Resync, Resting, Assigned, Wanted, Atajos
  <1> QED
    BY <1>1, <1>3 DEF Init, ShortcutsInv

\* The only command there is: its steps are those of all.
LEMMA StepSteady ==
  ASSUME OneCommand, TypeOK, ShortcutsInv, [Next]_vars
  PROVE  ShortcutsInv'
  <1>c. PICK c \in Commands : Commands = {c}
    BY DEF ShortcutsInv, OneCommand
  <1>s. foreign \subseteq held /\ Distinct(config) /\ Distinct(disk) /\ Steady(c)
    BY DEF ShortcutsInv
  <1>t. cmd \in [Commands -> Kinds]
    BY DEF TypeOK, Kinds
  <1> SUFFICES foreign' \subseteq held' /\ Distinct(config)' /\ Distinct(disk)' /\ Steady(c)'
    BY <1>c DEF ShortcutsInv
  <1>1. ASSUME NEW conf, NEW p, Changed(c, conf, p)
        PROVE  foreign' \subseteq held' /\ Distinct(config)' /\ Distinct(disk)' /\ Steady(c)'
    <2>1. foreign' \subseteq held' /\ Distinct(config)' /\ Distinct(disk)'
      BY <1>1, <1>s DEF Changed, Asks, Saved, Unsaved, Distinct
    <2>2. CASE Saved(conf) /\ cmd' = [cmd EXCEPT ![c] = Resync(p)]
      <3>1. cmd'[c] = Resync(p)
        BY <1>t, <2>2
      <3>2. cmd'[c].at = "unregisters" /\ cmd'[c].name = p
        BY <3>1 DEF Resync, Idle
      <3>3. p # None => disk' = config' /\ config'.profile_shortcuts[p] # None
        BY <1>1, <2>2 DEF Changed, Saved
      <3> QED
        BY <2>1, <3>2, <3>3 DEF Steady, Kept
    <2>3. CASE stale' = TRUE /\ cmd' = cmd
      <3>1. cmd'[c].at = "idle"
        BY <1>1, <2>3 DEF Changed, Asks, Idle
      <3> QED
        BY <2>1, <2>3, <3>1 DEF Steady, Resting, Assigned
    <2> QED
      BY <1>1, <2>1, <2>2, <2>3 DEF Changed, Asks
  <1>2. ASSUME NEW p \in Profiles, Borrar(c, p)
        PROVE  foreign' \subseteq held' /\ Distinct(config)' /\ Distinct(disk)' /\ Steady(c)'
    <2> DEFINE gone == [config EXCEPT !.profiles = @ \ {p}]
    <2>1. gone \in Configs /\ Distinct(gone)
      BY <1>s, ConfigOfGone DEF TypeOK, Configs
    <2>2. Distinct(Sin(gone, p))
      BY <2>1, ConfigOfSin
    <2>3. foreign' \subseteq held' /\ Distinct(config)' /\ Distinct(disk)'
      BY <1>2, <1>s, <2>1, <2>2 DEF Borrar, Saved, Unsaved, Distinct
    <2>4. CASE cmd' = [cmd EXCEPT ![c] = Resync(None)]
      BY <1>t, <2>3, <2>4 DEF Steady, Resync, Idle
    <2>5. CASE stale' = TRUE /\ cmd' = cmd
      BY <1>2, <1>t, <2>3, <2>5 DEF Borrar, Steady, Resting, Assigned, Idle
    <2> HIDE DEF gone
    <2> QED
      BY <1>2, <2>4, <2>5 DEF Borrar
  <1>3. ASSUME NEW p \in Profiles, Guarda(c, p)
        PROVE  foreign' \subseteq held' /\ Distinct(config)' /\ Distinct(disk)' /\ Steady(c)'
    <2> DEFINE conf == [config EXCEPT !.profiles = @ \cup {p}]
    <2>1. /\ conf.profile_shortcuts = config.profile_shortcuts
          /\ conf.global_shortcuts_enabled = config.global_shortcuts_enabled
          /\ Distinct(conf)
      BY <1>s, ConfigOfGone DEF TypeOK, Configs
    <2>2. config' = conf /\ UNCHANGED <<registered, foreign, held, assigned, cmd>>
      BY <1>3 DEF Guarda, Saved, Unsaved
    <2>3. disk' \in {disk, conf} /\ (stale' = FALSE => stale = FALSE /\ disk' = conf)
      BY <1>3 DEF Guarda, Saved, Unsaved
    <2> HIDE DEF conf
    <2>4. Distinct(config)' /\ Distinct(disk)'
      BY <1>s, <2>1, <2>2, <2>3 DEF Distinct
    <2>5. Wanted' = Wanted
      BY <2>1, <2>2 DEF Wanted, Atajos
    <2>6. cmd[c].at = "idle"
      BY <1>3 DEF Guarda, Idle
    <2>7. stale' \in BOOLEAN /\ stale \in BOOLEAN
      BY StepTyped DEF TypeOK
    <2>8. Resting' /\ Assigned'
      BY <1>s, <2>1, <2>2, <2>3, <2>5, <2>6, <2>7 DEF Steady, Resting, Assigned, Kept
    <2> QED
      BY <1>s, <2>2, <2>4, <2>6, <2>8 DEF Steady
  <1>4. ASSUME Goes(c)
        PROVE  foreign' \subseteq held' /\ Distinct(config)' /\ Distinct(disk)' /\ Steady(c)'
    <2>1. CASE Unregisters(c)
      BY <1>s, <1>t, <2>1 DEF Unregisters, Steady, Kept, Distinct, Kinds
    <2>2. CASE Reads(c)
      <3>1. cmd'[c].todo = Wanted /\ cmd'[c].at = "registers" /\ cmd'[c].name = cmd[c].name
            /\ cmd'[c].fallidos = {} /\ registered' = {}
        BY <1>s, <1>t, <2>2 DEF Reads, Wanted, Steady, Kinds
      <3>2. UNCHANGED <<config, disk, foreign, held>> /\ Wanted' = Wanted
        BY <2>2 DEF Reads, Wanted, Atajos
      <3>3. cmd[c].name # None => Kept(cmd[c].name)
        BY <1>s, <2>2 DEF Reads, Steady
      <3> QED
        BY <1>s, <3>1, <3>2, <3>3 DEF Steady, Registering, Kept, Distinct
    <2>3. ASSUME NEW a \in Accels, Registers(c, a)
          PROVE  foreign' \subseteq held' /\ Distinct(config)' /\ Distinct(disk)' /\ Steady(c)'
      <3>1. UNCHANGED <<config, disk, foreign, held>> /\ Wanted' = Wanted
        BY <2>3 DEF Registers, Wanted, Atajos
      <3>2. /\ Registering(c) /\ cmd[c].at = "registers" /\ a \in cmd[c].todo
            /\ cmd[c].name # None => Kept(cmd[c].name)
        BY <1>s, <2>3 DEF Registers, Steady
      <3>3. cmd'[c].at = "registers" /\ cmd'[c].name = cmd[c].name
        BY <1>t, <2>3 DEF Registers, Kinds
      <3>4. CASE a \in registered \cup foreign
        <4>1. /\ cmd'[c].todo = cmd[c].todo \ {a} /\ cmd'[c].fallidos = cmd[c].fallidos \cup {a}
              /\ registered' = registered
          BY <1>t, <2>3, <3>4 DEF Registers, Kinds
        <4> QED
          BY <1>s, <3>1, <3>2, <3>3, <3>4, <4>1 DEF Steady, Registering, Kept, Distinct
      <3>5. CASE a \notin registered \cup foreign
        <4>1. /\ cmd'[c].todo = cmd[c].todo \ {a} /\ cmd'[c].fallidos = cmd[c].fallidos
              /\ registered' = registered \cup {a}
          BY <1>t, <2>3, <3>5 DEF Registers, Kinds
        <4> QED
          BY <1>s, <3>1, <3>2, <3>3, <3>5, <4>1 DEF Steady, Registering, Kept, Distinct
      <3> QED
        BY <3>4, <3>5
    <2>4. CASE Ends(c)
      <3>1. UNCHANGED <<config, disk, foreign, held, registered, stale>> /\ Wanted' = Wanted
        BY <2>4 DEF Ends, Wanted, Atajos
      <3>2. cmd'[c].at = "idle" /\ assigned' = cmd[c].name /\ cmd[c].todo = {}
        BY <1>t, <2>4 DEF Ends, Idle
      <3>3. Registering(c) /\ (cmd[c].name # None => Kept(cmd[c].name))
        BY <1>s, <2>4 DEF Ends, Steady
      <3>4. Resting'
        BY <3>1, <3>2, <3>3 DEF Resting, Registering
      <3>5. ASSUME assigned' # None, config.global_shortcuts_enabled
            PROVE  config.profile_shortcuts[assigned'] \in registered
        <4>1. assigned' \in Profiles
          BY <1>t, <3>2, <3>5 DEF Kinds
        <4>2. config.profile_shortcuts[assigned'] \in Wanted
          BY <3>2, <3>3, <3>5, <4>1 DEF Wanted, Atajos, Kept
        <4>3. config.profile_shortcuts[assigned'] \notin cmd[c].fallidos
          BY <2>4, <3>2, <3>5 DEF Ends
        <4> QED
          BY <3>2, <3>3, <4>2, <4>3 DEF Registering
      <3>6. Assigned'
        BY <3>1, <3>2, <3>3, <3>5 DEF Assigned, Kept
      <3> QED
        BY <1>s, <3>1, <3>2, <3>4, <3>6 DEF Steady, Distinct
    <2>5. CASE Deshace(c)
      <3>1. cmd[c].name \in Profiles
        BY <1>t, <2>5 DEF Deshace, Kinds
      <3>2. Distinct(Sin(config, cmd[c].name))
        BY <1>s, <3>1, ConfigOfSin DEF TypeOK
      <3>3. Distinct(config)' /\ Distinct(disk)' /\ foreign' \subseteq held'
        BY <1>s, <2>5, <3>2 DEF Deshace, Saved, Unsaved, Distinct
      <3>4. cmd'[c] = Resync(None)
        BY <1>t, <2>5 DEF Deshace
      <3> QED
        BY <3>3, <3>4 DEF Steady, Resync, Idle
    <2> QED
      BY <1>4, <2>1, <2>2, <2>3, <2>4, <2>5 DEF Goes
  <1>5. CASE Restarts
    <2>1. cmd'[c] = Resync(None)
      BY <1>c, <1>5 DEF Restarts
    <2> QED
      BY <1>s, <1>5, <2>1 DEF Restarts, Distinct, Steady, Resync, Idle
  <1>6. ASSUME NEW a \in Accels, Takes(a) \/ LetsGo(a)
        PROVE  foreign' \subseteq held' /\ Distinct(config)' /\ Distinct(disk)' /\ Steady(c)'
    <2>1. /\ UNCHANGED <<config, disk, registered, stale, assigned, cmd>>
          /\ held \subseteq held' /\ foreign' \subseteq held'
      BY <1>s, <1>6 DEF Takes, LetsGo
    <2>2. Wanted' = Wanted
      BY <2>1 DEF Wanted, Atajos
    <2> QED
      BY <1>s, <2>1, <2>2 DEF Steady, Resting, Assigned, Registering, Kept, Distinct
  <1>7. CASE UNCHANGED vars
    <2>1. Wanted' = Wanted
      BY <1>7 DEF vars, Wanted, Atajos
    <2> QED
      BY <1>s, <1>7, <2>1
         DEF vars, Steady, Resting, Assigned, Registering, Kept, Distinct
  <1> QED
    BY <1>1, <1>2, <1>3, <1>4, <1>5, <1>6, <1>7, <1>c, AskedIsChanged DEF Next

LEMMA ShortcutsInvariant ==
  ASSUME OneCommand
  PROVE  Spec => [](TypeOK /\ ShortcutsInv)
  <1>1. Init => TypeOK /\ ShortcutsInv
    BY InitTyped, InitSteady
  <1>2. TypeOK /\ ShortcutsInv /\ [Next]_vars => (TypeOK /\ ShortcutsInv)'
    BY StepTyped, StepSteady
  <1> QED
    BY <1>1, <1>2, PTL DEF Spec

\* resync_profile_shortcuts: no shortcut sticks and none is lost, whatever others
\* take, whatever cannot be saved and wherever the process ends.
THEOREM RegisteredAreTheSaved ==
  ASSUME OneCommand
  PROVE  Spec => []RegisteredAreSaved
  <1>1. TypeOK /\ ShortcutsInv => RegisteredAreSaved
    <2> SUFFICES ASSUME ShortcutsInv, AtRest, ~stale PROVE RegisteredAreSaved
      BY DEF RegisteredAreSaved
    <2>1. Resting
      BY DEF ShortcutsInv, AtRest, Steady, Idle
    <2> QED
      BY <2>1 DEF Resting, Wanted, RegisteredAreSaved
  <1> QED
    BY <1>1, ShortcutsInvariant, PTL

\* displays_set_profile_shortcut: Ok means that the shortcut works, is in the file
\* and is nobody else's.
THEOREM AssignedShortcutWorks ==
  ASSUME OneCommand
  PROVE  Spec => []AssignedWorks
  <1>1. TypeOK /\ ShortcutsInv => AssignedWorks
    <2> SUFFICES ASSUME TypeOK, ShortcutsInv, AtRest, ~stale, assigned # None
                 PROVE  AssignedWorks
      BY DEF AssignedWorks
    <2>1. Assigned /\ Distinct(config) /\ assigned \in Profiles
      BY DEF ShortcutsInv, AtRest, Steady, Idle, TypeOK
    <2> QED
      BY <2>1 DEF Assigned, Kept, Distinct, AssignedWorks
  <1> QED
    BY <1>1, ShortcutsInvariant, PTL
=============================================================================
