------------------------------ MODULE Shortcuts ------------------------------
(***************************************************************************)
(* The global shortcuts of the profiles: the map and the general switch in *)
(* the configuration, in memory and on disk, and the shortcuts that are    *)
(* registered with Windows, which other programs take theirs from.  Every  *)
(* command saves its change and then registers everything again, step by   *)
(* step, on a thread of its own; the window sends one command at a time    *)
(* (displaysBusy), which the backend does not know.                        *)
(***************************************************************************)
EXTENDS FiniteSets

CONSTANTS Profiles,
          Accels,     \* combinations that parse, up to case and blanks
          None,       \* no combination; no profile
          Commands    \* the commands under way at the same time

ASSUME ShortcutsAssumption == None \notin Accels \cup Profiles

VARIABLES config,      \* in memory: the profiles, their shortcuts and the switch
          disk,        \* displays.json
          registered,  \* with Windows, by this program
          foreign,     \* registered by others
          held,        \* history: what others had since the last resync began
          stale,       \* history: a command changed the memory, could not save, and stopped
          assigned,    \* history: the profile whose shortcut was set last, with success
          cmd          \* of each command: how far it is

vars == <<config, disk, registered, foreign, held, stale, assigned, cmd>>

Configs == [profiles : SUBSET Profiles,
            profile_shortcuts : [Profiles -> Accels \cup {None}],
            global_shortcuts_enabled : BOOLEAN]

\* resync_profile_shortcuts on its way: what it has yet to register and what it
\* could not; and the profile whose shortcut the command sets.
Idle == [at |-> "idle", todo |-> {}, fallidos |-> {}, name |-> None]
Resync(p) == [Idle EXCEPT !.at = "unregisters", !.name = p]

\* setup registers what the file has: the first time, nothing.
Init == /\ disk \in {c \in Configs : c.profiles = {}
                         /\ c.profile_shortcuts = [p \in Profiles |-> None]}
        /\ config = disk
        /\ registered = {} /\ foreign \in SUBSET Accels /\ held = foreign
        /\ stale = FALSE /\ assigned = None
        /\ \E c \in Commands : cmd = [d \in Commands |-> IF d = c THEN Resync(None) ELSE Idle]

Saved(conf) == config' = conf /\ disk' = conf
Unsaved(conf) == config' = conf /\ disk' = disk

\* A command saves its change and goes on to register, or stops where it could not.
Asks(c, conf, p) ==
  /\ cmd[c] = Idle /\ assigned' = None
  /\ \/ Saved(conf) /\ cmd' = [cmd EXCEPT ![c] = Resync(p)] /\ stale' = stale
     \/ Unsaved(conf) /\ cmd' = cmd /\ stale' = TRUE
  /\ UNCHANGED <<registered, foreign, held>>

\* asignar_atajo: not a combination that is another profile's.
Asignar(c, p, a) ==
  /\ \A q \in Profiles \ {p} : config.profile_shortcuts[q] # a
  /\ Asks(c, [config EXCEPT !.profile_shortcuts[p] = a], p)

\* limpiar_atajo, whoever calls it.
Sin(conf, p) == [conf EXCEPT !.profile_shortcuts[p] = None]

Limpiar(c, p) == Asks(c, Sin(config, p), None)

\* guardar_ajustes touches its own fields.
Ajustes(b) == [config EXCEPT !.global_shortcuts_enabled = b]

Guardar(c, b) == Asks(c, Ajustes(b), None)

\* borrar_perfil saves twice: without the profile, then without its shortcut.
Borrar(c, p) ==
  LET gone == [config EXCEPT !.profiles = @ \ {p}]
      clean == Sin(gone, p)
  IN /\ p \in config.profiles /\ cmd[c] = Idle /\ assigned' = None
     /\ \/ Saved(clean) /\ cmd' = [cmd EXCEPT ![c] = Resync(None)] /\ stale' = stale
        \/ Unsaved(gone) /\ cmd' = cmd /\ stale' = TRUE
        \/ config' = clean /\ disk' = gone /\ clean # gone /\ cmd' = cmd /\ stale' = TRUE
     /\ UNCHANGED <<registered, foreign, held>>

\* save_profile gives a profile, whose shortcut is asked for later.
Guarda(c, p) ==
  /\ cmd[c] = Idle /\ p \notin config.profiles
  /\ LET conf == [config EXCEPT !.profiles = @ \cup {p}]
     IN \/ Saved(conf) /\ stale' = stale
        \/ Unsaved(conf) /\ stale' = TRUE
  /\ UNCHANGED <<registered, foreign, held, assigned, cmd>>

\* unregister_all: from nothing, so that nothing sticks.
Unregisters(c) ==
  /\ cmd[c].at = "unregisters"
  /\ registered' = {} /\ held' = foreign
  /\ cmd' = [cmd EXCEPT ![c].at = "reads", ![c].fallidos = {}]
  /\ UNCHANGED <<config, disk, foreign, stale, assigned>>

\* Seeded bug: update_settings keeps the entries that are blank.
AtajosBlank == {config.profile_shortcuts[p] : p \in Profiles}

\* atajos_de_perfil: the map as it is now, or nothing when the switch is off.
Atajos == {config.profile_shortcuts[p] : p \in Profiles} \ {None}

\* Seeded bug: the switch is not looked at.
ReadsAll(c) ==
  /\ cmd[c].at = "reads"
  /\ cmd' = [cmd EXCEPT ![c].at = "registers", ![c].todo = Atajos]
  /\ stale' = FALSE
  /\ UNCHANGED <<config, disk, registered, foreign, held, assigned>>

Reads(c) ==
  /\ cmd[c].at = "reads"
  /\ cmd' = [cmd EXCEPT ![c].at = "registers",
                        ![c].todo = IF config.global_shortcuts_enabled THEN Atajos ELSE {}]
  /\ stale' = FALSE
  /\ UNCHANGED <<config, disk, registered, foreign, held, assigned>>

\* What anybody has cannot be registered again.
Registers(c, a) ==
  /\ cmd[c].at = "registers" /\ a \in cmd[c].todo
  /\ IF a \in registered \cup foreign
     THEN cmd' = [cmd EXCEPT ![c].todo = @ \ {a}, ![c].fallidos = @ \cup {a}]
          /\ registered' = registered
     ELSE cmd' = [cmd EXCEPT ![c].todo = @ \ {a}] /\ registered' = registered \cup {a}
  /\ UNCHANGED <<config, disk, foreign, held, stale, assigned>>

\* The command ends; the shortcut it set is registered, or
Ends(c) ==
  /\ cmd[c].at = "registers" /\ cmd[c].todo = {}
  /\ cmd[c].name # None => config.profile_shortcuts[cmd[c].name] \notin cmd[c].fallidos
  /\ cmd' = [cmd EXCEPT ![c] = Idle]
  /\ assigned' = cmd[c].name
  /\ UNCHANGED <<config, disk, registered, foreign, held, stale>>

\* Seeded bug: what could not be registered stays where it was saved.
EndsAnyhow(c) ==
  /\ cmd[c].at = "registers" /\ cmd[c].todo = {} /\ cmd[c].name # None
  /\ config.profile_shortcuts[cmd[c].name] \in cmd[c].fallidos
  /\ cmd' = [cmd EXCEPT ![c] = Idle] /\ assigned' = cmd[c].name
  /\ UNCHANGED <<config, disk, registered, foreign, held, stale>>

\* is taken away again, saved or not, and everything is registered without it.
Deshace(c) ==
  /\ cmd[c].at = "registers" /\ cmd[c].todo = {} /\ cmd[c].name # None
  /\ config.profile_shortcuts[cmd[c].name] \in cmd[c].fallidos
  /\ Saved(Sin(config, cmd[c].name)) \/ Unsaved(Sin(config, cmd[c].name))
  /\ cmd' = [cmd EXCEPT ![c] = Resync(None)]
  /\ UNCHANGED <<registered, foreign, held, stale, assigned>>

\* The process ends, whatever it does, and starts again.
Restarts ==
  /\ config' = disk /\ registered' = {} /\ stale' = FALSE /\ assigned' = None
  /\ \E c \in Commands : cmd' = [d \in Commands |-> IF d = c THEN Resync(None) ELSE Idle]
  /\ UNCHANGED <<disk, foreign, held>>

\* Another program takes a combination that is free, or lets go of its own.
Takes(a) == /\ a \notin registered \cup foreign
            /\ foreign' = foreign \cup {a} /\ held' = held \cup {a}
            /\ UNCHANGED <<config, disk, registered, stale, assigned, cmd>>
LetsGo(a) == /\ a \in foreign /\ foreign' = foreign \ {a}
             /\ UNCHANGED <<config, disk, registered, held, stale, assigned, cmd>>

Asked(c) ==
  \/ \E b \in BOOLEAN : Guardar(c, b)
  \/ \E p \in Profiles : \/ \E a \in Accels : Asignar(c, p, a)
                         \/ Limpiar(c, p) \/ Borrar(c, p) \/ Guarda(c, p)

Goes(c) == \/ Unregisters(c) \/ Reads(c) \/ \E a \in Accels : Registers(c, a)
           \/ Ends(c) \/ Deshace(c)

Next == \/ \E c \in Commands : Asked(c) \/ Goes(c)
        \/ Restarts
        \/ \E a \in Accels : Takes(a) \/ LetsGo(a)

Spec == Init /\ [][Next]_vars
-----------------------------------------------------------------------------
TypeOK ==
  /\ {config, disk} \subseteq Configs
  /\ {registered, foreign, held} \subseteq SUBSET Accels
  /\ stale \in BOOLEAN /\ assigned \in Profiles \cup {None}
  /\ cmd \in [Commands -> [at : {"idle", "unregisters", "reads", "registers"},
                           todo : SUBSET Accels, fallidos : SUBSET Accels,
                           name : Profiles \cup {None}]]

AtRest == \A c \in Commands : cmd[c] = Idle

\* With no command under way, and after any that could not save, what is registered
\* is what the configuration in memory says, no more, and no less but for what
\* another program had while it was registered: no shortcut sticks, none is lost.
RegisteredAreSaved ==
  AtRest /\ ~stale =>
    LET wanted == IF config.global_shortcuts_enabled THEN Atajos ELSE {}
    IN registered \subseteq wanted /\ wanted \subseteq registered \cup held

\* A shortcut that was set with success works, is its profile's alone and is the one
\* a restart would find.
AssignedWorks ==
  AtRest /\ ~stale /\ assigned # None =>
    LET a == config.profile_shortcuts[assigned]
    IN /\ a # None /\ disk = config
       /\ config.global_shortcuts_enabled => a \in registered
       /\ \A p \in Profiles : config.profile_shortcuts[p] = a => p = assigned
=============================================================================
