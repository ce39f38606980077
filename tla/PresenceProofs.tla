--------------------------- MODULE PresenceProofs ---------------------------
(* What is true of the presence of a peer for every set of routes and every *)
(* bound: the types, that the route of the last datagram holds, that the    *)
(* window ends up with what is known, and that what is forgotten stays gone.*)
EXTENDS Presence, TLAPS

\* Handing a list to the window keeps the bookkeeping of who tells what.
LEMMA TellsTyped ==
  ASSUME TypeOK, NEW t \in Tasks, NEW c \in BOOLEAN, Tells(t, c)
  PROVE  /\ task' \in [Tasks -> {"idle", "forgetting", "changed", "built"}]
         /\ snap' \in [Tasks -> Wires]
  BY DEF TypeOK, Tells

\* The list that is built is a list.
LEMMA WireTyped == TypeOK => Wire \in Wires
  <1> SUFFICES ASSUME TypeOK PROVE Wire \in Wires
    OBVIOUS
  <1>1. \A r \in Routes, s \in {"online", "offline"} : WirePeer(s, r) \in Wires
    BY DEF WirePeer, Wires
  <1>2. Absent \in Wires
    BY DEF Absent, Wires
  <1>3. rec # NoRec => rec.route \in Routes
    BY DEF TypeOK, Records
  <1>4. manual # NoRoute => manual \in Routes
    BY DEF TypeOK
  <1>5. fav # NoRoute => fav \in Routes
    BY DEF TypeOK
  <1> QED
    BY <1>1, <1>2, <1>3, <1>4, <1>5 DEF Wire

LEMMA RecordTyped == \A r \in Routes, b \in BOOLEAN : Record(r, b) \in Records
  BY DEF Record, Records, Ages

\* A record is not the mark of its absence.
LEMMA NotARecord == NoRec \notin Records
  BY DEF NoRec, Records

\* Before anything was heard, resolved or asked, every variable is in its type.
THEOREM InitTyped == Init => TypeOK
  <1> SUFFICES ASSUME Init PROVE TypeOK
    OBVIOUS
  <1>1. Absent \in Wires
    BY DEF Absent, Wires
  <1>2. Wire \in Wires
    <2>1. rec = NoRec /\ manual \in Routes \cup {NoRoute} /\ fav \in {NoRoute, manual}
      BY DEF Init
    <2>2. \A r \in Routes : WirePeer("offline", r) \in Wires
      BY DEF WirePeer, Wires
    <2> QED
      BY <1>1, <2>1, <2>2 DEF Wire
  <1>3. moves \in 0 .. MaxMoves /\ clicks \in 0 .. MaxClicks
    BY PresenceAssumption DEF Init
  <1>4. task \in [Tasks -> {"idle", "forgetting", "changed", "built"}] /\ snap \in [Tasks -> Wires]
    BY <1>1 DEF Init
  <1>5. window \in Wires /\ boot \in {"asks", "listens", "missed"} \cup Listening
    BY <1>1, <1>2 DEF Init, Listening
  <1> QED
    BY <1>3, <1>4, <1>5 DEF Init, TypeOK

\* Every step of the program keeps every variable in its type.
THEOREM StepTyped == TypeOK /\ [Next]_vars => TypeOK'
  <1> SUFFICES ASSUME TypeOK, [Next]_vars PROVE TypeOK'
    OBVIOUS
  <1> USE RecordTyped, PresenceAssumption
  <1>w. Wire \in Wires /\ Absent \in Wires
    BY WireTyped DEF Absent, Wires
  <1>t. ASSUME NEW t \in Tasks, NEW c \in BOOLEAN, Tells(t, c)
        PROVE  /\ task' \in [Tasks -> {"idle", "forgetting", "changed", "built"}]
               /\ snap' \in [Tasks -> Wires]
    BY <1>t, TellsTyped
  <1>k. {"udp", "mdns", "reaper", "sched", "ui"} = Tasks
    BY DEF Tasks
  <1>c. Clicks => clicks' \in 0 .. MaxClicks
    BY PresenceAssumption DEF Clicks, TypeOK
  <1>1. CASE Hello
    BY <1>1, <1>t, <1>k DEF Hello, TypeOK, stores, sched, shown, world
  <1>2. ASSUME NEW r \in Routes, Resolved(r) PROVE TypeOK'
    <2>1. rec' \in Records
      BY <1>2 DEF Resolved, ReconcileMdns, TypeOK, Records, Ages
    <2> QED
      BY <1>2, <2>1, <1>t, <1>k DEF Resolved, TypeOK, stores, sched, shown, world
  <1>3. CASE Ageing
    <2>1. rec' \in Records
      BY <1>3 DEF Ageing, TypeOK, Records, Ages
    <2> QED
      BY <1>3, <2>1 DEF Ageing, TypeOK, stores, sched, telling, shown, world
  <1>4. CASE Reaps
    BY <1>4, <1>t, <1>k DEF Reaps, Dropped, TypeOK, stores, sched, shown, world
  <1>5. CASE Probes
    <2>1. probe' \in Routes \cup {NoRoute}
      BY <1>5 DEF Probes, Candidate, TypeOK, Records
    <2> QED
      BY <1>5, <2>1 DEF Probes, TypeOK, known, stores, telling, shown, world
  <1>6. CASE Purges
    BY <1>6 DEF Purges, TypeOK, known, stores, telling, shown, world
  <1>7. CASE BackoffEnds
    BY <1>7 DEF BackoffEnds, TypeOK, known, stores, telling, shown, world
  <1>8. CASE Wakes
    BY <1>8 DEF Wakes, TypeOK, known, stores, telling, shown, world
  <1>9. CASE Answers
    <2>1. rec' \in Records
      BY <1>9 DEF Answers, TypeOK, Records, Ages
    <2>3. /\ task' \in [Tasks -> {"idle", "forgetting", "changed", "built"}]
          /\ snap' \in [Tasks -> Wires]
      BY <1>9, <1>t, <1>k DEF Answers
    <2> QED
      <3>1. UNCHANGED <<heard, forgotten, stores, woken, shown, world, clicks>>
        BY <1>9 DEF Answers
      <3>2. probe' = NoRoute /\ backing' = FALSE
        BY <1>9 DEF Answers
      <3> QED
        BY <2>1, <2>3, <3>1, <3>2 DEF TypeOK, stores, shown, world
  <1>10. CASE Unanswered
    BY <1>10 DEF Unanswered, TypeOK, known, stores, telling, shown, world
  <1>11. ASSUME NEW t \in Tasks, Builds(t) PROVE TypeOK'
    BY <1>11, <1>w DEF Builds, TypeOK, known, stores, sched, shown, world
  <1>12. ASSUME NEW t \in Tasks, Emits(t) PROVE TypeOK'
    BY <1>12, <1>w DEF Emits, Shows, Listening, TypeOK, known, stores, sched, world
  <1>14. CASE Asks
    BY <1>14, <1>w DEF Asks, TypeOK, known, stores, sched, telling, world
  <1>15. CASE Listens
    BY <1>15 DEF Listens, Listening, TypeOK, known, stores, sched, telling, world
  <1>16. CASE Rescan
    <2>1. clicks' \in 0 .. MaxClicks
      BY <1>16, <1>c DEF Rescan
    <2>2. /\ task' \in [Tasks -> {"idle", "forgetting", "changed", "built"}]
          /\ snap' \in [Tasks -> Wires]
      BY <1>16, <1>t, <1>k DEF Rescan
    <2> QED
      BY <1>16, <2>1, <2>2 DEF Rescan, TypeOK, known, stores, shown, world
  <1>17. ASSUME NEW r \in Routes, AddByIp(r) PROVE TypeOK'
    <2>1. clicks' \in 0 .. MaxClicks
      BY <1>17, <1>c DEF AddByIp
    <2>2. /\ task' \in [Tasks -> {"idle", "forgetting", "changed", "built"}]
          /\ snap' \in [Tasks -> Wires]
      BY <1>17, <1>t, <1>k DEF AddByIp
    <2> QED
      BY <1>17, <2>1, <2>2 DEF AddByIp, TypeOK, sched, shown, world
  <1>18. ASSUME NEW r \in Routes, PairWithQr(r) PROVE TypeOK'
    <2>1. clicks' \in 0 .. MaxClicks
      BY <1>18, <1>c DEF PairWithQr
    <2>2. /\ task' \in [Tasks -> {"idle", "forgetting", "changed", "built"}]
          /\ snap' \in [Tasks -> Wires]
      BY <1>18, <1>t, <1>k DEF PairWithQr
    <2>3. fav' \in Routes \cup {NoRoute}
      BY <1>18 DEF PairWithQr, TypeOK
    <2> QED
      BY <1>18, <2>1, <2>2, <2>3 DEF PairWithQr, TypeOK, sched, shown, world
  <1>19. CASE MarkFavorite
    <2>1. clicks' \in 0 .. MaxClicks
      BY <1>19, <1>c DEF MarkFavorite
    <2>2. /\ task' \in [Tasks -> {"idle", "forgetting", "changed", "built"}]
          /\ snap' \in [Tasks -> Wires]
      BY <1>19, <1>t, <1>k DEF MarkFavorite
    <2>3. fav' \in Routes \cup {NoRoute}
      BY <1>19 DEF MarkFavorite, TypeOK, Records
    <2> QED
      BY <1>19, <2>1, <2>2, <2>3 DEF MarkFavorite, TypeOK, known, sched, shown, world
  <1>20. CASE UnmarkFavorite
    <2>1. clicks' \in 0 .. MaxClicks
      BY <1>20, <1>c DEF UnmarkFavorite
    <2>2. /\ task' \in [Tasks -> {"idle", "forgetting", "changed", "built"}]
          /\ snap' \in [Tasks -> Wires]
      BY <1>20, <1>t, <1>k DEF UnmarkFavorite
    <2> QED
      BY <1>20, <2>1, <2>2 DEF UnmarkFavorite, TypeOK, known, sched, shown, world
  <1>21. CASE RemoveManual
    <2>1. clicks' \in 0 .. MaxClicks
      BY <1>21, <1>c DEF RemoveManual
    <2>2. /\ task' \in [Tasks -> {"idle", "forgetting", "changed", "built"}]
          /\ snap' \in [Tasks -> Wires]
      BY <1>21, <1>t, <1>k DEF RemoveManual
    <2>3. rec' \in Records \cup {NoRec} /\ heard' \in Routes \cup {NoRoute}
      BY <1>21 DEF RemoveManual, Dropped, TypeOK
    <2> QED
      BY <1>21, <2>1, <2>2, <2>3 DEF RemoveManual, TypeOK, sched, shown, world
  <1>22. CASE Forgets
    <2>1. clicks' \in 0 .. MaxClicks
      BY <1>22, <1>c DEF Forgets
    <2> QED
      BY <1>22, <2>1 DEF Forgets, Dropped, TypeOK, stores, sched, shown, world
  <1>23. CASE ForgetsStores
    BY <1>23 DEF ForgetsStores, TypeOK, sched, shown, world
  <1>24. CASE Roams
    BY <1>24 DEF Roams, Moves, TypeOK, known, stores, sched, telling, shown
  <1>25. CASE Comes
    BY <1>25 DEF Comes, Moves, TypeOK, known, stores, sched, telling, shown
  <1>26. CASE UNCHANGED vars
    BY <1>26 DEF TypeOK, vars, known, stores, sched, telling, shown, world
  <1> QED
    BY <1>1, <1>2, <1>3, <1>4, <1>5, <1>6, <1>7, <1>8, <1>9, <1>10, <1>11, <1>12,
       <1>14, <1>15, <1>16, <1>17, <1>18, <1>19, <1>20, <1>21, <1>22, <1>23, <1>24, <1>25,
       <1>26 DEF Next, Network, Scheduler, Telling, Commands

\* The variables of a peer stay in their types for ever.
THEOREM Typed == Spec => []TypeOK
  <1>1. Init => TypeOK
    BY InitTyped
  <1>2. TypeOK /\ [Next]_vars => TypeOK'
    BY StepTyped
  <1> QED
    BY <1>1, <1>2, PTL DEF Spec

\* No step - mDNS resolving elsewhere, a probe of an older route that answers,
\* a command - takes the route of the last datagram away from a record.
LEMMA StepKeepsHello ==
  TypeOK /\ HelloRouteHolds /\ [Next]_vars => HelloRouteHolds'
  <1> SUFFICES ASSUME TypeOK, HelloRouteHolds, [Next]_vars PROVE HelloRouteHolds'
    OBVIOUS
  <1> USE PresenceAssumption, NotARecord DEF HelloRouteHolds
  <1>same. ASSUME UNCHANGED <<rec, heard>> PROVE HelloRouteHolds'
    BY <1>same
  <1>drop. ASSUME Dropped PROVE HelloRouteHolds'
    BY <1>drop DEF Dropped
  <1>1. CASE Hello
    <2>1. rec' \in Records /\ rec'.route = at /\ rec'.confirmed
      BY <1>1 DEF Hello, Record, Records, Ages, TypeOK
    <2> QED
      BY <1>1, <2>1 DEF Hello
  <1>2. ASSUME NEW r \in Routes, Resolved(r) PROVE HelloRouteHolds'
    <2>1. CASE heard = NoRoute
      BY <1>2, <2>1 DEF Resolved
    <2>2. CASE heard # NoRoute
      <3>1. rec \in Records /\ rec.confirmed /\ rec.route = heard /\ rec # NoRec
        BY <2>2 DEF TypeOK
      <3>2. rec' \in Records /\ rec'.confirmed /\ rec'.route = heard /\ heard' = heard
        BY <1>2, <3>1 DEF Resolved, ReconcileMdns, Records, Ages
      <3> QED
        BY <3>2
    <2> QED
      BY <2>1, <2>2
  <1>3. CASE Ageing
    <2>1. rec \in Records
      BY <1>3 DEF Ageing, TypeOK
    <2>2. rec' \in Records /\ rec'.confirmed = rec.confirmed /\ rec'.route = rec.route
      BY <1>3, <2>1 DEF Ageing, Records, Ages
    <2> QED
      BY <1>3, <2>2 DEF Ageing
  <1>4. CASE Reaps
    BY <1>4, <1>drop DEF Reaps
  <1>5. CASE Answers
    <2>1. CASE rec = NoRec
      BY <1>5, <2>1 DEF Answers
    <2>2. CASE rec # NoRec
      <3>1. rec \in Records
        BY <2>2 DEF TypeOK
      <3>2. rec' \in Records /\ rec'.confirmed /\ rec'.route = rec.route
        BY <1>5, <2>2, <3>1 DEF Answers, Records, Ages
      <3> QED
        BY <1>5, <3>2 DEF Answers
    <2> QED
      BY <2>1, <2>2
  <1>6. CASE Scheduler /\ ~Answers
    BY <1>6, <1>same DEF Scheduler, Probes, Purges, BackoffEnds, Wakes, Unanswered, known
  <1>7. CASE Telling
    BY <1>7, <1>same DEF Telling, Builds, Emits, Asks, Listens, known
  <1>8. CASE RemoveManual
    BY <1>8, <1>same, <1>drop DEF RemoveManual
  <1>9. CASE Forgets
    BY <1>9, <1>drop DEF Forgets
  <1>10. CASE Commands /\ ~RemoveManual /\ ~Forgets
    BY <1>10, <1>same DEF Commands, Rescan, MarkFavorite, UnmarkFavorite, ForgetsStores,
       AddByIp, PairWithQr, known
  <1>11. CASE Roams \/ Comes
    BY <1>11, <1>same DEF Roams, Comes, known
  <1>12. CASE UNCHANGED vars
    BY <1>12, <1>same DEF vars, known
  <1> QED
    BY <1>1, <1>2, <1>3, <1>4, <1>5, <1>6, <1>7, <1>8, <1>9, <1>10, <1>11, <1>12
    DEF Next, Network

\* "UDP always wins the route", for any number of addresses, moves and commands.
THEOREM HelloWins == Spec => []HelloRouteHolds
  <1>1. Init => TypeOK /\ HelloRouteHolds
    BY InitTyped DEF Init, HelloRouteHolds
  <1>2. TypeOK /\ HelloRouteHolds /\ [Next]_vars => TypeOK' /\ HelloRouteHolds'
    BY StepTyped, StepKeepsHello
  <1> QED
    BY <1>1, <1>2, PTL DEF Spec
-----------------------------------------------------------------------------
(* What the window shows. *)

\* With the lists in order and the saves going through, each change of what the
\* window shows is told.  So while nobody has a list still to build, a list that
\* was built is what is known, and the one that is shown is when none is on its
\* way: neither part holds without the other, nor without one list at a time.
Told == Ordered /\ ~DiskFails
Untold == \A t \in Tasks : task[t] \notin {"changed", "forgetting"}
OneList == \A t, u \in Tasks : task[t] = "built" /\ task[u] = "built" => t = u
ListIsNew == Untold => \A t \in Tasks : task[t] = "built" => snap[t] = Wire
ShownIsNew == Quiet /\ boot \in {"listens", "listening"} => window = Wire
WindowInv == OneList /\ ListIsNew /\ ShownIsNew

LEMMA InitWindow == Init => WindowInv
  BY DEF Init, WindowInv, OneList, ListIsNew, ShownIsNew, Quiet, Tasks

LEMMA SameWire == UNCHANGED <<rec, manual, fav>> => Wire' = Wire
  BY DEF Wire, WirePeer

\* A step that shows nothing and tells what it changed.
LEMMA TellsKeeps ==
  ASSUME TypeOK, WindowInv, NEW t \in Tasks, NEW c \in BOOLEAN, Tells(t, c),
         UNCHANGED shown, c \/ Wire' = Wire
  PROVE  WindowInv'
  <1>1. task' \in [Tasks -> {"idle", "forgetting", "changed", "built"}]
    BY TellsTyped
  <1>2. \A u \in Tasks : task'[u] = "built" => u # t /\ task[u] = "built"
    BY DEF Tells, TypeOK
  <1>3. OneList'
    BY <1>2 DEF WindowInv, OneList
  <1>4. CASE c
    <2>1. task'[t] = "changed"
      BY <1>4 DEF Tells, TypeOK
    <2> QED
      BY <1>3, <2>1 DEF WindowInv, ListIsNew, ShownIsNew, Quiet, Untold
  <1>5. CASE ~c
    <2>1. task' = task /\ snap' = snap /\ Wire' = Wire /\ UNCHANGED <<window, boot>>
      <3>1. task'[t] = task[t] /\ \A u \in Tasks : task'[u] = task[u]
        BY <1>5 DEF Tells, TypeOK
      <3> QED
        BY <1>1, <1>5, <3>1 DEF Tells, TypeOK, shown
    <2> QED
      BY <2>1 DEF WindowInv, OneList, ListIsNew, ShownIsNew, Quiet, Untold
  <1> QED
    BY <1>4, <1>5

\* A step that tells nothing and changes nothing of what is told.
LEMMA SilentKeeps ==
  WindowInv /\ Wire' = Wire /\ UNCHANGED <<telling, shown>> => WindowInv'
  BY DEF WindowInv, OneList, ListIsNew, ShownIsNew, Quiet, Untold, telling, shown

LEMMA StepKeepsWindow ==
  ASSUME Told
  PROVE  TypeOK /\ WindowInv /\ [Next]_vars => WindowInv'
  <1> SUFFICES ASSUME TypeOK, WindowInv, [Next]_vars PROVE WindowInv'
    OBVIOUS
  <1>tell. ASSUME NEW t \in Tasks, NEW c \in BOOLEAN, Tells(t, c),
                  UNCHANGED shown, c \/ Wire' = Wire
           PROVE  WindowInv'
    BY <1>tell, TellsKeeps
  <1>save. ASSUME NEW sure \in BOOLEAN, Saves(sure) PROVE sure
    BY <1>save DEF Told, Saves
  <1>k. Tasks = {"udp", "mdns", "reaper", "sched", "ui"}
    BY DEF Tasks
  <1>1. CASE Hello
    <2>1. rec' = Record(at, TRUE) /\ UNCHANGED <<manual, fav>> /\ Tells("udp", rec.route # at)
      BY <1>1 DEF Hello, stores
    <2>2. ASSUME rec.route = at PROVE Wire' = Wire
      <3>1. rec # NoRec /\ rec' # NoRec /\ rec'.route = rec.route
        BY <2>1, <2>2, PresenceAssumption, NotARecord, RecordTyped
        DEF TypeOK, Record, NoRec
      <3> QED
        BY <2>1, <3>1 DEF Wire, WirePeer
    <2> QED
      BY <1>1, <1>k, <1>tell, <2>1, <2>2 DEF Hello
  <1>2. ASSUME NEW r \in Routes, Resolved(r) PROVE WindowInv'
    <2>1. UNCHANGED <<manual, fav>> /\ Tells("mdns", rec'.route # rec.route)
      BY <1>2 DEF Resolved, stores
    <2>2. ASSUME rec'.route = rec.route PROVE Wire' = Wire
      <3>1. rec # NoRec /\ rec' # NoRec
        <4>1. CASE rec = NoRec
          BY <1>2, <2>2, <4>1, PresenceAssumption DEF Resolved, Record, NoRec
        <4>2. CASE rec # NoRec
          <5>1. rec' \in Records
            BY <1>2, <4>2 DEF Resolved, ReconcileMdns, TypeOK, Records, Ages
          <5> QED
            BY <4>2, <5>1, NotARecord
        <4> QED
          BY <4>1, <4>2
      <3> QED
        BY <2>1, <2>2, <3>1 DEF Wire, WirePeer
    <2> QED
      BY <1>2, <1>k, <1>tell, <2>1, <2>2 DEF Resolved
  <1>3. CASE Ageing
    <2>1. /\ rec # NoRec /\ rec' # NoRec /\ rec'.route = rec.route
          /\ UNCHANGED <<manual, fav, telling, shown>>
      BY <1>3, NotARecord DEF Ageing, TypeOK, Records, Ages, stores
    <2>2. Wire' = Wire
      BY <2>1 DEF Wire, WirePeer
    <2> QED
      BY <2>1, <2>2, SilentKeeps
  <1>4. CASE Reaps
    BY <1>4, <1>k, <1>tell DEF Reaps
  <1>5. CASE Answers
    <2>1. UNCHANGED <<manual, fav, shown>> /\ Tells("sched", rec = NoRec)
      BY <1>5 DEF Answers, stores
    <2>2. ASSUME rec # NoRec PROVE Wire' = Wire
      <3>1. rec' # NoRec /\ rec'.route = rec.route
        <4>1. rec \in Records /\ rec' = [rec EXCEPT !.age = "fresh", !.confirmed = TRUE]
          BY <1>5, <2>2 DEF Answers, TypeOK
        <4>2. rec'.route = rec.route /\ rec' \in Records
          BY <4>1 DEF Records, Ages
        <4> QED
          BY <4>2, NotARecord
      <3> QED
        BY <2>1, <2>2, <3>1 DEF Wire, WirePeer
    <2> QED
      BY <1>k, <1>tell, <2>1, <2>2
  <1>6. CASE Scheduler /\ ~Answers
    <2>1. UNCHANGED <<known, stores, telling, shown>>
      BY <1>6 DEF Scheduler, Probes, Purges, BackoffEnds, Wakes, Unanswered
    <2> QED
      BY <2>1, SameWire, SilentKeeps DEF known, stores
  <1>7. ASSUME NEW t \in Tasks, Builds(t) PROVE WindowInv'
    <2>1. Wire' = Wire /\ UNCHANGED <<window, boot>>
      BY <1>7, SameWire DEF Builds, known, stores, shown
    <2>2. /\ task[t] = "changed" /\ task'[t] = "built" /\ snap'[t] = Wire
          /\ \A u \in Tasks \ {t} : /\ task'[u] = task[u] /\ snap'[u] = snap[u]
                                   /\ task'[u] # "built"
      BY <1>7 DEF Builds, TypeOK, Told
    <2> QED
      BY <2>1, <2>2 DEF WindowInv, OneList, ListIsNew, ShownIsNew, Quiet
  <1>8. ASSUME NEW t \in Tasks, Emits(t) PROVE WindowInv'
    <2>1. Wire' = Wire
      BY <1>8, SameWire DEF Emits, known, stores
    <2>2. /\ task[t] = "built" /\ task'[t] = "idle"
          /\ \A u \in Tasks \ {t} : task'[u] = task[u] /\ task'[u] # "built"
      BY <1>8 DEF Emits, TypeOK, WindowInv, OneList
    <2>3. Quiet' => snap[t] = Wire
      BY <2>2 DEF Quiet, Untold, WindowInv, ListIsNew
    <2>4. /\ boot' \in {"listens", "listening"} => window' = snap[t]
      BY <1>8 DEF Emits, Shows, Listening, TypeOK
    <2> QED
      BY <2>1, <2>2, <2>3, <2>4 DEF WindowInv, OneList, ListIsNew, ShownIsNew
  <1>9. CASE Asks
    <2>1. Wire' = Wire /\ window' = Wire /\ UNCHANGED <<task, snap>>
      BY <1>9, SameWire DEF Asks, known, stores, telling
    <2> QED
      BY <2>1 DEF WindowInv, OneList, ListIsNew, ShownIsNew, Untold
  <1>10. CASE Listens
    <2>1. /\ Wire' = Wire /\ UNCHANGED <<task, snap, window>>
          /\ boot' \in {"listens", "listening"} => boot = "listens"
      BY <1>10, SameWire DEF Listens, known, stores, telling
    <2> QED
      BY <2>1 DEF WindowInv, OneList, ListIsNew, ShownIsNew, Quiet, Untold
  <1>11. CASE Rescan
    BY <1>11, <1>k, <1>tell DEF Rescan
  <1>12. ASSUME NEW r \in Routes, AddByIp(r) \/ PairWithQr(r) PROVE WindowInv'
    <2> PICK sure \in BOOLEAN : Saves(sure) /\ Tells("ui", sure)
      BY <1>12 DEF AddByIp, PairWithQr
    <2> QED
      BY <1>12, <1>k, <1>tell, <1>save DEF AddByIp, PairWithQr
  <1>13. CASE MarkFavorite \/ UnmarkFavorite \/ RemoveManual
    <2> PICK sure \in BOOLEAN : Saves(sure) /\ Tells("ui", sure)
      BY <1>13 DEF MarkFavorite, UnmarkFavorite, RemoveManual
    <2> QED
      BY <1>13, <1>k, <1>tell, <1>save DEF MarkFavorite, UnmarkFavorite, RemoveManual
  <1>14. CASE Forgets \/ ForgetsStores
    <2>1. /\ task'["ui"] \in {"forgetting", "changed"} /\ UNCHANGED shown
          /\ \A u \in Tasks : task'[u] = "built" => task[u] = "built"
      BY <1>14, <1>k DEF Forgets, ForgetsStores, TypeOK
    <2> QED
      BY <2>1, <1>k DEF WindowInv, OneList, ListIsNew, ShownIsNew, Quiet, Untold
  <1>15. CASE Roams \/ Comes
    <2>1. UNCHANGED <<known, stores, telling, shown>>
      BY <1>15 DEF Roams, Comes
    <2> QED
      BY <2>1, SameWire, SilentKeeps DEF known, stores
  <1>16. CASE UNCHANGED vars
    <2>1. UNCHANGED <<known, stores, telling, shown>>
      BY <1>16 DEF vars
    <2> QED
      BY <2>1, SameWire, SilentKeeps DEF known, stores
  <1> QED
    BY <1>1, <1>2, <1>3, <1>4, <1>5, <1>6, <1>7, <1>8, <1>9, <1>10, <1>11, <1>12, <1>13,
       <1>14, <1>15, <1>16 DEF Next, Network, Telling, Commands

\* While lists are emitted in the order they are built and saves succeed: once
\* nobody has a list to tell, a window that missed none as it started shows what
\* is known, for any addresses and however datagrams, mDNS, the reaper, probes
\* and commands cross.
THEOREM WindowIsRight == ASSUME Told PROVE Spec => []QuietWindow
  <1>1. Init => TypeOK /\ WindowInv
    BY InitTyped, InitWindow
  <1>2. TypeOK /\ WindowInv /\ [Next]_vars => TypeOK' /\ WindowInv'
    BY StepTyped, StepKeepsWindow
  <1>3. WindowInv => QuietWindow
    BY DEF WindowInv, ShownIsNew, QuietWindow
  <1> QED
    BY <1>1, <1>2, <1>3, PTL DEF Spec
-----------------------------------------------------------------------------
(* What is forgotten. *)

\* A peer that counts as forgotten is in no store, and no probe is on its way to
\* it: so none can begin.
Unknown ==
  forgotten => rec = NoRec /\ probe = NoRoute /\ manual = NoRoute /\ fav = NoRoute

LEMMA StepKeepsUnknown ==
  ASSUME Alone
  PROVE  TypeOK /\ Unknown /\ [Next]_vars => Unknown'
  <1> SUFFICES ASSUME TypeOK, Unknown, [Next]_vars, forgotten' PROVE Unknown'
    BY DEF Unknown
  <1> USE DEF Unknown
  <1>1. CASE Network
    BY <1>1 DEF Network, Hello, Resolved, Roams, Comes, known, stores, sched
  <1>2. CASE Ageing \/ Reaps
    BY <1>2 DEF Ageing, Reaps, Dropped, stores, sched
  <1>3. CASE Scheduler
    BY <1>3 DEF Scheduler, Probes, Purges, BackoffEnds, Wakes, Answers, Unanswered,
       Candidate, known, stores
  <1>4. CASE Telling
    BY <1>4 DEF Telling, Builds, Emits, Asks, Listens, known, stores, sched
  <1>5. CASE Commands
    BY <1>5 DEF Commands, Rescan, MarkFavorite, UnmarkFavorite, RemoveManual, Forgets,
       ForgetsStores, AddByIp, PairWithQr, Dropped, known, stores, sched
  <1>6. CASE UNCHANGED vars
    BY <1>6 DEF vars, known, stores, sched
  <1> QED
    BY <1>1, <1>2, <1>3, <1>4, <1>5, <1>6 DEF Next

\* A peer that was forgotten while no probe was on its way to it comes back only
\* when a datagram or mDNS sees it, or the user adds it: whatever the disk does.
THEOREM ForgottenIsGone == ASSUME Alone PROVE Spec => []ForgottenStaysGone
  <1>1. Init => TypeOK /\ Unknown
    BY InitTyped DEF Init, Unknown
  <1>2. TypeOK /\ Unknown /\ [Next]_vars => TypeOK' /\ Unknown'
    BY StepTyped, StepKeepsUnknown
  <1>3. Unknown => ForgottenStaysGone
    BY DEF Unknown, ForgottenStaysGone
  <1> QED
    BY <1>1, <1>2, <1>3, PTL DEF Spec
=============================================================================
