------------------------------ MODULE Presence ------------------------------
(***************************************************************************)
(* Who is on the grid: the record the program keeps of one peer and the    *)
(* list of peers the window shows (discovery.rs, udp_discovery.rs, and the *)
(* commands of lib.rs that touch them).                                    *)
(*                                                                         *)
(* Five actors write the record under one mutex - the datagrams, mDNS, the *)
(* reaper, the probe scheduler and the commands of the window - and each   *)
(* that changed something the window shows builds a list (locking again)   *)
(* and then emits it.  Time is in PresenceTimers; here a record merely     *)
(* ages, and the names, icons and other labels of a peer are left out.     *)
(***************************************************************************)
EXTENDS Naturals, FiniteSets

CONSTANTS Routes,     \* the addresses (ip, port) the peer has, or is said to have
          NoRoute,    \* what a store holds that does not know the peer
          MaxClicks,  \* bound: commands the user runs
          MaxMoves,   \* bound: times the peer roams, or goes and comes back
          MaxTelling, \* bound: actors that have a list to tell at the same time
          Ordered,    \* a list is emitted before anybody else builds one
          Alone,      \* count as forgotten only a peer that is not being probed
          DiskFails   \* the save of a store may fail

ASSUME PresenceAssumption ==
  /\ NoRoute \notin Routes
  /\ {MaxClicks, MaxMoves, MaxTelling} \subseteq Nat
  /\ {Ordered, Alone, DiskFails} \subseteq BOOLEAN

VARIABLES rec,      \* the PeerRecord, or NoRec
          manual,   \* the route in manual-peers.json
          fav,      \* the last route in prefs.json
          probe,    \* the route being probed
          backing,  \* the scheduler waits out a backoff of this peer
          woken,    \* a permit of probe_wake
          task,     \* how far each actor is in telling the window
          snap,     \* the list each actor built
          window,   \* what the window shows
          boot,     \* how far the window is in asking for its first list
          at, up,   \* where the peer is, and whether it is running
          moves, clicks,
          heard,    \* history: where the last hello of this record came from
          forgotten \* history: forgotten by then, and not seen, heard or added since

known == <<rec, heard, forgotten>>
stores == <<manual, fav>>
sched == <<probe, backing, woken>>
telling == <<task, snap>>
shown == <<window, boot>>
world == <<at, up, moves>>
vars == <<known, stores, sched, telling, shown, world, clicks>>

Tasks == {"udp", "mdns", "reaper", "sched", "ui"}
Ages == {"fresh", "stale", "expired"}
NoRec == [route |-> NoRoute]
Records == [route : Routes, confirmed : BOOLEAN, age : Ages]
Record(r, sure) == [route |-> r, confirmed |-> sure, age |-> "fresh"]

\* The entry of the window for this peer: a live record hides the manual
\* peer, and that one the favourite; all of them say whether it is marked.
WirePeer(status, r) == [status |-> status, route |-> r,
                        favorite |-> fav # NoRoute, manual |-> manual # NoRoute]
Absent == [status |-> "absent", route |-> NoRoute, favorite |-> FALSE, manual |-> FALSE]
Wire == IF rec # NoRec THEN WirePeer("online", rec.route)
        ELSE IF manual # NoRoute THEN WirePeer("offline", manual)
        ELSE IF fav # NoRoute THEN WirePeer("offline", fav)
        ELSE Absent
Wires == [status : {"online", "offline", "absent"}, route : Routes \cup {NoRoute},
          favorite : BOOLEAN, manual : BOOLEAN]

Init ==
  /\ rec = NoRec /\ manual \in Routes \cup {NoRoute} /\ fav \in {NoRoute, manual}
  /\ probe = NoRoute /\ backing = FALSE /\ woken = FALSE
  /\ task = [t \in Tasks |-> "idle"] /\ snap = [t \in Tasks |-> Absent]
  /\ window = Absent /\ boot = "asks"
  /\ at \in Routes /\ up \in BOOLEAN /\ moves = 0 /\ clicks = 0
  /\ heard = NoRoute /\ forgotten = FALSE
-----------------------------------------------------------------------------
(* What reaches the window. *)

\* The actor that changed something the window shows goes on to tell it.
Tells(t, changed) ==
  /\ task[t] = "idle"
  /\ changed => Cardinality({u \in Tasks : task[u] # "idle"}) < MaxTelling
  /\ task' = [task EXCEPT ![t] = IF changed THEN "changed" ELSE "idle"]
  /\ snap' = snap

\* The window shows the list that comes when it listens, and misses it when it
\* has asked for the first one and does not listen yet.
Listening == {"listening", "deaf"}
Shows(w) == /\ window' = IF boot \in Listening THEN w ELSE window
            /\ boot' = CASE boot = "deaf" -> "listening"
                         [] boot = "listens" -> "missed"
                         [] OTHER -> boot

\* The mutex of the records was released: the list is built under it again,
Builds(t) ==
  /\ task[t] = "changed"
  /\ Ordered => \A u \in Tasks : task[u] # "built"
  /\ task' = [task EXCEPT ![t] = "built"]
  /\ snap' = [snap EXCEPT ![t] = Wire]
  /\ UNCHANGED <<known, stores, sched, shown, world, clicks>>

\* and emitted when it is released once more.
Emits(t) ==
  /\ task[t] = "built"
  /\ task' = [task EXCEPT ![t] = "idle"]
  /\ snap' = [snap EXCEPT ![t] = Absent]
  /\ Shows(snap[t])
  /\ UNCHANGED <<known, stores, sched, world, clicks>>

\* The window asks for the list and only then begins to listen.
Asks == /\ boot = "asks" /\ boot' = "listens" /\ window' = Wire
        /\ UNCHANGED <<known, stores, sched, telling, world, clicks>>
Listens == /\ boot \in {"listens", "missed"}
           /\ boot' = IF boot = "missed" THEN "deaf" ELSE "listening"
           /\ UNCHANGED <<known, stores, sched, telling, window, world, clicks>>
-----------------------------------------------------------------------------
(* The peer and its record. *)

\* A datagram of the peer: its source address is the route, whatever was known.
Hello ==
  /\ up
  /\ rec' = Record(at, TRUE)
  /\ heard' = at /\ forgotten' = FALSE
  /\ Tells("udp", rec.route # at)
  /\ UNCHANGED <<stores, sched, shown, world, clicks>>

\* mDNS resolves the peer to any of its addresses, a virtual adapter's too.
ReconcileMdns(r) == [rec EXCEPT !.age = "fresh", !.route = IF rec.confirmed THEN @ ELSE r]
Resolved(r) ==
  /\ up
  /\ rec' = IF rec = NoRec THEN Record(r, FALSE) ELSE ReconcileMdns(r)
  /\ forgotten' = FALSE
  /\ Tells("mdns", rec'.route # rec.route)
  /\ UNCHANGED <<heard, stores, sched, shown, world, clicks>>

Ageing ==
  /\ rec # NoRec /\ rec.age # "expired"
  /\ rec' = [rec EXCEPT !.age = IF @ = "fresh" THEN "stale" ELSE "expired"]
  /\ UNCHANGED <<heard, forgotten, stores, sched, telling, shown, world, clicks>>

Dropped == rec' = NoRec /\ heard' = NoRoute

\* Seeded bug: the reaper drops the record and tells nobody.
ReapsSilently ==
  /\ rec # NoRec /\ rec.age = "expired"
  /\ Dropped /\ forgotten' = forgotten
  /\ Tells("reaper", FALSE)
  /\ UNCHANGED <<stores, sched, shown, world, clicks>>

Reaps ==
  /\ rec # NoRec /\ rec.age = "expired"
  /\ Dropped /\ forgotten' = forgotten
  /\ Tells("reaper", TRUE)
  /\ UNCHANGED <<stores, sched, shown, world, clicks>>
-----------------------------------------------------------------------------
(* The probe scheduler: one pass at a time. *)

Resting == probe = NoRoute /\ task["sched"] = "idle"

\* Where a probe would go: a live record that went stale, or else the stores.
Candidate == IF rec # NoRec THEN IF rec.age = "fresh" THEN NoRoute ELSE rec.route
             ELSE IF manual # NoRoute THEN manual ELSE fav

Probes ==
  /\ Resting /\ ~backing /\ Candidate # NoRoute
  /\ probe' = Candidate
  /\ UNCHANGED <<known, stores, backing, woken, telling, shown, world, clicks>>

\* A peer that stopped being a candidate loses its backoff.
Purges ==
  /\ Resting /\ backing /\ Candidate = NoRoute
  /\ backing' = FALSE
  /\ UNCHANGED <<known, stores, probe, woken, telling, shown, world, clicks>>

BackoffEnds ==
  /\ backing /\ backing' = FALSE
  /\ UNCHANGED <<known, stores, probe, woken, telling, shown, world, clicks>>

\* The permit of a rescan is taken between two passes and forgets the backoff.
Wakes ==
  /\ Resting /\ woken
  /\ woken' = FALSE /\ backing' = FALSE
  /\ UNCHANGED <<known, stores, probe, telling, shown, world, clicks>>

\* Seeded bug: the probe writes back the route it read before its await.
AnswersClobbering ==
  /\ probe # NoRoute /\ up /\ probe = at
  /\ probe' = NoRoute /\ backing' = FALSE
  /\ rec' = Record(probe, TRUE)
  /\ Tells("sched", rec = NoRec)
  /\ UNCHANGED <<heard, forgotten, stores, woken, shown, world, clicks>>

\* The peer answered where it was probed, with its own certificate: that
\* refreshes the record there is now, and never its route.
Answers ==
  /\ probe # NoRoute /\ up /\ probe = at
  /\ probe' = NoRoute /\ backing' = FALSE
  /\ rec' = IF rec = NoRec THEN Record(probe, TRUE)
            ELSE [rec EXCEPT !.age = "fresh", !.confirmed = TRUE]
  /\ Tells("sched", rec = NoRec)
  /\ UNCHANGED <<heard, forgotten, stores, woken, shown, world, clicks>>

\* Seeded bug: the probe is not wrapped in its timeout, so it never ends.
UnansweredForEver == probe # NoRoute /\ FALSE /\ UNCHANGED vars

Unanswered ==
  /\ probe # NoRoute /\ ~(up /\ probe = at)
  /\ probe' = NoRoute /\ backing' = TRUE
  /\ UNCHANGED <<known, stores, woken, telling, shown, world, clicks>>
-----------------------------------------------------------------------------
(* The commands of the window; a command that could not save says so and    *)
(* tells nobody of what memory already holds.                               *)

\* Bound: the user touches nothing before the window listens.
Clicks == boot = "listening" /\ clicks < MaxClicks /\ clicks' = clicks + 1
Saves(sure) == sure \/ DiskFails

Rescan ==
  /\ Clicks /\ woken' = TRUE /\ Tells("ui", TRUE)
  /\ UNCHANGED <<known, stores, probe, backing, shown, world>>

AddByIp(r) ==
  /\ Clicks /\ up /\ r = at
  /\ manual' = r /\ forgotten' = FALSE
  /\ \E sure \in BOOLEAN : Saves(sure) /\ Tells("ui", sure)
  /\ UNCHANGED <<rec, heard, fav, sched, shown, world>>

\* Pairing saves the manual peer and, best effort, the favourite.
PairWithQr(r) ==
  /\ Clicks /\ up /\ r = at
  /\ manual' = r /\ forgotten' = FALSE
  /\ \E sure \in BOOLEAN : /\ Saves(sure) /\ Tells("ui", sure)
                           /\ fav' = IF sure THEN r ELSE fav
  /\ UNCHANGED <<rec, heard, sched, shown, world>>

\* The star takes the card of the record, or else of the manual peer.
MarkFavorite ==
  /\ Clicks
  /\ LET card == IF rec # NoRec THEN rec.route ELSE manual
     IN  card # NoRoute /\ fav' = card
  /\ \E sure \in BOOLEAN : Saves(sure) /\ Tells("ui", sure)
  /\ UNCHANGED <<known, manual, sched, shown, world>>

UnmarkFavorite ==
  /\ Clicks /\ fav # NoRoute
  /\ fav' = NoRoute
  /\ \E sure \in BOOLEAN : Saves(sure) /\ Tells("ui", sure)
  /\ UNCHANGED <<known, manual, sched, shown, world>>

RemoveManual ==
  /\ Clicks /\ manual # NoRoute
  /\ manual' = NoRoute
  /\ \E sure \in BOOLEAN :
       /\ Saves(sure) /\ Tells("ui", sure)
       /\ IF sure THEN Dropped ELSE UNCHANGED <<rec, heard>>
  /\ UNCHANGED <<forgotten, fav, sched, shown, world>>

\* Forgetting drops the record, then the peer in every store, then tells.
Forgets ==
  /\ Clicks /\ Wire # Absent /\ task["ui"] = "idle"
  /\ Dropped /\ forgotten' = FALSE
  /\ task' = [task EXCEPT !["ui"] = "forgetting"]
  /\ UNCHANGED <<stores, sched, snap, shown, world>>
\* Seeded bug: only the record is dropped, and the stores still know the peer.
ForgetsTheRecord ==
  /\ task["ui"] = "forgetting"
  /\ forgotten' = (rec = NoRec /\ (Alone => probe = NoRoute))
  /\ task' = [task EXCEPT !["ui"] = "changed"]
  /\ UNCHANGED <<rec, heard, stores, sched, snap, shown, world, clicks>>

ForgetsStores ==
  /\ task["ui"] = "forgetting"
  /\ manual' = NoRoute /\ fav' = NoRoute
  /\ forgotten' = (rec = NoRec /\ (Alone => probe = NoRoute))
  /\ task' = [task EXCEPT !["ui"] = "changed"]
  /\ UNCHANGED <<rec, heard, sched, snap, shown, world, clicks>>
-----------------------------------------------------------------------------
Moves == moves < MaxMoves /\ moves' = moves + 1
Roams == /\ Moves /\ \E r \in Routes \ {at} : at' = r
         /\ UNCHANGED <<known, stores, sched, telling, shown, up, clicks>>
Comes == /\ Moves /\ up' = ~up
         /\ UNCHANGED <<known, stores, sched, telling, shown, at, clicks>>

Network == Hello \/ (\E r \in Routes : Resolved(r)) \/ Roams \/ Comes
Scheduler == Probes \/ Purges \/ BackoffEnds \/ Wakes \/ Answers \/ Unanswered
Telling == (\E t \in Tasks : Builds(t) \/ Emits(t)) \/ Asks \/ Listens
Commands == \/ Rescan \/ MarkFavorite \/ UnmarkFavorite \/ RemoveManual
            \/ Forgets \/ ForgetsStores
            \/ \E r \in Routes : AddByIp(r) \/ PairWithQr(r)
Next == Network \/ Ageing \/ Reaps \/ Scheduler \/ Telling \/ Commands

Spec == Init /\ [][Next]_vars

\* Timers fire, probes end and events are delivered; nobody makes the peer
\* send, roam or come back, nor the user click.
Fairness ==
  /\ WF_vars(Ageing) /\ WF_vars(Reaps)
  /\ WF_vars(Probes) /\ WF_vars(Purges) /\ WF_vars(BackoffEnds) /\ WF_vars(Wakes)
  /\ WF_vars(Answers) /\ WF_vars(Unanswered)
  /\ \A t \in Tasks : WF_vars(Builds(t)) /\ WF_vars(Emits(t))
  /\ WF_vars(ForgetsStores) /\ WF_vars(Asks) /\ WF_vars(Listens)
FairSpec == Spec /\ Fairness
-----------------------------------------------------------------------------
\* Every variable holds values of its kind (PeerRecord, WirePeer).
TypeOK ==
  /\ rec \in Records \cup {NoRec}
  /\ {manual, fav, probe, heard} \subseteq Routes \cup {NoRoute}
  /\ {backing, woken, up, forgotten} \subseteq BOOLEAN
  /\ task \in [Tasks -> {"idle", "forgetting", "changed", "built"}]
  /\ snap \in [Tasks -> Wires] /\ window \in Wires
  /\ boot \in {"asks", "listens", "missed"} \cup Listening
  /\ at \in Routes /\ moves \in 0 .. MaxMoves /\ clicks \in 0 .. MaxClicks

\* "UDP always wins the route": what the last datagram of a record said is its
\* route, whatever mDNS resolved and whatever was being probed meanwhile.
HelloRouteHolds == heard # NoRoute => rec # NoRec /\ rec.route = heard /\ rec.confirmed

\* When nobody has anything left to tell, the window shows what is known, unless
\* the last list came between its first question and its listening.
Quiet == \A t \in Tasks : task[t] = "idle"
QuietWindow == Quiet /\ boot = "listening" => window = Wire

\* The same without that exception: the window that listens is right.
ListeningIsRight == Quiet /\ boot \in Listening => window = Wire

\* A forgotten peer comes back only when mDNS or a datagram sees it again (or
\* it is added by hand): the doc of forget_peer.  It is not so for a peer that is
\* being probed as it is forgotten.
ForgottenStaysGone == forgotten => rec = NoRec

\* A peer the user keeps by hand is found again and again for as long as it runs
\* where the store says: no backoff and no probe is the last one, a datagram or
\* a resolve that never comes is not needed.
KeptPeerIsFound == <>[](up /\ manual = at) => []<>(rec # NoRec)

\* A peer that went away for good is not shown as online for ever (with the
\* exception of QuietWindow).
GoneIsSeen == <>[](~up) => <>[](window.status # "online" \/ boot = "deaf")
Followed == KeptPeerIsFound /\ GoneIsSeen
=============================================================================
