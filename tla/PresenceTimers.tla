--------------------------- MODULE PresenceTimers ---------------------------
(***************************************************************************)
(* The clocks of presence, in seconds: the hello of a peer every five, the *)
(* reaper and the probe scheduler every two, a record that lives fifteen,  *)
(* probes that time out after five and backoffs that double up to 300      *)
(* (discovery.rs, udp_discovery.rs).  One kept peer is watched; any number *)
(* of dead ones may share its passes.  What a record says is in Presence;  *)
(* mDNS and latencies below a second are left out.                         *)
(***************************************************************************)
EXTENDS Integers

CONSTANT Conditions   \* the networks and the peers that are looked at

ASSUME TimersAssumption ==
  Conditions \subseteq [hellos : BOOLEAN, lost : Nat, answers : BOOLEAN, slowest : Nat,
                        dead : BOOLEAN, rescans : BOOLEAN, flips : Nat]

BROADCAST_INTERVAL_SECS == 5
peer_ttl == 3 * BROADCAST_INTERVAL_SECS
reprobe_after == BROADCAST_INTERVAL_SECS + 1
min_backoff == 6
max_backoff == 300
Timeout == 5                        \* of a probe
Period == 2                         \* of the reaper and of the scheduler
Never == peer_ttl + Period + 1      \* the age of a peer that has no record
Idle == -1                          \* no pass is running

VARIABLES on,          \* the conditions, which stay
          up, hello,   \* the peer is running; seconds to its next datagram
          lost,        \* datagrams lost in a row
          age,         \* seconds since last_seen, or Never
          reap,        \* seconds to the next tick of the reaper
          sched, due,  \* and of the scheduler; a tick it has not taken yet
          permit,      \* the permit of probe_wake
          pass,        \* seconds since the running pass began, or Idle
          mine,        \* the probe of the watched peer in this pass
          held,        \* a dead peer is being probed in this pass
          probe_at, backoff,  \* seconds to the next probe; the next backoff
          waited,      \* history: seconds the peer has been up without a record
          asked,       \* history: and since the user asked for a rescan, or Idle
          flips

clocks == <<hello, reap, sched>>
plan == <<probe_at, backoff>>
running == <<pass, mine, held>>
history == <<waited, asked>>
vars == <<on, up, lost, age, due, permit, clocks, plan, running, history, flips>>

Hellos == on.hellos        \* the datagrams of the peer reach this machine,
MaxLost == on.lost         \* but for so many in a row
Answering == on.answers    \* the peer answers probes,
MaxAnswer == on.slowest    \* at the latest after so many seconds
DeadPeers == on.dead       \* kept peers that do not answer share the passes
Rescans == on.rescans      \* the user asks for rescans
MaxFlips == on.flips       \* bound: times the peer starts or ends

Init ==
  /\ on \in Conditions
  /\ up = TRUE /\ hello = 0 /\ lost = 0 /\ age = 0 /\ flips = 0
  /\ reap \in 1 .. Period /\ sched \in 1 .. Period /\ due = FALSE /\ permit = FALSE
  /\ pass = Idle /\ mine = "none" /\ held = FALSE
  /\ probe_at = 0 /\ backoff = min_backoff
  /\ waited = 0 /\ asked = Idle

Seen == age' = 0 /\ waited' = 0 /\ asked' = Idle

\* The peer broadcasts; the datagram is its proof of life, or is lost.
Broadcasts ==
  /\ Hellos /\ up /\ hello = 0
  /\ hello' = BROADCAST_INTERVAL_SECS
  /\ \/ Seen /\ lost' = 0
     \/ lost < MaxLost /\ lost' = lost + 1 /\ UNCHANGED <<age, history>>
  /\ UNCHANGED <<on, up, due, permit, reap, sched, plan, running, flips>>

Reaps ==
  /\ reap = 0 /\ reap' = Period
  /\ age' = IF age < peer_ttl THEN age ELSE Never
  /\ UNCHANGED <<on, up, lost, due, permit, hello, sched, plan, running, history, flips>>
-----------------------------------------------------------------------------
(* A pass of the scheduler. *)

\* Seeded bug: a record is probed again only when it is as old as the reaper's limit.
CandidateLate == IF age = Never THEN TRUE ELSE age > 2 * reprobe_after - 1
Candidate == IF age = Never THEN TRUE ELSE age > reprobe_after

\* What is not a candidate loses its backoff; what is due is probed at once.
Pass(at, wait) ==
  /\ pass = Idle
  /\ backoff' = IF Candidate THEN wait ELSE min_backoff
  /\ probe_at' = IF Candidate THEN at ELSE 0
  /\ mine' = IF ~Candidate \/ at > 0 THEN "none" ELSE IF up THEN "sure" ELSE "doubtful"
  /\ held' \in {FALSE, DeadPeers}
  /\ pass' = IF mine' # "none" \/ held' THEN 0 ELSE Idle
  /\ UNCHANGED <<on, up, lost, age, clocks, history, flips>>

Ticks == due /\ due' = FALSE /\ permit' = permit /\ Pass(probe_at, backoff)
\* Seeded bug: a rescan runs a pass and keeps the backoff.
WakesKeeping == permit /\ permit' = FALSE /\ due' = due /\ Pass(probe_at, backoff)
Wakes == permit /\ permit' = FALSE /\ due' = due /\ Pass(0, min_backoff)

\* Each answer is taken when it comes, not when the pass ends.
Answers ==
  /\ mine # "none" /\ up /\ Answering
  /\ Seen
  /\ mine' = "none" /\ probe_at' = 0 /\ backoff' = min_backoff
  /\ UNCHANGED <<on, up, lost, due, permit, clocks, pass, held, flips>>

\* Seeded bug: the backoff doubles for ever.
BumpUncapped == /\ probe_at' = IF backoff > pass THEN backoff - pass ELSE 0
                /\ backoff' = 2 * backoff

\* The next probe is counted from the beginning of this pass.
Bump == /\ probe_at' = IF backoff > pass THEN backoff - pass ELSE 0
        /\ backoff' = IF 2 * backoff < max_backoff THEN 2 * backoff ELSE max_backoff
Fails ==
  /\ mine # "none" /\ (mine = "doubtful" \/ pass = Timeout)
  /\ mine' = "none" /\ Bump
  /\ UNCHANGED <<on, up, lost, age, due, permit, clocks, pass, held, history, flips>>

DeadFails == /\ held /\ held' = FALSE
             /\ UNCHANGED <<on, up, lost, age, due, permit, clocks, plan, pass, mine, history, flips>>

PassEnds == /\ pass # Idle /\ mine = "none" /\ ~held /\ pass' = Idle
            /\ UNCHANGED <<on, up, lost, age, due, permit, clocks, plan, mine, held, history, flips>>
-----------------------------------------------------------------------------
Rescan ==
  /\ Rescans /\ permit' = TRUE
  /\ asked' = IF asked = Idle /\ up /\ age = Never THEN 0 ELSE asked
  /\ UNCHANGED <<on, up, lost, age, due, clocks, plan, running, waited, flips>>

\* The peer starts, and broadcasts at once, or ends.
Flips ==
  /\ flips < MaxFlips /\ flips' = flips + 1
  /\ up' = ~up /\ hello' = 0 /\ lost' = 0
  /\ mine' = IF mine = "none" THEN mine ELSE "doubtful"
  /\ waited' = 0 /\ asked' = Idle
  /\ UNCHANGED <<on, age, due, permit, reap, sched, plan, pass, held>>

\* A second passes, once everything that is due in this one was done.
Quiet == /\ ~(Hellos /\ up /\ hello = 0) /\ reap > 0
         /\ IF pass = Idle THEN ~due /\ ~permit
            ELSE /\ mine # "none" \/ held
                 /\ pass < Timeout
                 /\ mine = "sure" /\ Answering => pass < MaxAnswer
Less(n) == IF n > 0 THEN n - 1 ELSE 0
Second ==
  /\ Quiet
  /\ hello' = Less(hello) /\ reap' = reap - 1 /\ probe_at' = Less(probe_at)
  /\ sched' = IF sched = 1 THEN Period ELSE sched - 1
  /\ due' = (due \/ sched = 1)
  /\ pass' = IF pass = Idle THEN Idle ELSE pass + 1
  /\ age' = IF age = Never THEN Never ELSE age + 1
  /\ waited' = IF up /\ age = Never THEN waited + 1 ELSE 0
  /\ asked' = IF asked = Idle THEN Idle ELSE asked + 1
  /\ UNCHANGED <<on, up, lost, permit, backoff, mine, held, flips>>

Next == \/ Broadcasts \/ Reaps \/ Ticks \/ Wakes \/ Answers \/ Fails
        \/ DeadFails \/ PassEnds \/ Rescan \/ Flips \/ Second
Spec == Init /\ [][Next]_vars
-----------------------------------------------------------------------------
\* Every clock is where a clock of its kind can be.
TypeOK ==
  /\ on \in Conditions
  /\ {up, due, permit, held} \subseteq BOOLEAN
  /\ hello \in 0 .. BROADCAST_INTERVAL_SECS /\ lost \in 0 .. MaxLost
  /\ age \in 0 .. Never /\ reap \in 0 .. Period /\ sched \in 1 .. Period
  /\ pass \in Idle .. Timeout /\ mine \in {"none", "sure", "doubtful"}
  /\ probe_at \in 0 .. max_backoff /\ backoff \in min_backoff .. max_backoff
  /\ waited \in Nat /\ asked \in Nat \cup {Idle} /\ flips \in 0 .. MaxFlips

\* A peer that runs all along is never dropped by the reaper, while no two hellos
\* in a row are lost or its answers come within three seconds: neither between two
\* hellos nor, when only probes keep it alive, because a pass waited for peers that
\* are dead ("must not hold back a healthy peer's last_seen refresh long enough for
\* the reaper to drop it").
Kept == flips = 0 => age # Never
NoFlap == (Hellos /\ MaxLost <= 1) \/ (Answering /\ MaxAnswer <= 3) => Kept

\* A kept peer that came back and answers before its probe times out is found when
\* the longest backoff is over, after the pass that is running then and its own
\* answer, whatever the dead peers of a pass do; and a rescan does not wait for the
\* backoff: then it is found when the probe that is under way has timed out and
\* the next one was answered.
FoundInTime ==
  Answering /\ MaxAnswer < Timeout =>
    /\ waited <= max_backoff + Timeout + MaxAnswer
    /\ ~DeadPeers => asked <= Timeout + MaxAnswer
=============================================================================
