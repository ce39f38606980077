------------------------ MODULE PresenceTimersProofs ------------------------
(* Why neither a lost hello nor a slow pass flaps a peer, and why a peer that *)
(* came back is found in time: for every set of conditions.                   *)
EXTENDS PresenceTimers, TLAPS

\* The conditions of a behaviour are those it began with.
LEMMA OnStays == [Next]_vars => on' = on
  BY DEF Next, vars, Broadcasts, Reaps, Ticks, Wakes, Pass, Answers, Fails, DeadFails,
     PassEnds, Rescan, Flips, Second

LEMMA ConditionsTyped ==
  on \in Conditions =>
    /\ MaxLost \in Nat /\ MaxAnswer \in Nat /\ MaxFlips \in Nat
    /\ {Hellos, Answering, DeadPeers, Rescans} \subseteq BOOLEAN
  BY TimersAssumption
  DEF MaxLost, MaxAnswer, MaxFlips, Hellos, Answering, DeadPeers, Rescans

-----------------------------------------------------------------------------
(* The types. *)

\* A probe belongs to a pass: without it the next probe could be planned beyond
\* the longest backoff.
InPass == mine # "none" => pass # Idle
Typed == TypeOK /\ InPass

LEMMA InitTyped == Init => Typed
  <1> SUFFICES ASSUME Init PROVE Typed
    OBVIOUS
  <1>1. /\ on \in Conditions /\ lost \in 0 .. MaxLost /\ flips \in 0 .. MaxFlips
        /\ {up, due, permit, held} \subseteq BOOLEAN
    <2>1. on \in Conditions /\ MaxLost \in Nat /\ MaxFlips \in Nat
      BY ConditionsTyped DEF Init
    <2>2. 0 \in 0 .. MaxLost /\ 0 \in 0 .. MaxFlips
      BY <2>1
    <2>3. lost = 0 /\ flips = 0 /\ up = TRUE /\ due = FALSE /\ permit = FALSE /\ held = FALSE
      BY DEF Init
    <2> QED
      BY <2>1, <2>2, <2>3
  <1>2. /\ hello \in 0 .. BROADCAST_INTERVAL_SECS /\ age \in 0 .. Never
        /\ reap \in 0 .. Period /\ sched \in 1 .. Period
    BY DEF Init, Period, Never, peer_ttl, BROADCAST_INTERVAL_SECS
  <1>3. /\ pass \in Idle .. Timeout /\ mine = "none"
        /\ probe_at \in 0 .. max_backoff /\ backoff \in min_backoff .. max_backoff
        /\ waited \in Nat /\ asked \in Nat \cup {Idle}
    BY DEF Init, Idle, Timeout, min_backoff, max_backoff
  <1> QED
    BY <1>1, <1>2, <1>3 DEF Typed, TypeOK, InPass

\* A pass plans the next probe within the longest backoff.
LEMMA PassTyped ==
  ASSUME TypeOK, NEW a \in 0 .. max_backoff, NEW w \in min_backoff .. max_backoff, Pass(a, w)
  PROVE  /\ pass' \in Idle .. Timeout /\ mine' \in {"none", "sure", "doubtful"}
         /\ held' \in BOOLEAN /\ probe_at' \in 0 .. max_backoff
         /\ backoff' \in min_backoff .. max_backoff /\ InPass'
  <1> USE DEF min_backoff, max_backoff, Idle, Timeout
  <1>1. backoff' \in min_backoff .. max_backoff /\ probe_at' \in 0 .. max_backoff
    BY DEF Pass
  <1>2. held' \in BOOLEAN
    BY ConditionsTyped DEF Pass, TypeOK
  <1>3. mine' \in {"none", "sure", "doubtful"}
    BY DEF Pass
  <1>4. pass' \in {0, Idle} /\ InPass'
    BY DEF Pass, InPass
  <1> QED
    BY <1>1, <1>2, <1>3, <1>4

LEMMA StepTyped == Typed /\ [Next]_vars => Typed'
  <1> SUFFICES ASSUME Typed, [Next]_vars PROVE Typed'
    OBVIOUS
  <1> USE DEF Typed, TypeOK, InPass
  <1>c. /\ on' \in Conditions /\ MaxLost' = MaxLost /\ MaxFlips' = MaxFlips
        /\ MaxLost \in Nat /\ MaxFlips \in Nat
    BY OnStays, ConditionsTyped DEF MaxLost, MaxFlips
  <1>1. CASE Broadcasts
    BY <1>1, <1>c DEF Broadcasts, Seen, BROADCAST_INTERVAL_SECS, plan, running, history, Never,
       peer_ttl, Period, Idle
  <1>2. CASE Reaps
    BY <1>2, <1>c DEF Reaps, plan, running, history, Never, peer_ttl, Period,
       BROADCAST_INTERVAL_SECS
  <1>3. CASE Ticks \/ Wakes
    <2>2. /\ pass' \in Idle .. Timeout /\ mine' \in {"none", "sure", "doubtful"}
          /\ held' \in BOOLEAN /\ probe_at' \in 0 .. max_backoff
          /\ backoff' \in min_backoff .. max_backoff /\ InPass'
      <3>1. CASE Ticks
        BY <1>3, <3>1, PassTyped DEF Ticks
      <3>2. CASE Wakes
        <4>1. 0 \in 0 .. max_backoff /\ min_backoff \in min_backoff .. max_backoff
          BY DEF min_backoff, max_backoff
        <4> QED
          BY <3>2, <4>1, PassTyped DEF Wakes
      <3> QED
        BY <1>3, <3>1, <3>2
    <2>3. UNCHANGED <<on, up, lost, age, clocks, history, flips>>
      BY <1>3 DEF Ticks, Wakes, Pass
    <2>4. {due', permit'} \subseteq BOOLEAN
      BY <1>3 DEF Ticks, Wakes
    <2> QED
      BY <2>2, <2>3, <2>4, <1>c DEF clocks, history
  <1>4. CASE Answers
    BY <1>4, <1>c DEF Answers, Seen, clocks, min_backoff, max_backoff, Never, peer_ttl, Period,
       BROADCAST_INTERVAL_SECS, Idle
  <1>5. CASE Fails
    <2>1. pass \in 0 .. Timeout
      BY <1>5 DEF Fails, Idle, Timeout
    <2>2. probe_at' \in 0 .. max_backoff /\ backoff' \in min_backoff .. max_backoff
      BY <1>5, <2>1 DEF Fails, Bump, min_backoff, max_backoff, Timeout
    <2> QED
      BY <1>5, <2>2, <1>c DEF Fails, clocks, history
  <1>6. CASE DeadFails \/ PassEnds
    <2>1. pass' \in Idle .. Timeout /\ (mine # "none" => pass' = pass)
      BY <1>6 DEF DeadFails, PassEnds, Idle, Timeout
    <2>2. UNCHANGED <<on, up, lost, age, due, permit, clocks, plan, mine, history, flips>>
      BY <1>6 DEF DeadFails, PassEnds
    <2>3. held' \in BOOLEAN
      BY <1>6 DEF DeadFails, PassEnds
    <2> QED
      BY <2>1, <2>2, <2>3, <1>c DEF clocks, history, plan
  <1>7. CASE Rescan
    BY <1>7, <1>c DEF Rescan, clocks, plan, running, Idle
  <1>8. CASE Flips
    BY <1>8, <1>c DEF Flips, plan, Idle, BROADCAST_INTERVAL_SECS
  <1>9. CASE Second
    <2>1. /\ hello' \in 0 .. BROADCAST_INTERVAL_SECS /\ reap' \in 0 .. Period
          /\ sched' \in 1 .. Period /\ probe_at' \in 0 .. max_backoff /\ due' \in BOOLEAN
      BY <1>9 DEF Second, Quiet, Less, BROADCAST_INTERVAL_SECS, Period, max_backoff
    <2>2. pass' \in Idle .. Timeout
      BY <1>9 DEF Second, Quiet, Idle, Timeout
    <2>3. age' \in 0 .. Never
      BY <1>9 DEF Second, Never, peer_ttl, Period, BROADCAST_INTERVAL_SECS
    <2>4. waited' \in Nat /\ asked' \in Nat \cup {Idle}
      BY <1>9 DEF Second, Idle
    <2> QED
      BY <1>9, <2>1, <2>2, <2>3, <2>4, <1>c DEF Second
  <1>10. CASE UNCHANGED vars
    BY <1>10, <1>c DEF vars, clocks, plan, running, history
  <1> QED
    BY <1>1, <1>2, <1>3, <1>4, <1>5, <1>6, <1>7, <1>8, <1>9, <1>10 DEF Next

\* Every clock stays within its bounds, whatever the conditions.
THEOREM TimersTyped == Spec => []TypeOK
  <1>1. Init => Typed
    BY InitTyped
  <1>2. Typed /\ [Next]_vars => Typed'
    BY StepTyped
  <1>3. Typed => TypeOK
    BY DEF Typed
  <1> QED
    BY <1>1, <1>2, <1>3, PTL DEF Spec

-----------------------------------------------------------------------------
(* A peer that its hellos keep. *)

\* Until the peer ends for the first time, its record is younger than the
\* hellos that were lost and the one that is coming allow.
Steady == Hellos /\ MaxLost <= 1
Paced ==
  /\ on \in Conditions /\ hello \in 0 .. 5 /\ lost \in 0 .. MaxLost
  /\ reap \in Int /\ flips \in Nat
  /\ Steady /\ flips = 0 => up /\ age \in Nat /\ age + hello <= 5 * (lost + 1)

LEMMA InitPaced == Init => Paced
  BY ConditionsTyped DEF Init, Paced

\* With at most one datagram lost in a row no step, whatever the probes and the
\* dead peers do, makes a record older than that.
LEMMA StepPaced == Paced /\ [Next]_vars => Paced'
  <1> SUFFICES ASSUME Paced, [Next]_vars PROVE Paced'
    OBVIOUS
  <1> USE DEF Paced
  <1>m. MaxLost \in Nat
    BY ConditionsTyped
  <1>on. on' = on
    BY OnStays
  <1>same. MaxLost' = MaxLost /\ Steady' = Steady /\ on' \in Conditions
    BY <1>on DEF MaxLost, Hellos, Steady
  <1>1. CASE Broadcasts
    BY <1>1, <1>m, <1>same DEF Broadcasts, Seen, BROADCAST_INTERVAL_SECS
  <1>2. CASE Reaps
    <2>1. Steady /\ flips = 0 => age < 15
      BY <1>m DEF Steady
    <2> QED
      BY <1>2, <2>1, <1>same DEF Reaps, peer_ttl, BROADCAST_INTERVAL_SECS, Period
  <1>3. CASE Ticks \/ Wakes
    BY <1>3, <1>same DEF Ticks, Wakes, Pass, clocks
  <1>4. CASE Answers
    BY <1>4, <1>same DEF Answers, Seen, clocks
  <1>5. CASE Fails \/ DeadFails \/ PassEnds
    BY <1>5, <1>same DEF Fails, DeadFails, PassEnds, clocks
  <1>6. CASE Rescan
    BY <1>6, <1>same DEF Rescan, clocks
  <1>7. CASE Flips
    BY <1>7, <1>m, <1>same DEF Flips
  <1>8. CASE Second
    <2>1. Steady /\ flips = 0 => hello > 0 /\ age # Never
      BY <1>8, <1>m DEF Second, Quiet, Steady, Never, peer_ttl, BROADCAST_INTERVAL_SECS, Period
    <2> QED
      BY <1>8, <2>1, <1>m, <1>same DEF Second, Quiet, Less
  <1>9. CASE UNCHANGED vars
    BY <1>9, <1>same DEF vars, clocks
  <1> QED
    BY <1>1, <1>2, <1>3, <1>4, <1>5, <1>6, <1>7, <1>8, <1>9 DEF Next

\* A peer whose hellos arrive, at most one lost between two, is never dropped:
\* for any speed of its answers, dead peers and rescans.
LEMMA HellosKeep == Spec => [](Steady => Kept)
  <1>1. Init => Paced
    BY InitPaced
  <1>2. Paced /\ [Next]_vars => Paced'
    BY StepPaced
  <1>3. Paced => (Steady => Kept)
    BY ConditionsTyped DEF Paced, Steady, Kept, Never, peer_ttl, BROADCAST_INTERVAL_SECS, Period
  <1> QED
    BY <1>1, <1>2, <1>3, PTL DEF Spec

-----------------------------------------------------------------------------
(* A peer that only its answers keep. *)

\* The passes of the scheduler, two seconds apart or as long as a dead peer holds
\* one, catch the record in time: between passes it is at most eleven seconds old,
\* and younger the longer the next tick takes; a pass that did not probe it began
\* when it was fresh; and one that does has its answer after three seconds.
Reachable == Answering /\ MaxAnswer <= 3
Caught ==
  Reachable /\ flips = 0 =>
    /\ up /\ mine # "doubtful" /\ probe_at = 0 /\ backoff = min_backoff
    /\ pass = Idle => age <= 11 /\ (~due => age + sched <= 8)
    /\ pass # Idle => (mine = "none" => age <= 6 + pass) /\ (~due => sched + pass <= 2)
    /\ mine = "sure" => age <= 11 + pass /\ pass <= 3

LEMMA InitCaught == Init => Caught
  BY DEF Init, Caught, Idle, Period

LEMMA StepCaught == Typed /\ Caught /\ [Next]_vars => Caught'
  <1> SUFFICES ASSUME Typed, Caught, [Next]_vars, Reachable', flips' = 0 PROVE Caught'
    BY DEF Caught
  <1> USE DEF Caught
  <1>on. on' = on
    BY OnStays
  <1>f. flips = 0
    <2>1. flips \in Nat
      BY ConditionsTyped DEF Typed, TypeOK
    <2>2. flips' = flips \/ flips' = flips + 1
      BY DEF Next, vars, Broadcasts, Reaps, Ticks, Wakes, Pass, Answers, Fails, DeadFails,
         PassEnds, Rescan, Flips, Second
    <2> QED
      BY <2>1, <2>2
  <1>a. Answering /\ MaxAnswer <= 3 /\ MaxAnswer \in Nat
    BY <1>on, ConditionsTyped DEF Reachable, Answering, MaxAnswer, Typed, TypeOK
  <1>s. /\ up /\ mine \in {"none", "sure"} /\ probe_at = 0 /\ backoff = min_backoff
        /\ pass = Idle => age <= 11 /\ (~due => age + sched <= 8)
        /\ pass # Idle => (mine = "none" => age <= 6 + pass) /\ (~due => sched + pass <= 2)
        /\ mine = "sure" => age <= 11 + pass /\ pass <= 3
    BY <1>a, <1>f DEF Reachable, Typed, TypeOK
  <1>t. /\ age \in 0 .. 18 /\ sched \in 1 .. 2 /\ pass \in -1 .. 5 /\ due \in BOOLEAN
        /\ mine = "sure" => pass # -1
    BY DEF Typed, TypeOK, InPass, Never, peer_ttl, BROADCAST_INTERVAL_SECS, Period, Timeout, Idle
  <1> HIDE DEF Caught
  <1> SUFFICES
        /\ up' /\ mine' # "doubtful" /\ probe_at' = 0 /\ backoff' = min_backoff
        /\ pass' = -1 => age' <= 11 /\ (~due' => age' + sched' <= 8)
        /\ pass' # -1 => (mine' = "none" => age' <= 6 + pass') /\ (~due' => sched' + pass' <= 2)
        /\ mine' = "sure" => age' <= 11 + pass' /\ pass' <= 3
    BY DEF Caught, Idle
  <1> USE DEF Idle
  <1>1. CASE Broadcasts
    BY <1>1, <1>s, <1>t DEF Broadcasts, Seen, plan, running
  <1>2. CASE Reaps
    <2>1. age < 15
      BY <1>s, <1>t
    <2>2. UNCHANGED <<up, age, sched, due, pass, mine, probe_at, backoff>>
      BY <1>2, <2>1 DEF Reaps, plan, running, peer_ttl, BROADCAST_INTERVAL_SECS
    <2> QED
      BY <2>2, <1>s
  <1>3. CASE Ticks \/ Wakes
    <2>1. Pass(0, min_backoff)
      BY <1>3, <1>s DEF Ticks, Wakes
    <2>2. /\ pass = -1 /\ probe_at' = 0 /\ backoff' = min_backoff
          /\ UNCHANGED <<up, age, sched>>
      BY <2>1 DEF Pass, clocks
    <2>3. mine' = IF age > 6 THEN "sure" ELSE "none"
      BY <2>1, <1>s, <1>t DEF Pass, Candidate, Never, reprobe_after, peer_ttl,
         BROADCAST_INTERVAL_SECS, Period
    <2>4. pass' \in {0, -1} /\ (mine' = "sure" => pass' = 0)
      BY <2>1 DEF Pass
    <2>5. mine' = "none" => age' <= 6 /\ age' + sched' <= 8
      BY <2>2, <2>3, <1>t
    <2>6. mine' = "sure" => age' <= 11
      BY <2>2, <2>3, <1>s
    <2>7. age' \in 0 .. 18 /\ sched' \in 1 .. 2 /\ mine' \in {"none", "sure"}
      BY <2>2, <2>3, <1>t
    <2>8. up' /\ mine' # "doubtful" /\ probe_at' = 0 /\ backoff' = min_backoff
      BY <2>2, <2>7, <1>s
    <2>n. age' <= 6 => age' <= 11
      BY <2>7
    <2>9. pass' = -1 => age' <= 11 /\ (~due' => age' + sched' <= 8)
      <3>1. pass' = -1 => mine' = "none"
        BY <2>4, <2>7
      <3> QED
        BY <2>5, <2>n, <3>1
    <2>10. ASSUME pass' = 0
           PROVE  /\ mine' = "none" => age' <= 6 + pass'
                  /\ sched' + pass' <= 2
                  /\ mine' = "sure" => age' <= 11 + pass' /\ pass' <= 3
      <3>1. 6 + pass' = 6 /\ 11 + pass' = 11 /\ pass' <= 3
        BY <2>10
      <3>2. sched' + pass' <= 2
        BY <2>2, <2>10, <1>t
      <3> QED
        BY <2>5, <2>6, <3>1, <3>2
    <2>11. mine' = "sure" => pass' = 0
      BY <2>4
    <2>12. pass' # -1 => pass' = 0
      BY <2>4
    <2> QED
      BY <2>8, <2>9, <2>10, <2>11, <2>12
  <1>4. CASE Answers
    BY <1>4, <1>s, <1>t DEF Answers, Seen, clocks
  <1>5. CASE Fails
    BY <1>5, <1>s, <1>t DEF Fails, Timeout
  <1>6. CASE DeadFails
    BY <1>6, <1>s, <1>t DEF DeadFails, clocks, plan
  <1>7. CASE PassEnds
    BY <1>7, <1>s, <1>t DEF PassEnds, clocks, plan
  <1>8. CASE Rescan
    BY <1>8, <1>s, <1>t DEF Rescan, clocks, plan, running
  <1>9. CASE Flips
    BY <1>9, <1>f DEF Flips, Typed, TypeOK
  <1>10. CASE Second
    <2>1. pass = -1 => ~due
      BY <1>10 DEF Second, Quiet
    <2>2. mine = "sure" => pass < MaxAnswer
      BY <1>10, <1>a, <1>t DEF Second, Quiet
    <2>3. /\ age' = age + 1 /\ probe_at' = 0 /\ UNCHANGED <<up, mine, backoff>>
          /\ pass' = (IF pass = -1 THEN -1 ELSE pass + 1)
          /\ sched' = (IF sched = 1 THEN 2 ELSE sched - 1) /\ due' = (due \/ sched = 1)
      <3>1. age # Never
        BY <1>s, <1>t DEF Never, peer_ttl, BROADCAST_INTERVAL_SECS, Period
      <3> QED
        BY <1>10, <3>1, <1>s DEF Second, Less, Period
    <2>4. up' /\ mine' # "doubtful" /\ probe_at' = 0 /\ backoff' = min_backoff
      BY <2>3, <1>s
    <2>5. sched' \in 1 .. 2 /\ (~due' => ~due /\ sched = 2 /\ sched' = 1)
      <3>1. sched = 1 \/ sched = 2
        BY <1>t
      <3>2. (sched = 1 => sched' = 2) /\ (sched = 2 => sched' = 1)
        BY <2>3
      <3>3. ~due' => ~due /\ sched # 1
        BY <2>3, Zenon
      <3> QED
        BY <3>1, <3>2, <3>3
    <2>6. pass' = -1 => age' <= 11 /\ (~due' => age' + sched' <= 8)
      <3>1. pass' = -1 => pass = -1
        BY <2>3, <1>t
      <3>2. ASSUME pass = -1 PROVE age' <= 8 /\ (~due' => age' + sched' <= 8)
        BY <3>2, <2>1, <2>3, <2>5, <1>s, <1>t
      <3> QED
        BY <3>1, <3>2, <2>3, <1>t
    <2>7. pass' # -1 => (mine' = "none" => age' <= 6 + pass') /\ (~due' => sched' + pass' <= 2)
      <3>1. pass' # -1 => pass # -1 /\ pass' = pass + 1
        BY <2>3, <1>t
      <3> QED
        BY <3>1, <2>3, <2>5, <1>s, <1>t
    <2>8. mine' = "sure" => age' <= 11 + pass' /\ pass' <= 3
      <3>1. mine' = "sure" => mine = "sure" /\ pass' = pass + 1
        <4>1. mine' = "sure" => mine = "sure"
          BY <2>3
        <4>2. mine = "sure" => pass # -1
          BY <1>t
        <4> QED
          BY <4>1, <4>2, <2>3
      <3> QED
        BY <3>1, <2>2, <2>3, <1>a, <1>s, <1>t
    <2> QED
      BY <2>4, <2>6, <2>7, <2>8
  <1>11. CASE UNCHANGED vars
    BY <1>11, <1>s, <1>t DEF vars, clocks, plan, running
  <1> QED
    BY <1>1, <1>2, <1>3, <1>4, <1>5, <1>6, <1>7, <1>8, <1>9, <1>10, <1>11 DEF Next

\* A peer that runs is not dropped while at most one hello in a row is lost, or
\* while it answers within three seconds: for all conditions, however many dead
\* peers hold the passes and whatever the user does.
THEOREM PeersAreKept == Spec => []NoFlap
  <1>1. Init => Typed /\ Caught
    BY InitTyped, InitCaught
  <1>2. Typed /\ Caught /\ [Next]_vars => Typed' /\ Caught'
    BY StepTyped, StepCaught
  <1>3. Typed /\ Caught => (Reachable => Kept)
    BY DEF Typed, TypeOK, InPass, Caught, Kept, Never, peer_ttl, BROADCAST_INTERVAL_SECS, Period,
       Timeout, Idle
  <1>4. (Steady => Kept) /\ (Reachable => Kept) => NoFlap
    BY DEF NoFlap, Steady, Reachable
  <1> QED
    BY <1>1, <1>2, <1>3, <1>4, HellosKeep, PTL DEF Spec
-----------------------------------------------------------------------------
(* A peer that came back. *)

\* How long it may have waited says where the scheduler is: with a probe still
\* planned, no longer than the longest backoff leaves; afterwards as much longer as
\* the tick or the pass that is running takes; and once it is being probed, as much
\* as this probe takes.  A probe that may have begun before it came back (doubtful)
\* fails no later than its wait has lasted.
InTime == Answering /\ MaxAnswer < Timeout
Waits ==
  InTime =>
    /\ waited = 0 \/ (up /\ age = Never)
    /\ mine = "sure" => up /\ waited <= 305 + pass /\ pass <= MaxAnswer
    /\ mine = "doubtful" => waited <= pass
    /\ mine = "none" => /\ probe_at = 0 \/ waited + probe_at <= 300
                        /\ pass # Idle => waited <= 300 + pass
                        /\ pass = Idle => waited <= 305 /\ (due \/ waited + sched <= 302)
    /\ pass # Idle => due \/ sched + pass <= 2

LEMMA InitWaits == Init => Waits
  <1> SUFFICES ASSUME Init PROVE Waits
    OBVIOUS
  <1>1. waited = 0 /\ mine = "none" /\ probe_at = 0 /\ pass = Idle /\ sched \in 1 .. 2
    BY DEF Init, Period
  <1> QED
    BY <1>1 DEF Waits

LEMMA StepWaits == Typed /\ Waits /\ [Next]_vars => Waits'
  <1> SUFFICES ASSUME Typed, Waits, [Next]_vars, InTime' PROVE Waits'
    BY DEF Waits
  <1>on. MaxAnswer' = MaxAnswer
    BY OnStays DEF MaxAnswer
  <1>a. InTime /\ Answering /\ MaxAnswer \in 0 .. 4
    BY OnStays, ConditionsTyped DEF InTime, Answering, MaxAnswer, Typed, TypeOK, Timeout
  <1>s. /\ waited = 0 \/ (up /\ age = Never)
        /\ mine = "sure" => up /\ waited <= 305 + pass /\ pass <= MaxAnswer
        /\ mine = "doubtful" => waited <= pass
        /\ mine = "none" => /\ probe_at = 0 \/ waited + probe_at <= 300
                            /\ pass # -1 => waited <= 300 + pass
                            /\ pass = -1 => waited <= 305 /\ (due \/ waited + sched <= 302)
        /\ pass # -1 => due \/ sched + pass <= 2
    BY <1>a DEF Waits, Idle
  <1>t. /\ waited \in Nat /\ sched \in 1 .. 2 /\ pass \in -1 .. 5 /\ due \in BOOLEAN
        /\ probe_at \in 0 .. 300 /\ backoff \in 6 .. 300
        /\ mine \in {"none", "sure", "doubtful"} /\ (mine # "none" => pass # -1)
    BY DEF Typed, TypeOK, InPass, Period, Timeout, Idle, min_backoff, max_backoff
  <1> USE DEF Idle
  <1>same. ASSUME UNCHANGED <<up, age, waited, mine, pass, probe_at, due, sched>> PROVE Waits'
    BY <1>same, <1>s, <1>on DEF Waits
  <1>0. ASSUME waited' = 0, UNCHANGED <<mine, pass, probe_at, due, sched>>, mine = "sure" => up'
        PROVE  Waits'
    BY <1>0, <1>s, <1>t, <1>on DEF Waits
  <1>w. ASSUME /\ waited' = 0 \/ (up' /\ age' = Never)
               /\ mine' = "sure" => up' /\ waited' <= 305 + pass' /\ pass' <= MaxAnswer
               /\ mine' = "doubtful" => waited' <= pass'
               /\ mine' = "none" =>
                    /\ probe_at' = 0 \/ waited' + probe_at' <= 300
                    /\ pass' # -1 => waited' <= 300 + pass'
                    /\ pass' = -1 => waited' <= 305 /\ (due' \/ waited' + sched' <= 302)
               /\ pass' # -1 => due' \/ sched' + pass' <= 2
        PROVE  Waits'
    BY <1>w, <1>on DEF Waits
  <1>1. CASE Broadcasts
    <2>1. waited' = 0 \/ UNCHANGED <<age, waited>>
      BY <1>1 DEF Broadcasts, Seen, history
    <2>2. UNCHANGED <<up, mine, pass, probe_at, due, sched>>
      BY <1>1 DEF Broadcasts, plan, running
    <2> QED
      BY <2>1, <2>2, <1>0, <1>same, <1>s
  <1>2. CASE Reaps
    <2>1. UNCHANGED <<up, waited, mine, pass, probe_at, due, sched>> /\ age' \in {age, Never}
      BY <1>2 DEF Reaps, plan, running, history
    <2> QED
      BY <2>1, <1>w, <1>s
  <1>3. CASE Ticks \/ Wakes
    <2>1. \/ Pass(probe_at, backoff) /\ UNCHANGED permit
          \/ Pass(0, min_backoff) /\ UNCHANGED due
      BY <1>3 DEF Ticks, Wakes
    <2>2. PICK a \in {0, probe_at}, n \in {min_backoff, backoff} : Pass(a, n)
      BY <2>1
    <2>3. /\ pass = -1 /\ mine = "none" /\ waited <= 305 /\ UNCHANGED <<up, age, waited, sched>>
      BY <2>2, <1>s, <1>t DEF Pass, clocks, history
    <2>4. /\ mine' = IF ~Candidate \/ a > 0 THEN "none" ELSE IF up THEN "sure" ELSE "doubtful"
          /\ probe_at' = IF Candidate THEN a ELSE 0
          /\ pass' \in {0, -1} /\ (mine' # "none" => pass' = 0)
      BY <2>2 DEF Pass
    <2>5. ~Candidate => waited = 0
      BY <1>s DEF Candidate
    <2>6. sched + 0 <= 2 /\ waited + 0 = waited /\ 0 <= MaxAnswer
      BY <1>t, <1>a
    <2>7. CASE mine' = "sure"
      <3>1. up /\ pass' = 0
        BY <2>4, <2>7
      <3> QED
        BY <2>3, <2>6, <2>7, <3>1, <1>w, <1>s, <1>t
    <2>8. CASE mine' = "doubtful"
      <3>1. ~up /\ pass' = 0
        BY <2>4, <2>8
      <3>2. waited = 0
        BY <3>1, <1>s
      <3> QED
        BY <2>3, <2>6, <2>8, <3>1, <3>2, <1>w
    <2>9. CASE mine' = "none"
      <3>1. \/ waited = 0 /\ probe_at' = 0
            \/ probe_at' = probe_at /\ probe_at > 0
        BY <2>4, <2>5, <2>9, <1>t
      <3>2. waited <= 300 /\ waited + sched <= 302 /\ (probe_at' = 0 \/ waited + probe_at' <= 300)
        <4>1. CASE waited = 0 /\ probe_at' = 0
          BY <4>1, <1>t
        <4>2. CASE probe_at' = probe_at /\ probe_at > 0
          BY <4>2, <2>3, <1>s, <1>t
        <4> QED
          BY <3>1, <4>1, <4>2
      <3>3. pass' = 0 => waited <= 300 + pass' /\ sched + pass' <= 2
        BY <3>2, <2>6, <1>t
      <3> QED
        BY <2>3, <2>4, <2>9, <3>2, <3>3, <1>w, <1>s
    <2> QED
      BY <2>4, <2>7, <2>8, <2>9
  <1>4. CASE Answers
    <2>1. /\ waited' = 0 /\ mine' = "none" /\ probe_at' = 0 /\ pass \in 0 .. 5
          /\ UNCHANGED <<pass, due, sched>>
      BY <1>4, <1>t DEF Answers, Seen, clocks
    <2> QED
      BY <2>1, <1>w, <1>s
  <1>5. CASE Fails
    <2>1. /\ mine = "doubtful" /\ mine' = "none" /\ pass \in 0 .. 5 /\ waited <= pass
          /\ UNCHANGED <<up, age, waited, pass, due, sched>>
      BY <1>5, <1>a, <1>s, <1>t DEF Fails, Timeout, clocks, history
    <2>2. probe_at' = IF backoff > pass THEN backoff - pass ELSE 0
      BY <1>5 DEF Fails, Bump
    <2>3. probe_at' = 0 \/ waited + probe_at' <= 300
      BY <2>1, <2>2, <1>t
    <2>4. waited <= 300 + pass
      BY <2>1, <1>t
    <2> QED
      BY <2>1, <2>3, <2>4, <1>w, <1>s
  <1>6. CASE DeadFails
    BY <1>6, <1>same DEF DeadFails, clocks, plan, history
  <1>7. CASE PassEnds
    <2>1. /\ mine = "none" /\ pass \in 0 .. 5 /\ pass' = -1
          /\ UNCHANGED <<up, age, waited, mine, probe_at, due, sched>>
      BY <1>7, <1>t DEF PassEnds, clocks, plan, history
    <2>2. waited <= 305 /\ (due \/ waited + sched <= 302)
      BY <2>1, <1>s, <1>t
    <2> QED
      BY <2>1, <2>2, <1>w, <1>s
  <1>8. CASE Rescan
    BY <1>8, <1>same DEF Rescan, clocks, plan, running
  <1>9. CASE Flips
    <2>1. /\ waited' = 0 /\ mine' = (IF mine = "none" THEN "none" ELSE "doubtful")
          /\ UNCHANGED <<pass, probe_at, due, sched>>
      BY <1>9 DEF Flips, plan
    <2>2. mine # "none" => pass >= 0
      BY <1>t
    <2> QED
      BY <2>1, <2>2, <1>w, <1>s, <1>t
  <1>10. CASE Second
    <2>1. /\ pass = -1 => ~due
          /\ pass # -1 => pass < 5
          /\ mine = "sure" => pass < MaxAnswer
      BY <1>10, <1>a, <1>t DEF Second, Quiet, Timeout
    <2>2. /\ UNCHANGED <<up, mine>> /\ due' = (due \/ sched = 1)
          /\ waited' = IF up /\ age = Never THEN waited + 1 ELSE 0
          /\ age' = IF age = Never THEN Never ELSE age + 1
          /\ pass' = IF pass = -1 THEN -1 ELSE pass + 1
          /\ sched' = IF sched = 1 THEN 2 ELSE sched - 1
          /\ probe_at' = IF probe_at > 0 THEN probe_at - 1 ELSE 0
      BY <1>10 DEF Second, Less, Period
    <2>3. waited' = 0 \/ (waited' = waited + 1 /\ up' /\ age' = Never)
      BY <2>2
    <2>4. mine' = "sure" => up' /\ waited' <= 305 + pass' /\ pass' <= MaxAnswer
      <3> SUFFICES ASSUME mine = "sure" PROVE up /\ waited' <= 305 + pass' /\ pass' <= MaxAnswer
        BY <2>2
      <3>1. pass' = pass + 1 /\ pass \in 0 .. 5
        BY <2>2, <1>t
      <3> QED
        BY <3>1, <2>1, <2>3, <1>a, <1>s, <1>t
    <2>5. mine' = "doubtful" => waited' <= pass'
      <3> SUFFICES ASSUME mine = "doubtful" PROVE waited' <= pass'
        BY <2>2
      <3>1. pass' = pass + 1 /\ pass \in 0 .. 5
        BY <2>2, <1>t
      <3> QED
        BY <3>1, <2>3, <1>s, <1>t
    <2>6. \/ ~due /\ sched = 2 /\ sched' = 1
          \/ due'
      <3>1. sched = 1 \/ sched = 2
        BY <1>t
      <3>2. sched = 2 => sched' = 1
        BY <2>2
      <3>3. due \/ sched = 1 => due'
        BY <2>2, Zenon
      <3> QED
        BY <3>1, <3>2, <3>3
    <2>7. mine' = "none" => /\ probe_at' = 0 \/ waited' + probe_at' <= 300
                            /\ pass' # -1 => waited' <= 300 + pass'
                            /\ pass' = -1 => waited' <= 305 /\ (due' \/ waited' + sched' <= 302)
      <3> SUFFICES ASSUME mine = "none"
                   PROVE  /\ probe_at' = 0 \/ waited' + probe_at' <= 300
                          /\ pass' # -1 => waited' <= 300 + pass'
                          /\ pass' = -1 => waited' <= 305 /\ (due' \/ waited' + sched' <= 302)
        BY <2>2
      <3>1. probe_at' = 0 \/ waited' + probe_at' <= 300
        <4>1. probe_at' = 0 \/ (probe_at > 0 /\ probe_at' = probe_at - 1)
          BY <2>2
        <4> QED
          BY <4>1, <2>3, <1>s, <1>t
      <3>2. pass' # -1 => waited' <= 300 + pass'
        <4>1. pass' # -1 => pass \in 0 .. 5 /\ pass' = pass + 1
          BY <2>2, <1>t
        <4> QED
          BY <4>1, <2>3, <1>s, <1>t
      <3>3. pass' = -1 => waited' <= 305 /\ (due' \/ waited' + sched' <= 302)
        <4> SUFFICES ASSUME pass' = -1 PROVE waited' <= 305 /\ (due' \/ waited' + sched' <= 302)
          OBVIOUS
        <4>1. pass = -1
          BY <2>2, <1>t
        <4>2. waited + sched <= 302
          BY <4>1, <2>1, <1>s
        <4>3. waited' <= 305
          BY <4>2, <2>3, <1>t
        <4>4. sched = 2 /\ sched' = 1 => waited' + sched' <= 302
          BY <4>2, <2>3, <1>t
        <4> QED
          BY <4>3, <4>4, <2>6
      <3> QED
        BY <3>1, <3>2, <3>3
    <2>8. pass' # -1 => due' \/ sched' + pass' <= 2
      <3> SUFFICES ASSUME pass' # -1, ~due, sched = 2, sched' = 1 PROVE sched' + pass' <= 2
        BY <2>6
      <3>1. pass # -1 /\ pass' = pass + 1
        BY <2>2
      <3>2. pass = 0
        BY <3>1, <1>s, <1>t
      <3> QED
        BY <3>1, <3>2
    <2>9. waited' = 0 \/ (up' /\ age' = Never)
      BY <2>3
    <2> QED
      BY <2>4, <2>5, <2>7, <2>8, <2>9, <1>w
  <1>11. CASE UNCHANGED vars
    BY <1>11, <1>same DEF vars, clocks, plan, running, history
  <1> QED
    BY <1>1, <1>2, <1>3, <1>4, <1>5, <1>6, <1>7, <1>8, <1>9, <1>10, <1>11 DEF Next

\* After a rescan, with no dead peer in the passes: the permit stays until the
\* probe that is under way has failed, and the next one is of a peer that runs.
Asks ==
  InTime /\ ~DeadPeers =>
    /\ ~held
    /\ asked # Idle =>
         /\ up /\ age = Never
         /\ \/ mine = "sure" /\ asked <= 5 + pass
            \/ mine = "doubtful" /\ permit /\ asked <= pass
            \/ mine = "none" /\ permit /\ asked <= 5

LEMMA StepAsks == Typed /\ Waits /\ Asks /\ [Next]_vars => Asks'
  <1> SUFFICES ASSUME Typed, Waits, Asks, [Next]_vars, InTime', ~DeadPeers' PROVE Asks'
    BY DEF Asks
  <1> USE DEF Idle
  <1>a. /\ InTime /\ ~DeadPeers /\ MaxAnswer \in 0 .. 4
    BY OnStays, ConditionsTyped DEF InTime, Answering, MaxAnswer, DeadPeers, Typed, TypeOK, Timeout
  <1>s. /\ ~held
        /\ asked # -1 =>
             /\ up /\ age = Never
             /\ \/ mine = "sure" /\ asked <= 5 + pass
                \/ mine = "doubtful" /\ permit /\ asked <= pass
                \/ mine = "none" /\ permit /\ asked <= 5
    BY <1>a DEF Asks
  <1>t. /\ asked \in Nat \cup {-1} /\ pass \in -1 .. 5
        /\ mine \in {"none", "sure", "doubtful"} /\ (mine # "none" => pass # -1)
    BY DEF Typed, TypeOK, InPass, Timeout
  <1>same. ASSUME UNCHANGED <<up, age, asked, mine, pass, permit, held>> PROVE Asks'
    BY <1>same, <1>s DEF Asks
  <1>0. ASSUME asked' = -1, ~held' PROVE Asks'
    BY <1>0 DEF Asks
  <1>1. CASE Broadcasts
    <2>1. asked' = -1 \/ UNCHANGED <<age, asked>>
      BY <1>1 DEF Broadcasts, Seen, history
    <2>2. UNCHANGED <<up, mine, pass, permit, held>>
      BY <1>1 DEF Broadcasts, running
    <2> QED
      BY <2>1, <2>2, <1>0, <1>same, <1>s
  <1>2. CASE Reaps
    <2>1. UNCHANGED <<up, asked, mine, pass, permit, held>>
      BY <1>2 DEF Reaps, running, history
    <2>2. age = Never => age' = Never
      BY <1>2 DEF Reaps, Never, peer_ttl, BROADCAST_INTERVAL_SECS, Period
    <2> QED
      BY <2>1, <2>2, <1>s DEF Asks
  <1>3. CASE Ticks \/ Wakes
    <2>1. PICK at, n : /\ Pass(at, n)
                       /\ UNCHANGED permit \/ at = 0
      BY <1>3 DEF Ticks, Wakes
    <2>f. ~held'
      <3>1. held' = FALSE \/ held' = DeadPeers
        BY <2>1 DEF Pass
      <3> QED
        BY <3>1, <1>a
    <2>2. /\ pass = -1 /\ UNCHANGED <<up, age, asked>>
          /\ mine' = IF ~Candidate \/ at > 0 THEN "none" ELSE IF up THEN "sure" ELSE "doubtful"
          /\ mine' # "none" => pass' = 0
      BY <2>1 DEF Pass, history
    <2>3. ASSUME asked # -1 PROVE Asks'
      <3>1. up /\ age = Never /\ permit /\ asked <= 5 /\ Candidate
        BY <2>2, <2>3, <1>s, <1>t DEF Candidate
      <3>2. CASE mine' = "none"
        <4>1. ~(0 > 0)
          OBVIOUS
        <4>2. permit' = permit
          BY <2>1, <2>2, <3>1, <3>2, <4>1
        <4> QED
          BY <2>f, <2>2, <3>1, <3>2, <4>2 DEF Asks
      <3>3. CASE mine' # "none"
        <4>1. mine' = "sure" /\ pass' = 0
          BY <2>2, <3>1, <3>3
        <4>2. asked <= 5 + 0
          BY <3>1, <2>3, <1>t
        <4> QED
          BY <2>f, <2>2, <3>1, <4>1, <4>2 DEF Asks
      <3> QED
        BY <3>2, <3>3
    <2> QED
      BY <2>f, <2>2, <2>3, <1>0
  <1>4. CASE Answers
    BY <1>4, <1>0, <1>s DEF Answers, Seen
  <1>5. CASE Fails
    <2>1. mine = "doubtful" /\ mine' = "none" /\ UNCHANGED <<up, age, asked, permit, held>>
      BY <1>5, <1>a, <1>t DEF Fails, Timeout, history, Waits
    <2>2. asked # -1 => asked <= 5
      BY <2>1, <1>s, <1>t
    <2> QED
      BY <2>1, <2>2, <1>s DEF Asks
  <1>6. CASE DeadFails
    BY <1>6, <1>s DEF DeadFails
  <1>7. CASE PassEnds
    <2>1. mine = "none" /\ UNCHANGED <<up, age, asked, permit, held, mine>>
      BY <1>7 DEF PassEnds, history
    <2> QED
      BY <2>1, <1>s DEF Asks
  <1>8. CASE Rescan
    <2>1. permit' /\ UNCHANGED <<up, age, mine, pass, held>>
      BY <1>8 DEF Rescan, running
    <2>2. asked' = asked \/ (asked' = 0 /\ up /\ age = Never)
      BY <1>8 DEF Rescan
    <2>3. /\ 0 <= 5 + pass
          /\ mine # "none" => 0 <= pass
      BY <1>t
    <2>4. CASE asked' = asked
      BY <2>1, <2>4, <1>s DEF Asks
    <2>5. CASE asked' = 0 /\ up /\ age = Never
      BY <2>1, <2>3, <2>5, <1>s, <1>t DEF Asks
    <2> QED
      BY <2>2, <2>4, <2>5
  <1>9. CASE Flips
    BY <1>9, <1>0, <1>s DEF Flips
  <1>10. CASE Second
    <2>1. mine = "none" => ~permit
      BY <1>10, <1>s DEF Second, Quiet
    <2>2. UNCHANGED <<up, mine, permit, held>> /\ (age = Never => age' = Never)
      BY <1>10 DEF Second
    <2>3. asked' = IF asked = -1 THEN -1 ELSE asked + 1
      BY <1>10 DEF Second
    <2>4. mine # "none" => pass' = pass + 1 /\ pass \in 0 .. 5
      BY <1>10, <1>t DEF Second
    <2>5. ASSUME asked # -1 PROVE Asks'
      <3>1. asked' = asked + 1 /\ asked \in Nat
        BY <2>3, <2>5, <1>t
      <3>2. CASE mine = "sure"
        <4>1. asked' <= 5 + pass'
          BY <2>4, <2>5, <3>1, <3>2, <1>s
        <4> QED
          BY <2>2, <2>5, <3>2, <4>1, <1>s DEF Asks
      <3>3. CASE mine = "doubtful"
        <4>1. asked' <= pass'
          BY <2>4, <2>5, <3>1, <3>3, <1>s
        <4> QED
          BY <2>2, <2>5, <3>3, <4>1, <1>s DEF Asks
      <3> QED
        BY <2>1, <2>5, <3>2, <3>3, <1>s
    <2> QED
      BY <2>2, <2>3, <2>5, <1>0, <1>s
  <1>11. CASE UNCHANGED vars
    BY <1>11, <1>same DEF vars, running, history
  <1> QED
    BY <1>1, <1>2, <1>3, <1>4, <1>5, <1>6, <1>7, <1>8, <1>9, <1>10, <1>11 DEF Next

\* A kept peer that came back and answers within the timeout of a probe is found
\* when the longest backoff, a pass and its answer are over, however many dead
\* peers share the passes; and after a rescan, without those, in the time of one
\* probe that fails and of its own answer.
THEOREM PeersAreFound == Spec => []FoundInTime
  <1>1. Init => Typed /\ Waits /\ Asks
    BY InitTyped, InitWaits DEF Init, Asks
  <1>2. Typed /\ Waits /\ Asks /\ [Next]_vars => Typed' /\ Waits' /\ Asks'
    BY StepTyped, StepWaits, StepAsks
  <1>3. Typed /\ Waits /\ Asks => FoundInTime
    <2> SUFFICES ASSUME Typed, Waits, Asks, InTime
                 PROVE  /\ waited <= 305 + MaxAnswer
                        /\ ~DeadPeers => asked <= 5 + MaxAnswer
      BY DEF FoundInTime, InTime, max_backoff, Timeout
    <2>t. /\ MaxAnswer \in 0 .. 4 /\ waited \in Nat /\ pass \in -1 .. 5
          /\ mine \in {"none", "sure", "doubtful"} /\ asked \in Nat \cup {-1}
      BY ConditionsTyped DEF Typed, TypeOK, InTime, Timeout, Idle
    <2>1. mine = "sure" => waited <= 305 + pass /\ pass <= MaxAnswer
      BY DEF Waits
    <2>2. mine # "sure" => waited <= 305
      BY <2>t DEF Waits, Idle
    <2>3. ~DeadPeers /\ asked # -1 => \/ mine = "sure" /\ asked <= 5 + pass
                                      \/ asked <= pass \/ asked <= 5
      BY DEF Asks, Idle
    <2>4. waited <= 305 + MaxAnswer
      BY <2>1, <2>2, <2>t
    <2>5. ~DeadPeers => asked <= 5 + MaxAnswer
      BY <2>1, <2>3, <2>t
    <2> QED
      BY <2>4, <2>5
  <1> QED
    BY <1>1, <1>2, <1>3, PTL DEF Spec
=============================================================================
