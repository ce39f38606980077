------------------------- MODULE ClipboardSyncProofs -------------------------
(* What the shared clipboard promises while the user copies one thing at a   *)
(* time: nothing is sent on, and the last copy reaches everyone it is shared *)
(* with - for any number of machines, clips, copies and changes of opt-in.   *)
EXTENDS ClipboardSync, FiniteSetTheorems, SequenceTheorems, TLAPS

-----------------------------------------------------------------------------
(* Sequences. *)

\* What is left when one element is removed: those before it, and those after.
LEMMA Removed ==
  ASSUME NEW S, NEW s \in Seq(S), NEW i \in 1 .. Len(s)
  PROVE  /\ RemoveAt(s, i) \in Seq(S) /\ Len(RemoveAt(s, i)) = Len(s) - 1
         /\ \A k \in 1 .. Len(s) - 1 : RemoveAt(s, i)[k] = IF k < i THEN s[k] ELSE s[k + 1]
  <1> DEFINE a == SubSeq(s, 1, i - 1)
             b == SubSeq(s, i + 1, Len(s))
  <1>n. Len(s) \in Nat /\ i \in Nat /\ 1 <= i /\ i <= Len(s)
    BY LenProperties
  <1>e. \A k \in 1 .. Len(s) : s[k] \in S
    BY ElementOfSeq
  <1>1. a \in Seq(S) /\ Len(a) = i - 1 /\ \A k \in 1 .. i - 1 : a[k] = s[k]
    <2>1. \A k \in 1 .. i - 1 : s[k] \in S
      BY <1>n, <1>e
    <2>2. /\ a \in Seq(S) /\ Len(a) = IF 1 <= i - 1 THEN (i - 1) - 1 + 1 ELSE 0
          /\ \A k \in 1 .. (i - 1) - 1 + 1 : a[k] = s[1 + k - 1]
      BY <2>1, <1>n, SubSeqProperties
    <2> HIDE DEF a
    <2>3. Len(a) = i - 1
      BY <2>2, <1>n
    <2>4. ASSUME NEW k \in 1 .. i - 1 PROVE a[k] = s[k]
      <3>1. k \in 1 .. (i - 1) - 1 + 1 /\ 1 + k - 1 = k
        BY <1>n
      <3> QED
        BY <2>2, <3>1
    <2> QED
      BY <2>2, <2>3, <2>4
  <1>2. b \in Seq(S) /\ Len(b) = Len(s) - i /\ \A k \in 1 .. Len(s) - i : b[k] = s[i + k]
    <2>1. \A k \in i + 1 .. Len(s) : s[k] \in S
      BY <1>n, <1>e
    <2>2. /\ b \in Seq(S) /\ Len(b) = IF i + 1 <= Len(s) THEN Len(s) - (i + 1) + 1 ELSE 0
          /\ \A k \in 1 .. Len(s) - (i + 1) + 1 : b[k] = s[i + 1 + k - 1]
      BY <2>1, <1>n, SubSeqProperties
    <2> HIDE DEF b
    <2>3. Len(b) = Len(s) - i
      BY <2>2, <1>n
    <2>4. ASSUME NEW k \in 1 .. Len(s) - i PROVE b[k] = s[i + k]
      <3>1. k \in 1 .. Len(s) - (i + 1) + 1 /\ i + 1 + k - 1 = i + k
        BY <1>n
      <3> QED
        BY <2>2, <3>1
    <2> QED
      BY <2>2, <2>3, <2>4
  <1> HIDE DEF a, b
  <1>3. /\ a \o b \in Seq(S) /\ Len(a \o b) = Len(a) + Len(b)
        /\ \A k \in 1 .. Len(a) + Len(b) :
             (a \o b)[k] = IF k <= Len(a) THEN a[k] ELSE b[k - Len(a)]
    BY <1>1, <1>2, ConcatProperties
  <1>4. RemoveAt(s, i) = a \o b
    BY DEF RemoveAt, a, b
  <1>5. Len(a) + Len(b) = Len(s) - 1
    BY <1>1, <1>2, <1>n
  <1>6. ASSUME NEW k \in 1 .. Len(s) - 1 PROVE (a \o b)[k] = IF k < i THEN s[k] ELSE s[k + 1]
    <2>1. CASE k < i
      <3>1. k <= Len(a) /\ k \in 1 .. i - 1
        BY <2>1, <1>1, <1>n
      <3> QED
        BY <2>1, <3>1, <1>1, <1>3, <1>5
    <2>2. CASE ~(k < i)
      <3>1. ~(k <= Len(a)) /\ k - Len(a) \in 1 .. Len(s) - i /\ i + (k - Len(a)) = k + 1
        BY <2>2, <1>1, <1>n
      <3> QED
        BY <2>2, <3>1, <1>2, <1>3, <1>5
    <2> QED
      BY <2>1, <2>2
  <1> QED
    BY <1>3, <1>4, <1>5, <1>6

\* A finite set as a sequence: its elements, all of them and no other.
LEMMA AsSequence ==
  ASSUME NEW S, IsFiniteSet(S)
  PROVE  /\ SetToSeq(S) \in Seq(S)
         /\ \A x \in S : \E k \in 1 .. Len(SetToSeq(S)) : SetToSeq(S)[k] = x
  <1> DEFINE n == Cardinality(S)
             q == SetToSeq(S)
  <1>1. n \in Nat /\ ExistsBijection(1 .. n, S)
    BY FS_CardinalityType
  <1>2. PICK f : f \in Bijection(1 .. n, S)
    BY <1>1 DEF ExistsBijection
  <1>3. q \in [1 .. n -> S] /\ IsInjective(q)
    <2>1. f \in [1 .. n -> S] /\ IsInjective(f)
      BY <1>2 DEF Bijection, Injection
    <2> QED
      BY <2>1 DEF SetToSeq
  <1> HIDE DEF q
  <1>4. q \in Injection(1 .. n, S)
    BY <1>3 DEF Injection
  <1>5. Cardinality(1 .. n) = n
    BY <1>1, FS_Interval
  <1>6. q \in Surjection(1 .. n, S)
    BY <1>4, <1>5, FS_Injection
  <1> HIDE DEF n
  <1>7. q \in Seq(S)
    BY <1>1, <1>3, SeqDef
  <1>8. Len(q) = n
    BY <1>1, <1>3, <1>7, LenProperties
  <1> QED
    BY <1>6, <1>7, <1>8 DEF Surjection, q

\* Removing one element keeps the others and adds none.
LEMMA RemovedElements ==
  ASSUME NEW S, NEW s \in Seq(S), NEW i \in 1 .. Len(s)
  PROVE  /\ \A k \in 1 .. Len(RemoveAt(s, i)) : \E j \in 1 .. Len(s) : RemoveAt(s, i)[k] = s[j]
         /\ \A j \in 1 .. Len(s) :
              j # i => \E k \in 1 .. Len(RemoveAt(s, i)) : RemoveAt(s, i)[k] = s[j]
  <1>n. Len(s) \in Nat
    BY LenProperties
  <1>1. ASSUME NEW k \in 1 .. Len(s) - 1
        PROVE  \E j \in 1 .. Len(s) : RemoveAt(s, i)[k] = s[j]
    <2>1. k \in 1 .. Len(s) /\ k + 1 \in 1 .. Len(s)
      BY <1>n
    <2> QED
      BY <2>1, Removed
  <1>2. ASSUME NEW j \in 1 .. Len(s), j # i
        PROVE  \E k \in 1 .. Len(s) - 1 : RemoveAt(s, i)[k] = s[j]
    <2>1. CASE j < i
      <3>1. j \in 1 .. Len(s) - 1
        BY <2>1, <1>n
      <3> QED
        BY <2>1, <3>1, Removed
    <2>2. CASE ~(j < i)
      <3>1. j - 1 \in 1 .. Len(s) - 1 /\ ~(j - 1 < i) /\ (j - 1) + 1 = j
        BY <1>2, <2>2, <1>n
      <3> QED
        BY <3>1, Removed
    <2> QED
      BY <2>1, <2>2
  <1> QED
    BY <1>1, <1>2, Removed

Posts == [from : Machines, to : Machines, held : Held, stage : {"sent", "noted"}]

\* Joining two sequences of posts keeps the elements of both and adds none.
LEMMA JoinedElements ==
  ASSUME NEW s \in Seq(Posts), NEW r \in Seq(Posts)
  PROVE  /\ s \o r \in Seq(Posts)
         /\ \A k \in 1 .. Len(s \o r) : \/ \E j \in 1 .. Len(s) : (s \o r)[k] = s[j]
                                       \/ \E j \in 1 .. Len(r) : (s \o r)[k] = r[j]
         /\ \A j \in 1 .. Len(s) : \E k \in 1 .. Len(s \o r) : (s \o r)[k] = s[j]
         /\ \A j \in 1 .. Len(r) : \E k \in 1 .. Len(s \o r) : (s \o r)[k] = r[j]
  <1>n. Len(s) \in Nat /\ Len(r) \in Nat
    BY LenProperties
  <1>c. /\ s \o r \in Seq(Posts) /\ Len(s \o r) = Len(s) + Len(r)
        /\ \A k \in 1 .. Len(s) + Len(r) :
             (s \o r)[k] = IF k <= Len(s) THEN s[k] ELSE r[k - Len(s)]
    BY ConcatProperties
  <1>1. ASSUME NEW k \in 1 .. Len(s) + Len(r)
        PROVE  \/ \E j \in 1 .. Len(s) : (s \o r)[k] = s[j]
               \/ \E j \in 1 .. Len(r) : (s \o r)[k] = r[j]
    <2>1. CASE k <= Len(s)
      <3>1. k \in 1 .. Len(s)
        BY <2>1, <1>n
      <3> QED
        BY <2>1, <3>1, <1>c
    <2>2. CASE ~(k <= Len(s))
      <3>1. k - Len(s) \in 1 .. Len(r)
        BY <2>2, <1>n
      <3> QED
        BY <2>2, <3>1, <1>c
    <2> QED
      BY <2>1, <2>2
  <1>2. ASSUME NEW j \in 1 .. Len(s)
        PROVE  \E k \in 1 .. Len(s) + Len(r) : (s \o r)[k] = s[j]
    <2>1. j \in 1 .. Len(s) + Len(r) /\ j <= Len(s)
      BY <1>n
    <2> QED
      BY <2>1, <1>c
  <1>3. ASSUME NEW j \in 1 .. Len(r)
        PROVE  \E k \in 1 .. Len(s) + Len(r) : (s \o r)[k] = r[j]
    <2>1. /\ Len(s) + j \in 1 .. Len(s) + Len(r) /\ ~(Len(s) + j <= Len(s))
          /\ (Len(s) + j) - Len(s) = j
      BY <1>n
    <2> QED
      BY <2>1, <1>c
  <1> QED
    BY <1>c, <1>1, <1>2, <1>3

\* A clip that is fanned out goes to each of its partners, and to nobody else.
LEMMA FannedOut ==
  ASSUME NEW m \in Machines, NEW h \in Held, NEW E \in SUBSET Machines
  PROVE  LET q == SetToSeq({Post(m, p, h) : p \in E})
         IN  /\ q \in Seq(Posts)
             /\ \A k \in 1 .. Len(q) : \E p \in E : q[k] = Post(m, p, h)
             /\ \A p \in E : \E k \in 1 .. Len(q) : q[k] = Post(m, p, h)
  <1> DEFINE S == {Post(m, p, h) : p \in E}
             f == [p \in E |-> Post(m, p, h)]
             q == SetToSeq(S)
  <1>1. IsFiniteSet(S)
    <2>1. IsFiniteSet(E)
      BY ClipboardAssumption, FS_Subset
    <2>2. f \in Surjection(E, S)
      BY DEF Surjection
    <2> QED
      BY <2>1, <2>2, FS_Surjection
  <1>2. S \subseteq Posts
    BY DEF Post, Posts
  <1>3. q \in Seq(S) /\ \A x \in S : \E k \in 1 .. Len(q) : q[k] = x
    BY <1>1, AsSequence
  <1>4. \A k \in 1 .. Len(q) : q[k] \in S
    BY <1>3, ElementOfSeq
  <1>5. q \in Seq(Posts)
    BY <1>2, <1>3, SeqMonotonic
  <1> HIDE DEF q
  <1> QED
    BY <1>3, <1>4, <1>5 DEF q

-----------------------------------------------------------------------------
(* The types. *)

LEMMA InitTyped == Init => TypeOK
  <1> SUFFICES ASSUME Init PROVE TypeOK
    OBVIOUS
  <1>1. \A m \in Machines : Blank(m) \in Held /\ Resting(m).read \in Held
    BY DEF Blank, Held, Resting
  <1>2. enabled \in [Machines -> SUBSET Machines]
    BY DEF Init
  <1>3. poll \in [Machines -> [step : {"idle", "woken", "reading", "noting"},
                              has : BOOLEAN, moved : BOOLEAN, read : Held]]
    BY <1>1 DEF Init, Resting
  <1>4. queue \in [Machines -> Seq(Held)] /\ \A m \in Machines : Len(queue[m]) <= 4
    BY EmptySeq DEF Init
  <1>5. posts \in Seq(Posts)
    BY EmptySeq DEF Init
  <1>6. copies \in 0 .. MaxCopies /\ toggles \in 0 .. MaxToggles
    BY ClipboardAssumption DEF Init
  <1> QED
    BY <1>1, <1>2, <1>3, <1>4, <1>5, <1>6 DEF Init, TypeOK, Posts

PollStates == [step : {"idle", "woken", "reading", "noting"},
               has : BOOLEAN, moved : BOOLEAN, read : Held]

\* What the poller's own bookkeeping does to the types.
LEMMA PollTyped ==
  ASSUME TypeOK, NEW m \in Machines
  PROVE  /\ Resting(m) \in PollStates /\ poll[m] \in PollStates
         /\ Consumes(m) => fresh' \in [Machines -> BOOLEAN] /\ poll' \in [Machines -> PollStates]
         /\ \A c \in Clips : Remembers(m, c) => /\ last_text' \in [Machines -> Texts \cup {Nothing}]
                                               /\ last_image' \in [Machines -> Images \cup {Nothing}]
         /\ \A h \in Held : Writes(m, h) => /\ clip' \in [Machines -> Held]
                                            /\ fresh' \in [Machines -> BOOLEAN]
                                            /\ poll' \in [Machines -> PollStates]
  <1>1. Resting(m) \in PollStates /\ poll[m] \in PollStates
    BY DEF Resting, Blank, Held, PollStates, TypeOK
  <1>2. ASSUME Consumes(m) PROVE fresh' \in [Machines -> BOOLEAN] /\ poll' \in [Machines -> PollStates]
    <2>1. poll[m].moved \in BOOLEAN
      BY <1>1 DEF PollStates
    <2> QED
      BY <1>1, <1>2, <2>1 DEF Consumes, TypeOK, PollStates
  <1>3. ASSUME NEW c \in Clips, Remembers(m, c)
        PROVE  /\ last_text' \in [Machines -> Texts \cup {Nothing}]
               /\ last_image' \in [Machines -> Images \cup {Nothing}]
    BY <1>3 DEF Remembers, Clips, TypeOK
  <1>4. ASSUME NEW h \in Held, Writes(m, h)
        PROVE  clip' \in [Machines -> Held] /\ fresh' \in [Machines -> BOOLEAN]
               /\ poll' \in [Machines -> PollStates]
    <2>1. [poll[m] EXCEPT !.moved = TRUE] \in PollStates
      BY <1>1 DEF PollStates
    <2>2. poll' = [poll EXCEPT ![m] = [poll[m] EXCEPT !.moved = TRUE]]
      BY <1>4 DEF Writes
    <2> QED
      BY <1>4, <2>1, <2>2 DEF Writes, TypeOK, PollStates
  <1> QED
    BY <1>1, <1>2, <1>3, <1>4

\* Every step keeps the types.
LEMMA StepTyped == TypeOK /\ [Next]_vars => TypeOK'
  <1> SUFFICES ASSUME TypeOK, [Next]_vars PROVE TypeOK'
    OBVIOUS
  <1>t. /\ enabled \in [Machines -> SUBSET Machines]
        /\ slot \in [Machines -> Clips \cup {Nothing}] /\ clip \in [Machines -> Held]
        /\ fresh \in [Machines -> BOOLEAN] /\ poll \in [Machines -> PollStates]
        /\ last_text \in [Machines -> Texts \cup {Nothing}]
        /\ last_image \in [Machines -> Images \cup {Nothing}]
        /\ queue \in [Machines -> Seq(Held)] /\ \A m \in Machines : Len(queue[m]) <= 4
        /\ posts \in Seq(Posts) /\ copies \in 0 .. MaxCopies /\ toggles \in 0 .. MaxToggles
        /\ latest \in [at : Machines \cup {Nothing}, clip : Clips \cup {Nothing}, settled : BOOLEAN]
    BY DEF TypeOK, PollStates, Posts
  <1>w. ASSUME /\ enabled' \in [Machines -> SUBSET Machines]
               /\ slot' \in [Machines -> Clips \cup {Nothing}] /\ clip' \in [Machines -> Held]
               /\ fresh' \in [Machines -> BOOLEAN] /\ poll' \in [Machines -> PollStates]
               /\ last_text' \in [Machines -> Texts \cup {Nothing}]
               /\ last_image' \in [Machines -> Images \cup {Nothing}]
               /\ queue' \in [Machines -> Seq(Held)] /\ \A m \in Machines : Len(queue'[m]) <= 4
               /\ posts' \in Seq(Posts) /\ copies' \in 0 .. MaxCopies
               /\ toggles' \in 0 .. MaxToggles
               /\ latest' \in [at : Machines \cup {Nothing}, clip : Clips \cup {Nothing},
                               settled : BOOLEAN]
        PROVE  TypeOK'
    BY <1>w DEF TypeOK, PollStates, Posts
  <1>u. [latest EXCEPT !.settled = FALSE] \in
          [at : Machines \cup {Nothing}, clip : Clips \cup {Nothing}, settled : BOOLEAN]
    BY <1>t
  <1>1. ASSUME NEW m \in Machines, Copies(m) PROVE TypeOK'
    <2>1. PICK c \in Clips :
            /\ Writes(m, [what |-> c, from |-> m, private |-> enabled[m] = {}])
            /\ latest' = [at |-> m, clip |-> c, settled |-> slot[m] # c /\ ~Seen(m, c)]
      BY <1>1 DEF Copies
    <2>2. [what |-> c, from |-> m, private |-> enabled[m] = {}] \in Held
      BY DEF Held
    <2>3. copies' \in 0 .. MaxCopies
      BY <1>1, <1>t, ClipboardAssumption DEF Copies
    <2> QED
      BY <1>1, <1>t, <1>w, <2>1, <2>2, <2>3, PollTyped DEF Copies, memory
  <1>2. ASSUME NEW m \in Machines, NEW p \in Machines, Toggles(m, p) PROVE TypeOK'
    <2>1. toggles' \in 0 .. MaxToggles
      BY <1>2, <1>t, ClipboardAssumption DEF Toggles
    <2>2. enabled' \in [Machines -> SUBSET Machines]
      BY <1>2, <1>t DEF Toggles
    <2> QED
      BY <1>2, <1>t, <1>w, <1>u, <2>1, <2>2 DEF Toggles, memory
  <1>3. ASSUME NEW m \in Machines, Wakes(m) \/ Looks(m) \/ ReadFails(m) PROVE TypeOK'
    <2>1. poll' \in [Machines -> PollStates]
      <3>1. /\ poll[m] \in PollStates /\ Resting(m) \in PollStates
            /\ \A b \in BOOLEAN : [poll[m] EXCEPT !.step = "woken", !.has = b] \in PollStates
            /\ [poll[m] EXCEPT !.step = "reading", !.moved = FALSE] \in PollStates
        BY PollTyped DEF PollStates
      <3>2. \/ \E b \in BOOLEAN :
                  poll' = [poll EXCEPT ![m] = [poll[m] EXCEPT !.step = "woken", !.has = b]]
            \/ poll' = [poll EXCEPT ![m] = [poll[m] EXCEPT !.step = "reading", !.moved = FALSE]]
            \/ poll' = [poll EXCEPT ![m] = Resting(m)]
        BY <1>3 DEF Wakes, Looks, ReadFails
      <3> QED
        BY <1>t, <3>1, <3>2
    <2>2. fresh' \in [Machines -> BOOLEAN]
      BY <1>3, <1>t DEF Wakes, Looks, ReadFails
    <2>3. UNCHANGED <<enabled, slot, clip, memory, queue, posts, bounds, latest>>
      BY <1>3 DEF Wakes, Looks, ReadFails
    <2> QED
      BY <1>t, <1>w, <2>1, <2>2, <2>3 DEF memory, bounds
  <1>4. ASSUME NEW m \in Machines, ReadsKnown(m) PROVE TypeOK'
    BY <1>4, <1>t, <1>w, PollTyped DEF ReadsKnown, memory, bounds
  <1>5. ASSUME NEW m \in Machines, ReadsEcho(m) PROVE TypeOK'
    <2>1. clip[m].what \in Clips
      BY <1>5, <1>t DEF ReadsEcho, Held
    <2> QED
      BY <1>5, <2>1, <1>t, <1>w, PollTyped DEF ReadsEcho, bounds
  <1>6. ASSUME NEW m \in Machines, ReadsNew(m) PROVE TypeOK'
    <2>1. clip[m].what \in Clips /\ clip[m] \in Held
      BY <1>6, <1>t DEF ReadsNew, Held
    <2>2. poll' \in [Machines -> PollStates]
      <3>1. [poll[m] EXCEPT !.step = "noting", !.read = clip[m]] \in PollStates
        BY <2>1, PollTyped DEF PollStates
      <3>2. poll' = [poll EXCEPT ![m] = [poll[m] EXCEPT !.step = "noting", !.read = clip[m]]]
        BY <1>6 DEF ReadsNew
      <3> QED
        BY <1>t, <3>1, <3>2
    <2> QED
      BY <1>6, <2>1, <2>2, <1>t, <1>w, PollTyped DEF ReadsNew, bounds
  <1>7. ASSUME NEW m \in Machines, Notes(m) PROVE TypeOK'
    <2>1. poll[m].read \in Held
      BY PollTyped DEF PollStates
    <2>2. queue' \in [Machines -> Seq(Held)] /\ \A o \in Machines : Len(queue'[o]) <= 4
      <3>1. Len(queue[m]) < 4 /\ Len(queue[m]) \in Nat /\ queue[m] \in Seq(Held)
        BY <1>7, <1>t, LenProperties DEF Notes
      <3>2. /\ Append(queue[m], poll[m].read) \in Seq(Held)
            /\ Len(Append(queue[m], poll[m].read)) = Len(queue[m]) + 1
        BY <3>1, <2>1, AppendProperties
      <3>3. Len(Append(queue[m], poll[m].read)) <= 4
        BY <3>1, <3>2
      <3>4. queue' = [queue EXCEPT ![m] = Append(queue[m], poll[m].read)]
        BY <1>7 DEF Notes
      <3> QED
        BY <1>t, <3>2, <3>3, <3>4
    <2>3. slot' \in [Machines -> Clips \cup {Nothing}]
      BY <1>7, <2>1, <1>t DEF Notes, Held
    <2> QED
      BY <1>7, <2>2, <2>3, <1>t, <1>w, PollTyped DEF Notes, memory, bounds
  <1>8. ASSUME NEW m \in Machines, FansOut(m) PROVE TypeOK'
    <2>1. Head(queue[m]) \in Held /\ Tail(queue[m]) \in Seq(Held) /\ Len(Tail(queue[m])) <= 4
      <3>1. /\ queue[m] \in Seq(Held) /\ queue[m] # <<>> /\ Len(queue[m]) \in Nat
            /\ Len(queue[m]) <= 4
        BY <1>8, <1>t, LenProperties DEF FansOut
      <3>2. /\ Head(queue[m]) \in Held /\ Tail(queue[m]) \in Seq(Held)
            /\ Len(Tail(queue[m])) = Len(queue[m]) - 1
        BY <3>1, HeadTailProperties
      <3> QED
        BY <3>1, <3>2
    <2>2. posts' \in Seq(Posts)
      <3>1. SetToSeq({Post(m, p, Head(queue[m])) : p \in enabled[m]}) \in Seq(Posts)
        BY <2>1, <1>t, FannedOut
      <3> QED
        BY <1>8, <1>t, <3>1, JoinedElements DEF FansOut
    <2>3. queue' \in [Machines -> Seq(Held)] /\ \A o \in Machines : Len(queue'[o]) <= 4
      <3>1. queue' = [queue EXCEPT ![m] = Tail(queue[m])]
        BY <1>8 DEF FansOut
      <3> QED
        BY <3>1, <2>1, <1>t
    <2> QED
      BY <1>8, <2>2, <2>3, <1>t, <1>w DEF FansOut, memory, bounds
  <1>9. ASSUME NEW i \in 1 .. Len(posts), Handles(i) PROVE TypeOK'
    <2>1. posts[i] \in Posts
      BY <1>t, ElementOfSeq
    <2>2. RemoveAt(posts, i) \in Seq(Posts)
      BY <1>t, Removed
    <2>3. CASE Accepts(i)
      <3>1. [posts[i] EXCEPT !.stage = "noted"] \in Posts
        BY <2>1 DEF Posts
      <3>2. posts' = [posts EXCEPT ![i] = [posts[i] EXCEPT !.stage = "noted"]]
        BY <2>3 DEF Accepts
      <3>3. posts' \in Seq(Posts)
        BY <3>1, <3>2, <1>t, ExceptSeq
      <3>4. slot' \in [Machines -> Clips \cup {Nothing}]
        BY <2>1, <2>3, <1>t DEF Accepts, Posts, Held
      <3> QED
        BY <2>3, <3>3, <3>4, <1>t, <1>w DEF Accepts, memory, bounds
    <2>4. CASE Refuses(i)
      BY <2>2, <2>4, <1>t, <1>w DEF Refuses, memory, bounds
    <2>5. CASE WritesReceived(i)
      <3>1. [what |-> posts[i].held.what, from |-> posts[i].from, private |-> FALSE] \in Held
            /\ posts[i].to \in Machines
        BY <2>1 DEF Posts, Held
      <3> QED
        BY <2>2, <2>5, <3>1, <1>t, <1>w, PollTyped DEF WritesReceived, memory, bounds
    <2>6. CASE WriteRefused(i)
      BY <2>2, <2>6, <1>t, <1>u, <1>w DEF WriteRefused, memory, bounds
    <2> QED
      BY <1>9, <2>3, <2>4, <2>5, <2>6 DEF Handles
  <1>10. CASE UNCHANGED vars
    BY <1>10, <1>t, <1>w DEF vars, memory, bounds
  <1> QED
    BY <1>1, <1>2, <1>3, <1>4, <1>5, <1>6, <1>7, <1>8, <1>9, <1>10 DEF Next, Polls

\* Every variable keeps its type, and no more clips wait than the channel holds.
THEOREM ClipboardTyped == Spec => []TypeOK
  <1>1. Init => TypeOK
    BY InitTyped
  <1>2. TypeOK /\ [Next]_vars => TypeOK'
    BY StepTyped
  <1> QED
    BY <1>1, <1>2, PTL DEF Spec

-----------------------------------------------------------------------------
(* One clip at a time. *)

\* While the user copies only at rest, all that is under way is the last copy: it
\* waits and is posted by its own machine only, and any other machine whose
\* clipboard is still to be read holds it and has noted it.
Busy(m) == fresh[m] \/ poll[m].step # "idle"
Arrived(m) == m = latest.at \/ (clip[m].what = latest.clip /\ slot[m] = latest.clip)
Posted ==
  \A i \in 1 .. Len(posts) :
    /\ posts[i].from = latest.at
    /\ posts[i].held.from = latest.at /\ posts[i].held.what = latest.clip
    /\ posts[i].stage = "noted" => slot[posts[i].to] = latest.clip
Queued ==
  \A m \in Machines : \A k \in 1 .. Len(queue[m]) :
    m = latest.at /\ queue[m][k].from = m /\ queue[m][k].what = latest.clip
Polled ==
  \A m \in Machines :
    /\ Busy(m) => Arrived(m)
    /\ poll[m].step = "noting" => /\ m = latest.at
                                 /\ poll[m].read.from = m /\ poll[m].read.what = latest.clip
    /\ m = latest.at => clip[m].what = latest.clip /\ clip[m].from = m
Noted ==
  \A m \in Machines : m = latest.at /\ (posts # <<>> \/ queue[m] # <<>>) => slot[m] = latest.clip
Wave == Posted /\ Queued /\ Polled /\ Noted

LEMMA InitWave == Init => Wave
  BY EmptySeq DEF Init, Wave, Posted, Queued, Polled, Noted, Busy, Arrived, Resting, Blank

\* A step of the poller that neither takes a clip nor hands one over.
LEMMA LooksKeep ==
  ASSUME TypeOK, Wave, UNCHANGED <<slot, clip, queue, posts>>,
         latest'.at = latest.at, latest'.clip = latest.clip,
         \A m \in Machines : Busy(m)' => Busy(m),
         \A m \in Machines : poll'[m].step = "noting" => poll'[m] = poll[m]
  PROVE  Wave'
  <1>1. Posted' /\ Queued' /\ Noted'
    BY DEF Wave, Posted, Queued, Noted
  <1>2. ASSUME NEW m \in Machines
        PROVE  /\ Busy(m)' => Arrived(m)'
               /\ poll'[m].step = "noting" =>
                    /\ m = latest'.at
                    /\ poll'[m].read.from = m /\ poll'[m].read.what = latest'.clip
               /\ m = latest'.at => clip'[m].what = latest'.clip /\ clip'[m].from = m
    BY <1>2 DEF Wave, Polled, Arrived
  <1> QED
    BY <1>1, <1>2 DEF Wave, Polled

LEMMA PollerKeeps ==
  ASSUME TypeOK, Wave, NEW m \in Machines,
         Wakes(m) \/ Looks(m) \/ ReadFails(m) \/ ReadsKnown(m) \/ ReadsEcho(m)
  PROVE  Wave'
  <1>1. UNCHANGED <<slot, clip, queue, posts, latest>>
    BY DEF Wakes, Looks, ReadFails, ReadsKnown, ReadsEcho
  <1>2. Busy(m)
    BY DEF Busy, Wakes, Looks, ReadFails, ReadsKnown, ReadsEcho
  <1>3. poll'[m].step # "noting"
    BY DEF Wakes, Looks, ReadFails, ReadsKnown, ReadsEcho, Consumes, Resting, TypeOK
  <1>4. \A o \in Machines \ {m} : poll'[o] = poll[o] /\ fresh'[o] = fresh[o]
    BY DEF Wakes, Looks, ReadFails, ReadsKnown, ReadsEcho, Consumes, TypeOK
  <1>5. \A o \in Machines : Busy(o)' => Busy(o)
    BY <1>2, <1>4 DEF Busy
  <1>6. \A o \in Machines : poll'[o].step = "noting" => poll'[o] = poll[o]
    BY <1>3, <1>4
  <1> QED
    BY <1>1, <1>5, <1>6, LooksKeep

\* Posts that are removed leave the others as they were.
LEMMA RemovalKeeps ==
  ASSUME TypeOK, Posted, NEW i \in 1 .. Len(posts), posts' = RemoveAt(posts, i),
         slot' = slot, latest'.at = latest.at, latest'.clip = latest.clip
  PROVE  Posted' /\ posts # <<>>
  <1>1. posts \in Seq(Posts)
    BY DEF TypeOK, Posts
  <1>2. \A k \in 1 .. Len(posts') : \E j \in 1 .. Len(posts) : posts'[k] = posts[j]
    BY <1>1, RemovedElements
  <1>3. posts # <<>>
    BY <1>1, EmptySeq
  <1> QED
    BY <1>2, <1>3 DEF Posted

LEMMA StepWave ==
  ASSUME Calm
  PROVE  TypeOK /\ Wave /\ [Next]_vars => Wave'
  <1> SUFFICES ASSUME TypeOK, Wave, [Next]_vars PROVE Wave'
    OBVIOUS
  <1>t. /\ slot \in [Machines -> Clips \cup {Nothing}] /\ clip \in [Machines -> Held]
        /\ fresh \in [Machines -> BOOLEAN] /\ poll \in [Machines -> PollStates]
        /\ queue \in [Machines -> Seq(Held)] /\ \A m \in Machines : Len(queue[m]) \in Nat
        /\ posts \in Seq(Posts)
    BY LenProperties DEF TypeOK, PollStates, Posts
  <1>p. \A i \in 1 .. Len(posts) : posts[i] \in Posts
    BY <1>t, ElementOfSeq
  <1>a. \A i \in 1 .. Len(posts) : posts[i].to \in Machines
    BY <1>p DEF Posts
  <1>1. ASSUME NEW m \in Machines, Copies(m) PROVE Wave'
    <2>1. Rest
      BY <1>1 DEF Copies
    <2>2. PICK c \in Clips :
            /\ Writes(m, [what |-> c, from |-> m, private |-> enabled[m] = {}])
            /\ latest' = [at |-> m, clip |-> c, settled |-> slot[m] # c /\ ~Seen(m, c)]
      BY <1>1 DEF Copies
    <2>3. posts' = <<>> /\ \A o \in Machines : queue'[o] = <<>>
      BY <1>1, <2>1 DEF Copies, Rest
    <2>4. /\ clip'[m].what = c /\ clip'[m].from = m
          /\ \A o \in Machines \ {m} : ~Busy(o)'
      BY <2>1, <2>2, <1>t DEF Writes, Busy, Rest
    <2>5. \A o \in Machines : poll'[o].step # "noting"
      BY <2>1, <2>2, <1>t DEF Writes, Rest, PollStates
    <2>6. Polled'
      BY <2>2, <2>4, <2>5 DEF Polled, Arrived
    <2> QED
      BY <2>3, <2>6, EmptySeq DEF Wave, Posted, Queued, Noted
  <1>2. ASSUME NEW m \in Machines, NEW p \in Machines, Toggles(m, p) PROVE Wave'
    <2>1. UNCHANGED <<slot, clip, fresh, poll, queue, posts>>
      BY <1>2 DEF Toggles
    <2>2. latest'.at = latest.at /\ latest'.clip = latest.clip
      BY <1>2 DEF Toggles, TypeOK
    <2> QED
      BY <2>1, <2>2, LooksKeep DEF Busy
  <1>3. ASSUME NEW m \in Machines,
               Wakes(m) \/ Looks(m) \/ ReadFails(m) \/ ReadsKnown(m) \/ ReadsEcho(m)
        PROVE  Wave'
    BY <1>3, PollerKeeps
  <1>4. ASSUME NEW m \in Machines, ReadsNew(m) PROVE Wave'
    <2>1. m = latest.at /\ clip[m].what = latest.clip /\ clip[m].from = m
      BY <1>4 DEF ReadsNew, Wave, Polled, Arrived, Busy
    <2>2. UNCHANGED <<slot, clip, fresh, queue, posts, latest>>
      BY <1>4 DEF ReadsNew
    <2>3. poll'[m].read = clip[m] /\ \A o \in Machines \ {m} : poll'[o] = poll[o]
      BY <1>4, <1>t DEF ReadsNew, PollStates
    <2>4. Polled'
      BY <2>1, <2>2, <2>3 DEF Wave, Polled, Busy, Arrived
    <2> QED
      BY <2>2, <2>4 DEF Wave, Posted, Queued, Noted
  <1>5. ASSUME NEW m \in Machines, Notes(m) PROVE Wave'
    <2>1. m = latest.at /\ poll[m].read.from = m /\ poll[m].read.what = latest.clip
      BY <1>5 DEF Notes, Wave, Polled
    <2>2. UNCHANGED <<clip, posts, latest>>
      BY <1>5 DEF Notes
    <2>3. slot'[m] = latest.clip /\ \A o \in Machines \ {m} : slot'[o] = slot[o]
      BY <1>5, <2>1, <1>t DEF Notes
    <2>4. /\ poll'[m].step = "idle"
          /\ \A o \in Machines \ {m} : poll'[o] = poll[o] /\ fresh'[o] = fresh[o]
      BY <1>5, <1>t DEF Notes, Consumes, Resting
    <2>5. Posted'
      <3>1. \A o \in Machines : slot[o] = latest.clip => slot'[o] = latest.clip
        BY <2>3
      <3> QED
        BY <1>a, <2>2, <3>1 DEF Wave, Posted
    <2>6. Queued'
      <3> SUFFICES ASSUME NEW o \in Machines, NEW k \in 1 .. Len(queue'[o])
                   PROVE  o = latest.at /\ queue'[o][k].from = o /\ queue'[o][k].what = latest.clip
        BY <2>2 DEF Queued
      <3>1. CASE o = m
        <4>1. queue'[m] = Append(queue[m], poll[m].read) /\ poll[m].read \in Held
          BY <1>5, <1>t DEF Notes, PollStates
        <4>2. /\ Len(queue'[m]) = Len(queue[m]) + 1
              /\ \A j \in 1 .. Len(queue[m]) : queue'[m][j] = queue[m][j]
              /\ queue'[m][Len(queue[m]) + 1] = poll[m].read
          BY <4>1, <1>t, AppendProperties
        <4>3. k \in 1 .. Len(queue[m]) \/ k = Len(queue[m]) + 1
          BY <3>1, <4>2, <1>t
        <4> QED
          BY <2>1, <3>1, <4>2, <4>3 DEF Wave, Queued
      <3>2. CASE o # m
        <4>1. queue'[o] = queue[o]
          BY <1>5, <3>2, <1>t DEF Notes
        <4> QED
          BY <4>1 DEF Wave, Queued
      <3> QED
        BY <3>1, <3>2
    <2>7. Polled'
      BY <2>1, <2>2, <2>3, <2>4 DEF Wave, Polled, Busy, Arrived
    <2>8. Noted'
      BY <2>1, <2>2, <2>3 DEF Noted
    <2> QED
      BY <2>5, <2>6, <2>7, <2>8 DEF Wave
  <1>6. ASSUME NEW m \in Machines, FansOut(m) PROVE Wave'
    <2>1. /\ UNCHANGED <<slot, clip, fresh, poll, latest>>
          /\ queue[m] # <<>> /\ 1 \in 1 .. Len(queue[m]) /\ Head(queue[m]) = queue[m][1]
      BY <1>6, <1>t, EmptySeq DEF FansOut
    <2>2. m = latest.at /\ Head(queue[m]).from = m /\ Head(queue[m]).what = latest.clip
      BY <2>1 DEF Wave, Queued
    <2>3. slot[m] = latest.clip
      BY <2>1, <2>2 DEF Wave, Noted
    <2>4. Posted'
      <3>1. Head(queue[m]) \in Held /\ enabled[m] \in SUBSET Machines
        BY <2>1, <1>t, ElementOfSeq DEF TypeOK
      <3> DEFINE q == SetToSeq({Post(m, p, Head(queue[m])) : p \in enabled[m]})
      <3>2. q \in Seq(Posts) /\ \A k \in 1 .. Len(q) : \E p \in enabled[m] : q[k] = Post(m, p, Head(queue[m]))
        BY <3>1, FannedOut
      <3>3. posts' = posts \o q
        BY <1>6 DEF FansOut
      <3> HIDE DEF q
      <3>4. \A k \in 1 .. Len(posts') : \/ \E j \in 1 .. Len(posts) : posts'[k] = posts[j]
                                       \/ \E j \in 1 .. Len(q) : posts'[k] = q[j]
        <4>1. posts \in Seq(Posts) /\ q \in Seq(Posts)
          BY <1>t, <3>2
        <4>2. \A k \in 1 .. Len(posts \o q) : \/ \E j \in 1 .. Len(posts) : (posts \o q)[k] = posts[j]
                                            \/ \E j \in 1 .. Len(q) : (posts \o q)[k] = q[j]
          BY <4>1, JoinedElements
        <4> QED
          BY <3>3, <4>2
      <3> SUFFICES ASSUME NEW k \in 1 .. Len(posts')
                   PROVE  /\ posts'[k].from = latest.at
                          /\ posts'[k].held.from = latest.at /\ posts'[k].held.what = latest.clip
                          /\ posts'[k].stage = "noted" => slot[posts'[k].to] = latest.clip
        BY <2>1 DEF Posted
      <3>5. CASE \E j \in 1 .. Len(posts) : posts'[k] = posts[j]
        BY <3>5 DEF Wave, Posted
      <3>6. CASE \E j \in 1 .. Len(q) : posts'[k] = q[j]
        <4>1. PICK p \in enabled[m] : posts'[k] = Post(m, p, Head(queue[m]))
          BY <3>2, <3>6
        <4> QED
          BY <2>2, <4>1 DEF Post
      <3> QED
        BY <3>4, <3>5, <3>6
    <2>5. Queued'
      <3> SUFFICES ASSUME NEW o \in Machines, NEW k \in 1 .. Len(queue'[o])
                   PROVE  o = latest.at /\ queue'[o][k].from = o /\ queue'[o][k].what = latest.clip
        BY <2>1 DEF Queued
      <3>1. CASE o = m
        <4>1. queue'[m] = Tail(queue[m])
          BY <1>6, <1>t DEF FansOut
        <4>2. /\ Len(queue'[m]) = Len(queue[m]) - 1
              /\ \A j \in 1 .. Len(queue'[m]) : queue'[m][j] = queue[m][j + 1]
          BY <2>1, <4>1, <1>t, HeadTailProperties
        <4>3. k + 1 \in 1 .. Len(queue[m])
          BY <3>1, <4>2, <1>t
        <4> QED
          BY <3>1, <4>2, <4>3 DEF Wave, Queued
      <3>2. CASE o # m
        <4>1. queue'[o] = queue[o]
          BY <1>6, <3>2, <1>t DEF FansOut
        <4> QED
          BY <4>1 DEF Wave, Queued
      <3> QED
        BY <3>1, <3>2
    <2>6. Polled'
      BY <2>1 DEF Wave, Polled, Busy, Arrived
    <2>7. Noted'
      BY <2>1, <2>2, <2>3 DEF Noted
    <2> QED
      BY <2>4, <2>5, <2>6, <2>7 DEF Wave
  <1>7. ASSUME NEW i \in 1 .. Len(posts), Accepts(i) PROVE Wave'
    <2>1. /\ posts[i] \in Posts /\ posts[i].held.what = latest.clip
      BY <1>t, ElementOfSeq DEF Wave, Posted
    <2>2. /\ slot'[posts[i].to] = latest.clip
          /\ \A o \in Machines \ {posts[i].to} : slot'[o] = slot[o]
      BY <1>7, <2>1, <1>t DEF Accepts, Posts
    <2>3. UNCHANGED <<clip, fresh, poll, queue, latest>>
      BY <1>7 DEF Accepts
    <2>4. \A o \in Machines : slot[o] = latest.clip => slot'[o] = latest.clip
      BY <2>2
    <2>5. Posted'
      <3>1. posts' = [posts EXCEPT ![i] = [posts[i] EXCEPT !.stage = "noted"]]
        BY <1>7 DEF Accepts
      <3>2. [posts[i] EXCEPT !.stage = "noted"] \in Posts
        BY <2>1 DEF Posts
      <3>3. /\ Len(posts') = Len(posts)
            /\ \A j \in 1 .. Len(posts) :
                 posts'[j] = IF j = i THEN [posts[i] EXCEPT !.stage = "noted"] ELSE posts[j]
        BY <1>t, <3>1, <3>2, ExceptSeq
      <3>4. \A j \in 1 .. Len(posts) : posts[j] \in Posts
        BY <1>t, ElementOfSeq
      <3>5. \A j \in 1 .. Len(posts) :
              /\ posts'[j].from = posts[j].from /\ posts'[j].to = posts[j].to
              /\ posts'[j].held = posts[j].held /\ posts[j].to \in Machines
              /\ j # i => posts'[j].stage = posts[j].stage
        BY <3>3, <3>4 DEF Posts
      <3> QED
        BY <2>2, <2>3, <2>4, <3>3, <3>5 DEF Wave, Posted
    <2>6. Polled'
      BY <2>3, <2>4 DEF Wave, Polled, Busy, Arrived
    <2>7. Noted'
      <3>1. posts # <<>>
        BY <1>t, EmptySeq
      <3> QED
        BY <2>3, <2>4, <3>1 DEF Wave, Noted
    <2> QED
      BY <2>3, <2>5, <2>6, <2>7 DEF Wave, Queued
  <1>8. ASSUME NEW i \in 1 .. Len(posts), Refuses(i) \/ WriteRefused(i) PROVE Wave'
    <2>1. UNCHANGED <<slot, clip, fresh, poll, queue>> /\ posts' = RemoveAt(posts, i)
      BY <1>8 DEF Refuses, WriteRefused
    <2>2. latest'.at = latest.at /\ latest'.clip = latest.clip
      BY <1>8 DEF Refuses, WriteRefused, TypeOK
    <2>3. Posted' /\ posts # <<>>
      BY <2>1, <2>2, RemovalKeeps DEF Wave
    <2>4. Polled'
      BY <2>1, <2>2 DEF Wave, Polled, Busy, Arrived
    <2> QED
      BY <2>1, <2>2, <2>3, <2>4 DEF Wave, Queued, Noted
  <1>9. ASSUME NEW i \in 1 .. Len(posts), WritesReceived(i) PROVE Wave'
    <2>1. UNCHANGED <<slot, queue, latest>> /\ posts' = RemoveAt(posts, i)
      BY <1>9 DEF WritesReceived
    <2>2. Posted' /\ posts # <<>>
      BY <2>1, RemovalKeeps DEF Wave
    <2> DEFINE p == posts[i].to
    <2>3. /\ p \in Machines /\ posts[i].from = latest.at /\ posts[i].held.what = latest.clip
          /\ slot[p] = latest.clip
      BY <1>9, <1>a DEF Wave, Posted, WritesReceived
    <2>4. /\ clip'[p].what = latest.clip /\ clip'[p].from = latest.at
          /\ \A o \in Machines \ {p} : clip'[o] = clip[o] /\ fresh'[o] = fresh[o]
          /\ \A o \in Machines : poll'[o].step = poll[o].step /\ poll'[o].read = poll[o].read
      BY <1>9, <2>3, <1>t DEF WritesReceived, Writes, PollStates
    <2> HIDE DEF p
    <2>5. Polled'
      BY <2>1, <2>3, <2>4 DEF Wave, Polled, Busy, Arrived
    <2> QED
      BY <2>1, <2>2, <2>5 DEF Wave, Queued, Noted
  <1>10. CASE UNCHANGED vars
    <2>1. UNCHANGED <<slot, clip, queue, posts, latest, fresh, poll>>
      BY <1>10 DEF vars
    <2> QED
      BY <2>1, LooksKeep DEF Busy
  <1> QED
    BY <1>1, <1>2, <1>3, <1>4, <1>5, <1>6, <1>7, <1>8, <1>9, <1>10
    DEF Next, Polls, Handles

\* While the user copies only when everything has come to rest, nothing that was
\* received is sent on: the slot that is noted before the clipboard is written
\* breaks the loop, for any number of machines that share with each other.
THEOREM ReceivedIsNotSentOn == ASSUME Calm PROVE Spec => []NoEcho
  <1>1. Init => TypeOK /\ Wave
    BY InitTyped, InitWave
  <1>2. TypeOK /\ Wave /\ [Next]_vars => TypeOK' /\ Wave'
    BY StepTyped, StepWave
  <1>3. Wave => NoEcho
    BY DEF Wave, Posted, NoEcho
  <1> QED
    BY <1>1, <1>2, <1>3, PTL DEF Spec
-----------------------------------------------------------------------------
(* The last copy. *)

\* Until the last copy is on a partner's clipboard something is bound to bring it
\* there: it is still to be read, about to be handed over, waiting, or posted.
Copied == latest.at # Nothing => latest.at \in Machines /\ latest.clip \in Clips
ToBeRead(m) ==
  /\ fresh[m] /\ slot[m] # latest.clip /\ ~Seen(m, latest.clip)
  /\ poll[m].step # "noting" /\ (poll[m].step = "woken" => poll[m].has)
PostedTo(p) == \E i \in 1 .. Len(posts) : posts[i].to = p
OnTheWay(o, p) ==
  \/ clip[p].what = latest.clip
  \/ PostedTo(p)
  \/ queue[o] # <<>>
  \/ poll[o].step = "noting"
  \/ ToBeRead(o)
Spreading ==
  latest.at # Nothing /\ latest.settled =>
    \A p \in enabled[latest.at] : latest.at \in enabled[p] => OnTheWay(latest.at, p)

LEMMA InitSpreads == Init => Copied /\ Spreading
  BY DEF Init, Copied, Spreading

LEMMA StepCopied == TypeOK /\ Copied /\ [Next]_vars => Copied'
  <1> SUFFICES ASSUME TypeOK, Copied, [Next]_vars PROVE Copied'
    OBVIOUS
  <1>1. ASSUME NEW m \in Machines, Copies(m) PROVE Copied'
    BY <1>1 DEF Copies, Copied
  <1>2. ASSUME latest'.at = latest.at, latest'.clip = latest.clip PROVE Copied'
    BY <1>2 DEF Copied
  <1>3. ASSUME NEW m \in Machines, NEW p \in Machines, Toggles(m, p) PROVE Copied'
    BY <1>2, <1>3 DEF Toggles, TypeOK
  <1>4. ASSUME NEW m \in Machines, Polls(m) PROVE Copied'
    BY <1>2, <1>4 DEF Polls, Wakes, Looks, ReadsKnown, ReadsEcho, ReadsNew, ReadFails, Notes, FansOut
  <1>5. ASSUME NEW i \in 1 .. Len(posts), Handles(i) PROVE Copied'
    BY <1>2, <1>5 DEF Handles, Accepts, Refuses, WritesReceived, WriteRefused, TypeOK
  <1>6. CASE UNCHANGED vars
    BY <1>2, <1>6 DEF vars
  <1> QED
    BY <1>1, <1>3, <1>4, <1>5, <1>6 DEF Next

\* A copy that is still to be read stays so until it is about to be handed over.
LEMMA ReadingKeeps ==
  ASSUME TypeOK, Wave, Copied, NEW o \in Machines, o = latest.at, o # Nothing,
         enabled[o] # {}, ToBeRead(o), NEW m \in Machines, Polls(m)
  PROVE  ToBeRead(o)' \/ poll'[o].step = "noting"
  <1>t. /\ fresh \in [Machines -> BOOLEAN] /\ poll \in [Machines -> PollStates]
        /\ last_text \in [Machines -> Texts \cup {Nothing}]
        /\ last_image \in [Machines -> Images \cup {Nothing}]
        /\ slot \in [Machines -> Clips \cup {Nothing}]
    BY DEF TypeOK, PollStates
  <1>1. /\ fresh[o] /\ slot[o] # latest.clip /\ ~Seen(o, latest.clip)
        /\ poll[o].step # "noting" /\ (poll[o].step = "woken" => poll[o].has)
    BY DEF ToBeRead
  <1>2. \A n \in Machines : queue[n] = <<>> /\ poll[n].step # "noting"
    <2>1. queue[o] = <<>>
      BY <1>1 DEF Wave, Noted
    <2>2. ASSUME NEW n \in Machines, n # o PROVE queue[n] = <<>>
      <3>1. queue[n] \in Seq(Held) /\ \A k \in 1 .. Len(queue[n]) : FALSE
        BY <2>2 DEF TypeOK, Wave, Queued
      <3> QED
        BY <3>1, EmptySeq, LenProperties
    <2> QED
      BY <1>1, <2>1, <2>2 DEF Wave, Polled
  <1>3. clip[o].what = latest.clip /\ latest.clip # Nothing
    BY ClipboardAssumption DEF Wave, Polled, Copied
  <1>4. UNCHANGED latest
    BY DEF Polls, Wakes, Looks, ReadsKnown, ReadsEcho, ReadsNew, ReadFails, Notes, FansOut
  <1>5. ASSUME slot'[o] = slot[o], last_text'[o] = last_text[o], last_image'[o] = last_image[o],
               fresh'[o] = fresh[o], poll'[o].step # "noting",
               poll'[o].step = "woken" => poll'[o].has
        PROVE  ToBeRead(o)'
    BY <1>1, <1>4, <1>5 DEF ToBeRead, Seen
  <1>6. CASE m # o
    <2>1. /\ slot'[o] = slot[o] /\ last_text'[o] = last_text[o] /\ last_image'[o] = last_image[o]
          /\ fresh'[o] = fresh[o] /\ poll'[o] = poll[o]
      BY <1>6, <1>t DEF Polls, Wakes, Looks, ReadsKnown, ReadsEcho, ReadsNew, ReadFails, Notes,
                        FansOut, Consumes, Remembers, memory
    <2> QED
      BY <1>1, <1>5, <2>1
  <1>7. CASE m = o
    <2>1. CASE Wakes(o)
      <3>1. poll'[o].step = "woken" /\ poll'[o].has
        BY <2>1, <1>t DEF Wakes, PollStates
      <3> QED
        BY <2>1, <3>1, <1>5 DEF Wakes, memory
    <2>2. CASE Looks(o)
      <3>1. poll[o].has
        BY <1>1, <2>2 DEF Looks
      <3>2. poll'[o].step = "reading" /\ fresh' = fresh
        BY <2>2, <3>1, <1>t DEF Looks, PollStates
      <3> QED
        BY <2>2, <3>2, <1>5 DEF Looks, memory
    <2>3. CASE ReadsNew(o)
      BY <2>3, <1>t DEF ReadsNew, PollStates
    <2>4. CASE ReadFails(o)
      <3>1. poll'[o].step = "idle"
        BY <2>4, <1>t DEF ReadFails, Resting
      <3> QED
        BY <2>4, <3>1, <1>5 DEF ReadFails, memory
    <2>5. ~ReadsKnown(o) /\ ~ReadsEcho(o) /\ ~Notes(o) /\ ~FansOut(o)
      BY <1>1, <1>2, <1>3 DEF ReadsKnown, ReadsEcho, Notes, FansOut
    <2> QED
      BY <1>7, <2>1, <2>2, <2>3, <2>4, <2>5 DEF Polls
  <1> QED
    BY <1>6, <1>7

\* So does a step of the poller, or of a task that fans a clip out.
LEMMA PollingSpreads ==
  ASSUME TypeOK, Wave, Copied, NEW o \in Machines, o = latest.at, o # Nothing,
         NEW p \in enabled[o], OnTheWay(o, p), NEW m \in Machines, Polls(m)
  PROVE  OnTheWay(o, p)'
  <1>t. /\ poll \in [Machines -> PollStates] /\ queue \in [Machines -> Seq(Held)]
        /\ posts \in Seq(Posts) /\ enabled \in [Machines -> SUBSET Machines]
    BY DEF TypeOK, PollStates, Posts
  <1>e. \A s \in Seq(Held) : \A h \in Held : Append(s, h) # <<>>
    BY AppendProperties
  <1>1. UNCHANGED <<clip, latest>>
    BY DEF Polls, Wakes, Looks, ReadsKnown, ReadsEcho, ReadsNew, ReadFails, Notes, FansOut
  <1>2. CASE clip[p].what = latest.clip
    BY <1>1, <1>2 DEF OnTheWay
  <1>3. CASE ToBeRead(o)
    BY <1>3, ReadingKeeps DEF OnTheWay
  <1>4. CASE FansOut(m)
    <2>1. queue[m] # <<>> /\ Head(queue[m]) \in Held
      BY <1>4, <1>t, HeadTailProperties DEF FansOut
    <2> DEFINE q == SetToSeq({Post(m, r, Head(queue[m])) : r \in enabled[m]})
    <2>2. /\ q \in Seq(Posts)
          /\ \A r \in enabled[m] : \E k \in 1 .. Len(q) : q[k] = Post(m, r, Head(queue[m]))
      <3>1. enabled[m] \in SUBSET Machines
        BY <1>t
      <3> QED
        BY <2>1, <3>1, FannedOut
    <2>3. posts' = posts \o q /\ UNCHANGED poll
      BY <1>4 DEF FansOut
    <2> HIDE DEF q
    <2>4. /\ \A j \in 1 .. Len(posts) : \E k \in 1 .. Len(posts') : posts'[k] = posts[j]
          /\ \A j \in 1 .. Len(q) : \E k \in 1 .. Len(posts') : posts'[k] = q[j]
      <3>1. posts \in Seq(Posts) /\ q \in Seq(Posts)
        BY <1>t, <2>2
      <3>2. /\ \A j \in 1 .. Len(posts) : \E k \in 1 .. Len(posts \o q) : (posts \o q)[k] = posts[j]
            /\ \A j \in 1 .. Len(q) : \E k \in 1 .. Len(posts \o q) : (posts \o q)[k] = q[j]
        BY <3>1, JoinedElements
      <3> QED
        BY <2>3, <3>2
    <2>5. CASE PostedTo(p)
      BY <2>4, <2>5 DEF PostedTo, OnTheWay
    <2>6. CASE queue[o] # <<>>
      <3>1. CASE m = o
        <4>1. PICK k \in 1 .. Len(posts') : posts'[k] = Post(o, p, Head(queue[o]))
          BY <2>2, <2>4, <3>1
        <4> QED
          BY <4>1 DEF Post, PostedTo, OnTheWay
      <3>2. CASE m # o
        <4>1. queue'[o] = queue[o]
          BY <1>4, <3>2, <1>t DEF FansOut
        <4> QED
          BY <2>6, <4>1 DEF OnTheWay
      <3> QED
        BY <3>1, <3>2
    <2>7. CASE poll[o].step = "noting"
      BY <2>3, <2>7 DEF OnTheWay
    <2> QED
      BY <1>2, <1>3, <2>5, <2>6, <2>7 DEF OnTheWay
  <1>5. CASE ~FansOut(m)
    <2>1. posts' = posts
      BY <1>5 DEF Polls, Wakes, Looks, ReadsKnown, ReadsEcho, ReadsNew, ReadFails, Notes
    <2>2. queue[o] # <<>> => queue'[o] # <<>>
      <3>1. CASE Notes(m) /\ m = o
        <4>1. queue'[o] = Append(queue[o], poll[o].read) /\ poll[o].read \in Held
          BY <3>1, <1>t DEF Notes, PollStates
        <4> QED
          BY <4>1, <1>t, <1>e
      <3>2. CASE ~(Notes(m) /\ m = o)
        <4>1. queue'[o] = queue[o]
          BY <1>5, <3>2, <1>t DEF Polls, Wakes, Looks, ReadsKnown, ReadsEcho, ReadsNew, ReadFails, Notes
        <4> QED
          BY <4>1
      <3> QED
        BY <3>1, <3>2
    <2>3. CASE poll[o].step = "noting"
      <3>1. CASE m = o
        <4>1. Notes(o)
          BY <1>5, <2>3, <3>1 DEF Polls, Wakes, Looks, ReadsKnown, ReadsEcho, ReadsNew, ReadFails
        <4>2. queue'[o] = Append(queue[o], poll[o].read) /\ poll[o].read \in Held
          BY <4>1, <1>t DEF Notes, PollStates
        <4>3. queue'[o] # <<>>
          BY <4>2, <1>t, <1>e
        <4> QED
          BY <4>3 DEF OnTheWay
      <3>2. CASE m # o
        <4>1. poll'[o] = poll[o]
          BY <1>5, <3>2, <1>t DEF Polls, Wakes, Looks, ReadsKnown, ReadsEcho, ReadsNew, ReadFails,
                                  Notes, Consumes
        <4> QED
          BY <2>3, <4>1 DEF OnTheWay
      <3> QED
        BY <3>1, <3>2
    <2>4. CASE PostedTo(p)
      BY <2>1, <2>4 DEF PostedTo, OnTheWay
    <2>5. CASE queue[o] # <<>>
      BY <2>2, <2>5 DEF OnTheWay
    <2> QED
      BY <1>2, <1>3, <2>3, <2>4, <2>5 DEF OnTheWay
  <1> QED
    BY <1>4, <1>5

\* And a post that is handled leaves the clip on the clipboard it was sent to.
LEMMA HandlingSpreads ==
  ASSUME TypeOK, Wave, Copied, NEW o \in Machines, o = latest.at, o # Nothing,
         NEW p \in Machines, o \in enabled[p], OnTheWay(o, p),
         NEW i \in 1 .. Len(posts), Accepts(i) \/ Refuses(i) \/ WritesReceived(i)
  PROVE  OnTheWay(o, p)'
  <1>t. /\ poll \in [Machines -> PollStates] /\ clip \in [Machines -> Held]
        /\ posts \in Seq(Posts)
    BY DEF TypeOK, PollStates, Posts
  <1>p. \A j \in 1 .. Len(posts) : posts[j] \in Posts
    BY <1>t, ElementOfSeq
  <1>a. \A j \in 1 .. Len(posts) : posts[j].to \in Machines
    BY <1>p DEF Posts
  <1>1. UNCHANGED <<queue, latest>>
    BY DEF Accepts, Refuses, WritesReceived
  <1>2. \A r \in Machines : poll'[r].step = poll[r].step
    BY <1>a, <1>t DEF Accepts, Refuses, WritesReceived, Writes, PollStates
  <1>3. \A r \in Machines : clip[r].what = latest.clip => clip'[r].what = latest.clip
    <2>1. posts[i].held.what = latest.clip
      BY DEF Wave, Posted
    <2>2. CASE WritesReceived(i)
      BY <1>a, <1>t, <2>1, <2>2 DEF WritesReceived, Writes
    <2>3. CASE ~WritesReceived(i)
      BY <2>3 DEF Accepts, Refuses
    <2> QED
      BY <2>2, <2>3
  <1>4. ~ToBeRead(o)
    <2>1. posts # <<>>
      BY <1>t, EmptySeq
    <2> QED
      BY <2>1 DEF ToBeRead, Wave, Noted
  <1>5. ASSUME PostedTo(p) PROVE OnTheWay(o, p)'
    <2>1. PICK j \in 1 .. Len(posts) : posts[j].to = p
      BY <1>5 DEF PostedTo
    <2>2. CASE Accepts(i)
      <3>1. [posts[i] EXCEPT !.stage = "noted"] \in Posts
        BY <1>p DEF Posts
      <3>2. posts' = [posts EXCEPT ![i] = [posts[i] EXCEPT !.stage = "noted"]]
        BY <2>2 DEF Accepts
      <3>3. /\ Len(posts') = Len(posts)
            /\ \A k \in 1 .. Len(posts) :
                 posts'[k] = IF k = i THEN [posts[i] EXCEPT !.stage = "noted"] ELSE posts[k]
        BY <1>t, <3>1, <3>2, ExceptSeq
      <3>4. posts'[j].to = p
        BY <1>p, <2>1, <3>3 DEF Posts
      <3> QED
        BY <2>1, <3>3, <3>4 DEF PostedTo, OnTheWay
    <2>3. CASE posts' = RemoveAt(posts, i) /\ j # i
      <3>1. PICK k \in 1 .. Len(posts') : posts'[k] = posts[j]
        BY <1>t, <2>3, RemovedElements
      <3> QED
        BY <2>1, <3>1 DEF PostedTo, OnTheWay
    <2>4. CASE Refuses(i) /\ j = i
      <3>1. posts[i].from = o
        BY DEF Wave, Posted
      <3> QED
        BY <2>1, <2>4, <3>1 DEF Refuses
    <2>5. CASE WritesReceived(i) /\ j = i
      <3>1. posts[i].held.what = latest.clip
        BY DEF Wave, Posted
      <3>2. clip'[p].what = latest.clip
        BY <2>1, <2>5, <3>1, <1>t DEF WritesReceived, Writes
      <3> QED
        BY <1>1, <3>2 DEF OnTheWay
    <2> QED
      BY <2>2, <2>3, <2>4, <2>5 DEF Refuses, WritesReceived
  <1> QED
    BY <1>1, <1>2, <1>3, <1>4, <1>5 DEF OnTheWay

\* Every step leaves the last copy where it is or brings it nearer.
LEMMA StepSpreads ==
  ASSUME Calm
  PROVE  TypeOK /\ Wave /\ Copied /\ Spreading /\ [Next]_vars => Spreading'
  <1> SUFFICES ASSUME TypeOK, Wave, Copied, Spreading, [Next]_vars,
                      latest'.at # Nothing, latest'.settled,
                      NEW p \in enabled'[latest'.at], latest'.at \in enabled'[p]
               PROVE  OnTheWay(latest.at, p)'
    BY DEF Spreading
  <1>1. ASSUME NEW m \in Machines, Copies(m) PROVE OnTheWay(latest.at, p)'
    <2>1. PICK c \in Clips :
            /\ Writes(m, [what |-> c, from |-> m, private |-> enabled[m] = {}])
            /\ latest' = [at |-> m, clip |-> c, settled |-> slot[m] # c /\ ~Seen(m, c)]
      BY <1>1 DEF Copies
    <2>2. latest'.at = m /\ latest'.clip = c /\ slot[m] # c /\ ~Seen(m, c)
      BY <2>1
    <2>3. fresh'[m] /\ poll'[m].step = "idle"
      BY <1>1, <2>1 DEF Copies, Rest, Writes, TypeOK
    <2>4. slot' = slot /\ last_text' = last_text /\ last_image' = last_image
      BY <1>1 DEF Copies, memory
    <2>5. ToBeRead(m)'
      BY <2>2, <2>3, <2>4 DEF ToBeRead, Seen
    <2> QED
      BY <2>2, <2>5 DEF OnTheWay
  <1>2. ASSUME NEW m \in Machines, NEW r \in Machines, Toggles(m, r) PROVE FALSE
    BY <1>2 DEF Toggles, TypeOK
  <1>3. ASSUME NEW i \in 1 .. Len(posts), WriteRefused(i) PROVE FALSE
    BY <1>3 DEF WriteRefused, TypeOK
  <1>4. ASSUME UNCHANGED <<enabled, latest>>
        PROVE  /\ latest'.at = latest.at /\ latest.at \in Machines /\ latest.at # Nothing
               /\ p \in enabled[latest.at] /\ p \in Machines /\ latest.at \in enabled[p]
               /\ OnTheWay(latest.at, p)
    BY <1>4 DEF Spreading, Copied, TypeOK
  <1>5. ASSUME NEW m \in Machines, Polls(m) PROVE OnTheWay(latest.at, p)'
    <2>1. UNCHANGED <<enabled, latest>>
      BY <1>5 DEF Polls, Wakes, Looks, ReadsKnown, ReadsEcho, ReadsNew, ReadFails, Notes, FansOut
    <2>2. PICK o \in Machines : o = latest.at
      BY <2>1, <1>4
    <2>3. OnTheWay(o, p)'
      BY <1>4, <1>5, <2>1, <2>2, PollingSpreads
    <2> QED
      BY <2>1, <2>2, <2>3 DEF OnTheWay
  <1>6. ASSUME NEW i \in 1 .. Len(posts), Accepts(i) \/ Refuses(i) \/ WritesReceived(i)
        PROVE  OnTheWay(latest.at, p)'
    <2>1. UNCHANGED <<enabled, latest>>
      BY <1>6 DEF Accepts, Refuses, WritesReceived
    <2>2. PICK o \in Machines : o = latest.at
      BY <2>1, <1>4
    <2>3. OnTheWay(o, p)'
      BY <1>4, <1>6, <2>1, <2>2, HandlingSpreads
    <2> QED
      BY <2>1, <2>2, <2>3 DEF OnTheWay
  <1>7. CASE UNCHANGED vars
    <2>1. UNCHANGED <<enabled, latest, slot, clip, fresh, poll, last_text, last_image, queue, posts>>
      BY <1>7 DEF vars, memory
    <2> QED
      BY <1>4, <2>1 DEF OnTheWay, PostedTo, ToBeRead, Seen
  <1> QED
    BY <1>1, <1>2, <1>3, <1>5, <1>6, <1>7 DEF Next, Handles

\* When everything has come to rest, nothing is to be read, waits or is posted: so
\* the last copy is on the clipboard of everyone who shares with the machine it was
\* made on. This holds whatever order the posts arrive in and whatever the size of
\* the network, while the user copies only at rest.
THEOREM LastCopyArrives == ASSUME Calm PROVE Spec => []LastCopySpreads
  <1>1. Init => TypeOK /\ Wave /\ Copied /\ Spreading
    BY InitTyped, InitWave, InitSpreads
  <1>2. TypeOK /\ Wave /\ Copied /\ Spreading /\ [Next]_vars
          => TypeOK' /\ Wave' /\ Copied' /\ Spreading'
    BY StepTyped, StepWave, StepCopied, StepSpreads
  <1>3. TypeOK /\ Copied /\ Spreading => LastCopySpreads
    <2> SUFFICES ASSUME Copied, Spreading, Rest, latest.at # Nothing, latest.settled,
                        NEW p \in enabled[latest.at], latest.at \in enabled[p]
                 PROVE  clip[p].what = latest.clip
      BY DEF LastCopySpreads
    <2>1. latest.at \in Machines /\ OnTheWay(latest.at, p)
      BY DEF Copied, Spreading
    <2>2. ~PostedTo(p)
      BY EmptySeq DEF PostedTo, Rest
    <2> QED
      BY <2>1, <2>2 DEF OnTheWay, ToBeRead, Rest
  <1> QED
    BY <1>1, <1>2, <1>3, PTL DEF Spec
=============================================================================
