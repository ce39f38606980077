---------------------------- MODULE TopologyProofs ----------------------------
(* What the lists of outputs and apply_layout with its rescue keep, for any      *)
(* monitors, adapters and numberings: the list is what Windows shows, nothing    *)
(* remembered is lost, the requests name all that was asked for at connectors    *)
(* that are there, and a rescue that fails puts back what was shown.             *)
EXTENDS Topology, FiniteSetTheorems, SequenceTheorems, WellFoundedInduction, TLAPS

-----------------------------------------------------------------------------
(* What recursions over a list compute. *)

\* Induction over the naturals, for a set: the least number outside it, if there were
\* one, would have its predecessor inside.
LEMMA SetInduction ==
  ASSUME NEW S, 0 \in S, \A n \in Nat : n \in S => n + 1 \in S
  PROVE  Nat \subseteq S
  <1> DEFINE T == Nat \ S
             R == OpToRel(<, Nat)
  <1> SUFFICES ASSUME T # {} PROVE FALSE
    OBVIOUS
  <1>1. IsWellFoundedOn(R, Nat)
    BY NatLessThanWellFounded
  <1>2. T \subseteq Nat
    OBVIOUS
  <1>3. PICK x \in T : \A y \in T : ~ (<<y, x>> \in R)
    <2> HIDE DEF T, R
    <2> QED
      BY <1>1, <1>2, WFMin
  <1>4. \A y \in T : ~(y < x)
    BY <1>3 DEF OpToRel
  <1>5. x # 0 /\ x - 1 \in Nat
    OBVIOUS
  <1>6. x - 1 \in S
    BY <1>4, <1>5
  <1> QED
    BY <1>5, <1>6

\* f holds what the first steps of G make of b, up to the n-th.
Iterates(f, b, n, G) == f[0] = b /\ \A k \in 1 .. n : f[k] = G[k][f[k - 1]]

\* Such a function exists, so a recursive definition by steps means what it says.
LEMMA RecursionExists ==
  ASSUME NEW S, NEW b \in S, NEW n \in Nat, NEW G \in [1 .. n -> [S -> S]]
  PROVE  \E f \in [0 .. n -> S] : Iterates(f, b, n, G)
  <1> DEFINE T == {m \in Nat : m <= n => \E f \in [0 .. m -> S] : Iterates(f, b, m, G)}
  <1>1. 0 \in T
    <2>1. /\ [k \in 0 .. 0 |-> b] \in [0 .. 0 -> S]
          /\ Iterates([k \in 0 .. 0 |-> b], b, 0, G)
      BY DEF Iterates
    <2> QED
      BY <2>1
  <1>2. ASSUME NEW m \in Nat, m \in T PROVE m + 1 \in T
    <2> SUFFICES ASSUME m + 1 <= n PROVE \E f \in [0 .. m + 1 -> S] : Iterates(f, b, m + 1, G)
      OBVIOUS
    <2>1. PICK f \in [0 .. m -> S] : Iterates(f, b, m, G)
      BY <1>2
    <2> DEFINE g == [k \in 0 .. m + 1 |-> IF k = m + 1 THEN G[m + 1][f[m]] ELSE f[k]]
    <2>2. G[m + 1][f[m]] \in S
      OBVIOUS
    <2>3. g \in [0 .. m + 1 -> S]
      BY <2>2
    <2>4. (\A k \in 0 .. m : g[k] = f[k]) /\ g[m + 1] = G[m + 1][f[m]]
      OBVIOUS
    <2> HIDE DEF g
    <2>5. \A k \in 1 .. m : g[k] = G[k][g[k - 1]]
      BY <2>1, <2>4 DEF Iterates
    <2>6. g[m + 1] = G[m + 1][g[m]]
      BY <2>4
    <2>7. Iterates(g, b, m + 1, G)
      BY <2>1, <2>4, <2>5, <2>6 DEF Iterates
    <2> QED
      BY <2>3, <2>7
  <1>3. n \in T
    <2> HIDE DEF T
    <2> QED
      BY <1>1, <1>2, SetInduction
  <1> QED
    BY <1>3

-----------------------------------------------------------------------------
(* Lists of outputs. *)

\* An output is at a connector of a monitor and has that monitor's hash, or none.
Outputs == {o \in [at : Monitors \X Nat, edid : Monitors \cup {None}, enabled : BOOLEAN] :
              o.edid \in {None, o.at[1]}}

\* No connector twice; no connector twice with the same hash, or without one.
Unique(l) == \A i, j \in DOMAIN l : l[i].at = l[j].at => i = j
Distinct(l) == \A i, j \in DOMAIN l : Id(l[i]) = Id(l[j]) => i = j

LEMMA OutputShape ==
  ASSUME NEW o \in Outputs
  PROVE  /\ o = [at |-> o.at, edid |-> o.edid, enabled |-> o.enabled]
         /\ o.at \in Monitors \X Nat /\ o.at[1] \in Monitors
         /\ o.edid \in {None, o.at[1]} /\ o.enabled \in BOOLEAN
  BY DEF Outputs

LEMMA IsOutput ==
  ASSUME NEW a \in Monitors \X Nat, NEW e \in {None, a[1]}, NEW b \in BOOLEAN
  PROVE  [at |-> a, edid |-> e, enabled |-> b] \in Outputs
  BY DEF Outputs

LEMMA ListShape ==
  ASSUME NEW S, NEW l \in Seq(S)
  PROVE  Len(l) \in Nat /\ DOMAIN l = 1 .. Len(l) /\ \A i \in DOMAIN l : l[i] \in S
  BY ElementOfSeq, LenProperties

LEMMA IsList ==
  ASSUME NEW S, NEW n \in Nat, NEW l \in [1 .. n -> S]
  PROVE  l \in Seq(S) /\ Len(l) = n
  <1>1. l \in Seq(S)
    BY SeqDef
  <1> QED
    BY <1>1, LenProperties

\* One more output, at a connector that has none.
LEMMA AppendNew ==
  ASSUME NEW l \in Seq(Outputs), NEW o \in Outputs
  PROVE  /\ Append(l, o) \in Seq(Outputs)
         /\ Connectors(Append(l, o)) = Connectors(l) \cup {o.at}
         /\ Unique(l) /\ o.at \notin Connectors(l) => Unique(Append(l, o))
         /\ ToSet(Append(l, o)) = ToSet(l) \cup {o}
  <1> DEFINE m == Append(l, o)
             n == Len(l)
  <1>1. n \in Nat /\ DOMAIN l = 1 .. n
    BY ListShape
  <1>2. m \in Seq(Outputs) /\ Len(m) = n + 1 /\ m[n + 1] = o /\ \A i \in 1 .. n : m[i] = l[i]
    BY <1>1, AppendProperties
  <1>3. DOMAIN m = 1 .. n + 1
    BY <1>2, ListShape
  <1> HIDE DEF m, n
  <1>4. Connectors(m) = Connectors(l) \cup {o.at}
    BY <1>1, <1>2, <1>3 DEF Connectors
  <1>5. Unique(l) /\ o.at \notin Connectors(l) => Unique(m)
    BY <1>1, <1>2, <1>3 DEF Unique, Connectors
  <1>6. ToSet(m) = ToSet(l) \cup {o}
    BY <1>1, <1>2, <1>3 DEF ToSet
  <1> QED
    BY <1>2, <1>4, <1>5, <1>6 DEF m

\* push_output_preferring_known_edid.
LEMMA PushKeeps ==
  ASSUME NEW l \in Seq(Outputs), NEW o \in Outputs
  PROVE  /\ Push(l, o) \in Seq(Outputs)
         /\ Connectors(Push(l, o)) = Connectors(l) \cup {o.at}
         /\ Unique(l) => Unique(Push(l, o))
         /\ ToSet(Push(l, o)) \subseteq ToSet(l) \cup {o}
  <1>1. CASE o.at \notin Connectors(l)
    BY <1>1, AppendNew DEF Push
  <1>2. CASE o.at \in Connectors(l)
    <2> DEFINE p == [i \in DOMAIN l |-> IF l[i].at = o.at /\ l[i].edid = None /\ o.edid # None
                                        THEN o ELSE l[i]]
               n == Len(l)
    <2>1. n \in Nat /\ DOMAIN l = 1 .. n /\ \A i \in DOMAIN l : l[i] \in Outputs
      BY ListShape
    <2>2. Push(l, o) = p
      BY <1>2 DEF Push
    <2>3. p \in [1 .. n -> Outputs]
      BY <2>1
    <2>4. \A i \in DOMAIN l : p[i] \in {l[i], o} /\ p[i].at = l[i].at
      OBVIOUS
    <2>5. DOMAIN p = DOMAIN l
      OBVIOUS
    <2> HIDE DEF p, n
    <2>6. p \in Seq(Outputs)
      BY <2>1, <2>3, IsList
    <2>7. Connectors(p) = Connectors(l) /\ (Unique(l) => Unique(p))
      BY <2>4, <2>5 DEF Connectors, Unique
    <2>8. ToSet(p) \subseteq ToSet(l) \cup {o}
      BY <2>4, <2>5 DEF ToSet
    <2> QED
      BY <1>2, <2>2, <2>6, <2>7, <2>8
  <1> QED
    BY <1>1, <1>2

-----------------------------------------------------------------------------
(* What an enumeration lists. *)

\* Connectors of the numbering e; and of one numbering, whichever it is.
Of(e, raw) == \A c \in raw : c[2] = e
OneEra(raw) == \E e \in Nat : Of(e, raw)

\* What Windows reports while it numbers the adapters by e: its paths are of that
\* numbering, and something is on.
Reported(e, s) == /\ s = [raw |-> s.raw, layout |-> s.layout]
                  /\ Of(e, s.raw) /\ \E c \in On(s.layout) : c[2] = e

\* A finite set as a sequence: each of its elements, once.
LEMMA ListsOnce ==
  ASSUME NEW S, IsFiniteSet(S)
  PROVE  LET q == SetToSeq(S)
         IN  /\ q \in Seq(S) /\ S = {q[i] : i \in DOMAIN q}
             /\ \A i, j \in DOMAIN q : q[i] = q[j] => i = j
  <1> DEFINE n == Cardinality(S)
             q == SetToSeq(S)
             R == {q[i] : i \in 1 .. n}
  <1>1. n \in Nat /\ ExistsBijection(1 .. n, S)
    BY FS_CardinalityType
  <1>2. PICK f : f \in Bijection(1 .. n, S)
    BY <1>1 DEF ExistsBijection
  <1>3. f \in [1 .. n -> S] /\ IsInjective(f)
    BY <1>2 DEF Bijection, Injection
  <1>4. q \in [1 .. n -> S] /\ IsInjective(q)
    BY <1>3 DEF SetToSeq
  <1> HIDE DEF q, n
  <1>5. q \in Seq(S) /\ DOMAIN q = 1 .. n
    BY <1>1, <1>4, IsList
  <1>6. \A i, j \in 1 .. n : q[i] = q[j] => i = j
    BY <1>4 DEF IsInjective
  <1>7. R = S
    <2>1. R \subseteq S
      BY <1>4
    <2>2. q \in Bijection(1 .. n, R)
      <3>1. q \in [1 .. n -> R]
        BY <1>4
      <3>2. \A r \in R : \E i \in 1 .. n : q[i] = r
        OBVIOUS
      <3> QED
        BY <1>6, <3>1, <3>2 DEF Bijection, Injection, Surjection, IsInjective
    <2>3. IsFiniteSet(R) /\ Cardinality(R) <= Cardinality(S)
          /\ (Cardinality(R) = Cardinality(S) => R = S)
      BY <2>1, FS_Subset
    <2>4. Cardinality(R) = n
      <3>1. ExistsBijection(1 .. n, R)
        BY <2>2 DEF ExistsBijection
      <3> QED
        BY <1>1, <2>3, <3>1, FS_CountingElements
    <2> QED
      BY <2>3, <2>4 DEF n
  <1> QED
    BY <1>5, <1>6, <1>7 DEF q

\* One list after another, at other connectors.
LEMMA Concatenates ==
  ASSUME NEW a \in Seq(Outputs), NEW b \in Seq(Outputs)
  PROVE  /\ a \o b \in Seq(Outputs)
         /\ Connectors(a \o b) = Connectors(a) \cup Connectors(b)
         /\ ToSet(a \o b) = ToSet(a) \cup ToSet(b)
         /\ Unique(a) /\ Unique(b) /\ Connectors(a) \cap Connectors(b) = {} => Unique(a \o b)
  <1> DEFINE c == a \o b
             m == Len(a)
             n == Len(b)
  <1>1. m \in Nat /\ n \in Nat /\ DOMAIN a = 1 .. m /\ DOMAIN b = 1 .. n
    BY ListShape
  <1>2. /\ c \in Seq(Outputs) /\ Len(c) = m + n
        /\ \A i \in 1 .. m + n : c[i] = IF i <= m THEN a[i] ELSE b[i - m]
    BY ConcatProperties
  <1>3. DOMAIN c = 1 .. m + n
    BY <1>2, ListShape
  <1> HIDE DEF c, m, n
  <1>4. /\ \A i \in DOMAIN a : i \in DOMAIN c /\ c[i] = a[i]
        /\ \A j \in DOMAIN b : m + j \in DOMAIN c /\ c[m + j] = b[j]
        /\ \A k \in DOMAIN c : \/ k \in DOMAIN a /\ c[k] = a[k]
                               \/ k - m \in DOMAIN b /\ c[k] = b[k - m]
    BY <1>1, <1>2, <1>3
  <1>5. Connectors(c) = Connectors(a) \cup Connectors(b)
    BY <1>4 DEF Connectors
  <1>6. ToSet(c) = ToSet(a) \cup ToSet(b)
    BY <1>4 DEF ToSet
  <1>7. ASSUME Unique(a), Unique(b), Connectors(a) \cap Connectors(b) = {} PROVE Unique(c)
    <2> SUFFICES ASSUME NEW i \in DOMAIN c, NEW j \in DOMAIN c, c[i].at = c[j].at PROVE i = j
      BY DEF Unique
    <2>1. CASE i <= m /\ j <= m
      BY <1>1, <1>2, <1>3, <1>7, <2>1 DEF Unique
    <2>2. CASE ~(i <= m) /\ ~(j <= m)
      <3>1. i - m \in DOMAIN b /\ j - m \in DOMAIN b /\ b[i - m].at = b[j - m].at
        BY <1>1, <1>2, <1>3, <2>2
      <3>2. i - m = j - m
        BY <1>7, <3>1 DEF Unique
      <3> QED
        BY <1>1, <1>3, <3>2
    <2>3. ASSUME NEW x \in DOMAIN c, NEW y \in DOMAIN c, x <= m, ~(y <= m), c[x].at = c[y].at
          PROVE  FALSE
      <3>1. x \in DOMAIN a /\ y - m \in DOMAIN b /\ a[x].at = b[y - m].at
        BY <1>1, <1>2, <1>3, <2>3
      <3>2. a[x].at \in Connectors(a) /\ b[y - m].at \in Connectors(b)
        BY <3>1 DEF Connectors
      <3> QED
        BY <1>7, <3>1, <3>2
    <2> QED
      BY <2>1, <2>2, <2>3
  <1> QED
    BY <1>2, <1>5, <1>6, <1>7 DEF c

\* What is listed while Windows numbers the adapters by e and shows w.
Listing(e, w, l) ==
  /\ l \in Seq(Outputs) /\ Unique(l)
  /\ \A i \in DOMAIN l : l[i].at[2] = e /\ l[i].enabled = (l[i].at[1] \in w)
  /\ {<<m, e>> : m \in w} \subseteq Connectors(l)

\* A snapshot of Windows as it is: the paths are those of the list.
LEMMA SnapshotLists ==
  ASSUME NEW e \in Nat, NEW w \in SUBSET Monitors, NEW d \in SUBSET (Monitors \ w),
         NEW h \in SUBSET (Monitors \ (w \cup d)), NEW u
  PROVE  LET s == Snapshot(e, w, d, h, u)
         IN  /\ s = [raw |-> s.raw, layout |-> s.layout]
             /\ Listing(e, w, s.layout) /\ s.raw \subseteq Connectors(s.layout)
             /\ Of(e, s.raw)
  <1> DEFINE Out(m) == [at |-> <<m, e>>, edid |-> IF m \in u THEN None ELSE m, enabled |-> m \in w]
             Listed(S) == LET q == SetToSeq(S) IN [i \in DOMAIN q |-> Out(q[i])]
             At(S) == {<<m, e>> : m \in S}
             s == Snapshot(e, w, d, h, u)
  <1>1. ASSUME NEW m \in Monitors
        PROVE  Out(m) \in Outputs /\ Out(m).at = <<m, e>> /\ Out(m).enabled = (m \in w)
    <2>1. <<m, e>>[1] = m /\ <<m, e>> \in Monitors \X Nat
      OBVIOUS
    <2>2. (IF m \in u THEN None ELSE m) \in {None, m} /\ (m \in w) \in BOOLEAN
      OBVIOUS
    <2>3. Out(m) \in Outputs
      BY <2>1, <2>2 DEF Outputs
    <2> QED
      BY <2>3
  <1> HIDE DEF Out
  <1>2. ASSUME NEW S \in SUBSET Monitors
        PROVE  /\ Listed(S) \in Seq(Outputs) /\ Unique(Listed(S)) /\ Connectors(Listed(S)) = At(S)
               /\ \A o \in ToSet(Listed(S)) : o.at[2] = e /\ o.enabled = (o.at[1] \in w)
    <2> DEFINE q == SetToSeq(S)
               l == [i \in DOMAIN q |-> Out(q[i])]
    <2>1. IsFiniteSet(S)
      BY MonitorsAssumption, FS_Subset
    <2>2. /\ q \in Seq(S) /\ S = {q[i] : i \in DOMAIN q}
          /\ \A i, j \in DOMAIN q : q[i] = q[j] => i = j
      BY <2>1, ListsOnce
    <2> HIDE DEF q
    <2>3. Len(q) \in Nat /\ DOMAIN q = 1 .. Len(q) /\ \A i \in DOMAIN q : q[i] \in S
      BY <2>2, ListShape
    <2>4. DOMAIN l = DOMAIN q /\ \A i \in DOMAIN q : l[i] = Out(q[i])
      OBVIOUS
    <2>5. l \in [1 .. Len(q) -> Outputs]
      BY <1>1, <2>3
    <2> HIDE DEF l
    <2>6. l \in Seq(Outputs)
      BY <2>3, <2>5, IsList
    <2>7. \A i \in DOMAIN q : l[i].at = <<q[i], e>> /\ l[i].enabled = (q[i] \in w)
      BY <1>1, <2>3, <2>4
    <2>8. Connectors(l) = At(S)
      <3>1. Connectors(l) = {<<q[i], e>> : i \in DOMAIN q}
        BY <2>4, <2>7 DEF Connectors
      <3> QED
        BY <2>2, <3>1
    <2>9. Unique(l)
      BY <2>2, <2>4, <2>7 DEF Unique
    <2>10. \A o \in ToSet(l) : o.at[2] = e /\ o.enabled = (o.at[1] \in w)
      BY <2>4, <2>7 DEF ToSet
    <2> QED
      BY <2>6, <2>8, <2>9, <2>10 DEF l, q
  <1> DEFINE a == Listed(w)
             b == Listed(d)
             c == Listed(h)
  <1>3. s = [raw |-> At(w \cup d), layout |-> a \o b \o c]
    BY DEF Snapshot, Out
  <1> HIDE DEF Listed, s
  <1>4. At(w) \cap At(d) = {} /\ (At(w) \cup At(d)) \cap At(h) = {} /\ At(w \cup d) = At(w) \cup At(d)
    OBVIOUS
  <1>5. /\ a \in Seq(Outputs) /\ b \in Seq(Outputs) /\ c \in Seq(Outputs)
        /\ Unique(a) /\ Unique(b) /\ Unique(c)
        /\ Connectors(a) = At(w) /\ Connectors(b) = At(d) /\ Connectors(c) = At(h)
        /\ \A o \in ToSet(a) \cup ToSet(b) \cup ToSet(c) : o.at[2] = e /\ o.enabled = (o.at[1] \in w)
    BY <1>2
  <1> HIDE DEF a, b, c, At
  <1>6. /\ a \o b \in Seq(Outputs) /\ Unique(a \o b) /\ Connectors(a \o b) = At(w) \cup At(d)
        /\ ToSet(a \o b) = ToSet(a) \cup ToSet(b)
    BY <1>4, <1>5, Concatenates
  <1> DEFINE ab == a \o b
  <1> HIDE DEF ab
  <1>7. /\ ab \o c \in Seq(Outputs) /\ Unique(ab \o c)
        /\ Connectors(ab \o c) = At(w) \cup At(d) \cup At(h)
        /\ ToSet(ab \o c) = ToSet(a) \cup ToSet(b) \cup ToSet(c)
    <2>1. ab \in Seq(Outputs) /\ Unique(ab) /\ Connectors(ab) \cap Connectors(c) = {}
      BY <1>4, <1>5, <1>6 DEF ab
    <2>2. /\ ab \o c \in Seq(Outputs) /\ Unique(ab \o c)
          /\ Connectors(ab \o c) = Connectors(ab) \cup Connectors(c)
          /\ ToSet(ab \o c) = ToSet(ab) \cup ToSet(c)
      BY <1>5, <2>1, Concatenates
    <2> QED
      BY <1>5, <1>6, <2>2 DEF ab
  <1> DEFINE l == ab \o c
  <1> HIDE DEF l
  <1>8. s = [raw |-> At(w \cup d), layout |-> l]
    BY <1>3 DEF ab, l
  <1>9. \A i \in DOMAIN l : l[i].at[2] = e /\ l[i].enabled = (l[i].at[1] \in w)
    <2>1. \A i \in DOMAIN l : l[i] \in ToSet(l)
      BY DEF ToSet
    <2> QED
      BY <1>5, <1>7, <2>1 DEF l
  <1>10. Listing(e, w, l)
    BY <1>7, <1>9 DEF Listing, l, At
  <1>11. s.raw = At(w) \cup At(d) /\ s.layout = l /\ s = [raw |-> s.raw, layout |-> s.layout]
    BY <1>4, <1>8
  <1>12. Of(e, s.raw)
    BY <1>11 DEF Of, At
  <1> QED
    BY <1>7, <1>10, <1>11, <1>12 DEF s, l

\* And so what either query answers.
LEMMA EnumerationLists ==
  ASSUME NEW e \in Nat, NEW p \in SUBSET Monitors, NEW w \in SUBSET p,
         NEW s \in Enumerations(e, p, w) \cup ActiveOnly(e, w)
  PROVE  /\ s = [raw |-> s.raw, layout |-> s.layout]
         /\ Listing(e, w, s.layout) /\ s.raw \subseteq Connectors(s.layout)
         /\ Of(e, s.raw)
  <1>1. \E d \in SUBSET (Monitors \ w) : \E h \in SUBSET (Monitors \ (w \cup d)) :
          \E u : s = Snapshot(e, w, d, h, u)
    <2>1. CASE s \in Enumerations(e, p, w)
      <3>1. PICK d \in SUBSET (p \ w) : \E h \in SUBSET ((p \ w) \ d) : \E u :
              s = Snapshot(e, w, d, h, u)
        BY <2>1 DEF Enumerations, Enriched, Seeded
      <3> QED
        BY <3>1
    <2>2. CASE s \in ActiveOnly(e, w)
      BY <2>2 DEF ActiveOnly
    <2> QED
      BY <2>1, <2>2
  <1>2. PICK d \in SUBSET (Monitors \ w) : \E h \in SUBSET (Monitors \ (w \cup d)) :
          \E u : s = Snapshot(e, w, d, h, u)
    BY <1>1
  <1>3. PICK h \in SUBSET (Monitors \ (w \cup d)) : \E u : s = Snapshot(e, w, d, h, u)
    BY <1>2
  <1>4. PICK u : s = Snapshot(e, w, d, h, u)
    BY <1>3
  <1> QED
    BY <1>4, SnapshotLists

\* What is on in such a list is what Windows shows.
LEMMA ListingOn ==
  ASSUME NEW e, NEW w, NEW l, Listing(e, w, l)
  PROVE  On(l) = {<<m, e>> : m \in w}
  <1>1. ASSUME NEW i \in DOMAIN l PROVE l[i].at = <<l[i].at[1], e>>
    <2>1. l[i].at \in Monitors \X Nat
      BY ListShape, OutputShape DEF Listing
    <2> QED
      BY <2>1 DEF Listing
  <1>2. ASSUME NEW c \in On(l) PROVE c \in {<<m, e>> : m \in w}
    <2>1. PICK i \in DOMAIN l : l[i].enabled /\ c = l[i].at
      BY DEF On
    <2> QED
      BY <1>1, <2>1 DEF Listing
  <1>3. ASSUME NEW m \in w PROVE <<m, e>> \in On(l)
    <2>1. PICK i \in DOMAIN l : l[i].at = <<m, e>>
      BY DEF Listing, Connectors
    <2>2. l[i].at[1] = m
      BY <2>1
    <2> QED
      BY <2>1, <2>2 DEF Listing, On
  <1> QED
    BY <1>2, <1>3

\* Something is on in what either query answers, at a connector of the numbering.
LEMMA EnumerationReported ==
  ASSUME NEW e \in Nat, NEW p \in SUBSET Monitors, NEW w \in SUBSET p, w # {},
         NEW s \in Enumerations(e, p, w) \cup ActiveOnly(e, w)
  PROVE  Reported(e, s)
  <1>1. s = [raw |-> s.raw, layout |-> s.layout] /\ Listing(e, w, s.layout) /\ Of(e, s.raw)
    BY EnumerationLists
  <1>2. On(s.layout) = {<<m, e>> : m \in w}
    BY <1>1, ListingOn
  <1>3. \E c \in On(s.layout) : c[2] = e
    <2>1. PICK m \in w : <<m, e>> \in On(s.layout)
      BY <1>2
    <2>2. <<m, e>>[2] = e
      OBVIOUS
    <2> QED
      BY <2>1, <2>2
  <1> QED
    BY <1>1, <1>3 DEF Reported

\* Paths of one numbering that cover what is on are of the numbering of today.
LEMMA CoveringIsCurrent ==
  ASSUME NEW e, NEW s, Reported(e, s), NEW raw, OneEra(raw), Covers(raw, s.layout)
  PROVE  Of(e, raw)
  BY DEF Reported, OneEra, Of, Covers

\* What is remembered after an enumeration is of one numbering.
LEMMA MergedIsOneEra ==
  ASSUME NEW e \in Nat, NEW s, Reported(e, s), NEW previous, previous # None => OneEra(previous.raw)
  PROVE  OneEra(MergeSnapshot(previous, s).raw)
  <1>1. CASE MergeSnapshot(previous, s) = s
    BY <1>1 DEF Reported, OneEra
  <1>2. CASE previous # None /\ MergeSnapshot(previous, s) = [s EXCEPT !.raw = previous.raw]
    <2>1. MergeSnapshot(previous, s).raw = previous.raw
      BY <1>2 DEF Reported
    <2> QED
      BY <1>2, <2>1
  <1> QED
    BY <1>1, <1>2 DEF MergeSnapshot

-----------------------------------------------------------------------------
(* What the merge of two lists keeps. *)

\* The output in the list, or the off one there was.
LEMMA KeptShape ==
  ASSUME NEW o \in Outputs, NEW fresh \in Seq(Outputs)
  PROVE  /\ Kept(o, fresh) \in Outputs /\ Kept(o, fresh).at = o.at
         /\ \/ \E i \in DOMAIN fresh : /\ fresh[i].at = o.at
                                       /\ fresh[i].enabled = Kept(o, fresh).enabled
            \/ /\ o.at \notin Connectors(fresh)
               /\ ~Kept(o, fresh).enabled /\ Kept(o, fresh).edid = o.edid
  <1>0. /\ o = [at |-> o.at, edid |-> o.edid, enabled |-> o.enabled]
        /\ o.at \in Monitors \X Nat /\ o.edid \in {None, o.at[1]} /\ o.enabled \in BOOLEAN
    BY OutputShape
  <1>1. CASE o.at \in Connectors(fresh)
    <2> DEFINE f == CHOOSE f \in ToSet(fresh) : f.at = o.at
               k == Kept(o, fresh)
    <2>1. \E f1 \in ToSet(fresh) : f1.at = o.at
      BY <1>1 DEF Connectors, ToSet
    <2>2. f \in ToSet(fresh) /\ f.at = o.at
      BY <2>1
    <2>3. k = IF f.edid = None THEN [f EXCEPT !.edid = o.edid] ELSE f
      BY <1>1 DEF Kept, Fresher
    <2> HIDE DEF f, k
    <2>4. PICK i \in DOMAIN fresh : fresh[i] = f
      BY <2>2 DEF ToSet
    <2>5. f \in Outputs
      BY <2>4, ListShape
    <2>6. /\ f = [at |-> f.at, edid |-> f.edid, enabled |-> f.enabled]
          /\ f.at \in Monitors \X Nat /\ f.edid \in {None, f.at[1]} /\ f.enabled \in BOOLEAN
      BY <2>5, OutputShape
    <2>7. CASE f.edid = None
      <3>1. k = [at |-> f.at, edid |-> o.edid, enabled |-> f.enabled]
        BY <2>3, <2>6, <2>7
      <3>2. k \in Outputs
        BY <1>0, <2>2, <2>6, <3>1, IsOutput
      <3> QED
        BY <2>2, <2>4, <3>1, <3>2 DEF k
    <2>8. CASE f.edid # None
      BY <2>2, <2>3, <2>4, <2>5, <2>8 DEF k
    <2> QED
      BY <2>7, <2>8
  <1>2. CASE o.at \notin Connectors(fresh)
    <2>1. Kept(o, fresh) = [at |-> o.at, edid |-> o.edid, enabled |-> FALSE]
      BY <1>0, <1>2 DEF Kept
    <2>2. Kept(o, fresh) \in Outputs
      BY <1>0, <2>1, IsOutput
    <2>3. Kept(o, fresh).at = o.at /\ ~Kept(o, fresh).enabled /\ Kept(o, fresh).edid = o.edid
      BY <2>1
    <2> QED
      BY <1>2, <2>2, <2>3
  <1> QED
    BY <1>1, <1>2

\* An output of the merged list is as it is listed, or an off one that is not, remembered
\* and no stale duplicate.
Merged(x, previous, fresh, raw) ==
  \/ \E i \in DOMAIN fresh : fresh[i].at = x.at /\ fresh[i].enabled = x.enabled
  \/ /\ x.at \notin Connectors(fresh) /\ ~x.enabled
     /\ \E i \in DOMAIN previous : /\ ~StaleDuplicate(previous[i], fresh, raw)
                                   /\ previous[i].at = x.at /\ previous[i].edid = x.edid

\* The outputs of a list of them, each connector once.
Merges(l, previous, fresh, raw) ==
  l \in Seq(Outputs) /\ Unique(l) /\ \A x \in ToSet(l) : Merged(x, previous, fresh, raw)

\* One more of those remembered.
LEMMA OneMoreKept ==
  ASSUME NEW previous \in Seq(Outputs), NEW fresh \in Seq(Outputs), NEW raw,
         NEW l, Merges(l, previous, fresh, raw), NEW i \in DOMAIN previous,
         ~StaleDuplicate(previous[i], fresh, raw)
  PROVE  LET p == Push(l, Kept(previous[i], fresh))
         IN  /\ Merges(p, previous, fresh, raw)
             /\ Connectors(p) = Connectors(l) \cup {previous[i].at}
  <1> DEFINE o == previous[i]
             k == Kept(o, fresh)
             p == Push(l, k)
  <1>1. o \in Outputs
    BY ListShape
  <1>2. /\ k \in Outputs /\ k.at = o.at
        /\ \/ \E j \in DOMAIN fresh : fresh[j].at = o.at /\ fresh[j].enabled = k.enabled
           \/ o.at \notin Connectors(fresh) /\ ~k.enabled /\ k.edid = o.edid
    BY <1>1, KeptShape
  <1>3. Merged(k, previous, fresh, raw)
    BY <1>2 DEF Merged
  <1> HIDE DEF k
  <1>4. /\ p \in Seq(Outputs) /\ Connectors(p) = Connectors(l) \cup {k.at}
        /\ Unique(p) /\ ToSet(p) \subseteq ToSet(l) \cup {k}
    BY <1>2, PushKeeps DEF Merges
  <1>5. Merges(p, previous, fresh, raw)
    BY <1>3, <1>4 DEF Merges
  <1> QED
    BY <1>2, <1>4, <1>5 DEF k

\* merge_layout_with_fresh: a list of outputs, as they are listed or else off; with
\* everything that is listed, and all that was remembered but stale duplicates.
LEMMA MergeKeeps ==
  ASSUME NEW previous \in Seq(Outputs), NEW fresh \in Seq(Outputs), NEW raw
  PROVE  LET l == MergeLayout(previous, fresh, raw)
         IN  /\ Merges(l, previous, fresh, raw)
             /\ Connectors(fresh) \subseteq Connectors(l)
             /\ \A i \in DOMAIN previous :
                  StaleDuplicate(previous[i], fresh, raw) \/ previous[i].at \in Connectors(l)
  <1> DEFINE S == Seq(Outputs)
             m == Len(previous)
             n == Len(fresh)
             Stale(k) == StaleDuplicate(previous[k], fresh, raw)
             Keep1(l, k) == IF Stale(k) THEN l ELSE Push(l, Kept(previous[k], fresh))
             Keep(f) == [k \in 0 .. m |-> IF k = 0 THEN <<>> ELSE Keep1(f[k - 1], k)]
             kept == CHOOSE f : f = Keep(f)
             Add1(l, k) == IF fresh[k].at \in Connectors(l) THEN l ELSE Append(l, fresh[k])
             Merge(f) == [k \in 0 .. n |-> IF k = 0 THEN kept[m] ELSE Add1(f[k - 1], k)]
             merged == CHOOSE f : f = Merge(f)
             OK(l) == Merges(l, previous, fresh, raw)
  <1>0. MergeLayout(previous, fresh, raw) = merged[n]
    BY DEF MergeLayout
  <1>1. /\ m \in Nat /\ n \in Nat /\ DOMAIN previous = 1 .. m /\ DOMAIN fresh = 1 .. n
        /\ \A k \in 1 .. m : previous[k] \in Outputs
        /\ \A k \in 1 .. n : fresh[k] \in Outputs
    BY ListShape
  <1>2. <<>> \in S
    OBVIOUS
  <1> HIDE DEF m, n, S
  <1>3. kept[0] = <<>> /\ \A k \in 1 .. m : kept[k] = Keep1(kept[k - 1], k)
    <2> DEFINE G == [k \in 1 .. m |-> [l \in S |-> Keep1(l, k)]]
    <2>1. ASSUME NEW k \in 1 .. m, NEW l \in S PROVE Keep1(l, k) \in S
      <3>1. Kept(previous[k], fresh) \in Outputs
        BY <1>1, KeptShape
      <3> QED
        BY <3>1, PushKeeps DEF S
    <2> HIDE DEF Keep1
    <2>2. G \in [1 .. m -> [S -> S]]
      BY <2>1
    <2>3. \A k \in 1 .. m : \A l \in S : G[k][l] = Keep1(l, k)
      OBVIOUS
    <2> HIDE DEF G
    <2>4. PICK g \in [0 .. m -> S] : Iterates(g, <<>>, m, G)
      BY <1>1, <1>2, <2>2, RecursionExists
    <2>5. g[0] = <<>> /\ \A k \in 1 .. m : g[k] = G[k][g[k - 1]] /\ g[k - 1] \in S
      BY <1>1, <2>4 DEF Iterates
    <2>6. \A k \in 1 .. m : g[k] = Keep1(g[k - 1], k)
      BY <2>3, <2>5
    <2>7. g = Keep(g)
      BY <1>1, <2>4, <2>5, <2>6
    <2>8. kept = Keep(kept)
      <3> HIDE DEF Keep
      <3> QED
        BY <2>7
    <2> HIDE DEF kept
    <2> QED
      BY <1>1, <2>8
  <1> HIDE DEF kept
  <1>4. /\ kept[0] = <<>>
        /\ \A k \in 1 .. m : kept[k] = IF Stale(k) THEN kept[k - 1]
                                       ELSE Push(kept[k - 1], Kept(previous[k], fresh))
    BY <1>3
  <1> HIDE DEF Keep1
  <1>5. /\ OK(kept[m])
        /\ \A i \in 1 .. m : StaleDuplicate(previous[i], fresh, raw) \/ previous[i].at \in Connectors(kept[m])
    <2> DEFINE All(k) == \A i \in 1 .. k : \/ StaleDuplicate(previous[i], fresh, raw)
                                           \/ previous[i].at \in Connectors(kept[k])
               T == {k \in Nat : k <= m => OK(kept[k]) /\ All(k)}
    <2>1. 0 \in T
      <3>1. Unique(<<>>) /\ ToSet(<<>>) = {}
        BY DEF Unique, ToSet
      <3>2. OK(<<>>)
        BY <1>2, <3>1 DEF Merges, S
      <3> QED
        BY <1>4, <3>2
    <2>2. ASSUME NEW k \in Nat, k \in T PROVE k + 1 \in T
      <3> SUFFICES ASSUME k + 1 <= m PROVE OK(kept[k + 1]) /\ All(k + 1)
        OBVIOUS
      <3>0. k + 1 \in 1 .. m /\ (k + 1) - 1 = k
        BY <1>1
      <3>1. OK(kept[k]) /\ All(k) /\ k + 1 \in DOMAIN previous
        BY <1>1, <2>2
      <3>2. CASE StaleDuplicate(previous[k + 1], fresh, raw)
        <4>1. kept[k + 1] = kept[k]
          BY <1>4, <3>0, <3>2
        <4> QED
          BY <3>1, <3>2, <4>1
      <3>3. CASE ~StaleDuplicate(previous[k + 1], fresh, raw)
        <4>1. kept[k + 1] = Push(kept[k], Kept(previous[k + 1], fresh))
          BY <1>4, <3>0, <3>3
        <4>2. /\ OK(kept[k + 1])
              /\ Connectors(kept[k + 1]) = Connectors(kept[k]) \cup {previous[k + 1].at}
          BY <3>1, <3>3, <4>1, OneMoreKept
        <4> QED
          BY <3>1, <4>2
      <3> QED
        BY <3>2, <3>3
    <2>3. m \in T
      <3> HIDE DEF T
      <3> QED
        BY <1>1, <2>1, <2>2, SetInduction
    <2> QED
      BY <1>1, <2>3
  <1>6. merged[0] = kept[m] /\ \A k \in 1 .. n : merged[k] = Add1(merged[k - 1], k)
    <2> DEFINE G == [k \in 1 .. n |-> [l \in S |-> Add1(l, k)]]
    <2>1. ASSUME NEW k \in 1 .. n, NEW l \in S PROVE Add1(l, k) \in S
      BY <1>1, AppendNew DEF S
    <2> HIDE DEF Add1
    <2>2. G \in [1 .. n -> [S -> S]]
      BY <2>1
    <2>3. \A k \in 1 .. n : \A l \in S : G[k][l] = Add1(l, k)
      OBVIOUS
    <2> HIDE DEF G
    <2>4. kept[m] \in S
      BY <1>5 DEF Merges, S
    <2>5. PICK g \in [0 .. n -> S] : Iterates(g, kept[m], n, G)
      BY <1>1, <2>2, <2>4, RecursionExists
    <2>6. g[0] = kept[m] /\ \A k \in 1 .. n : g[k] = G[k][g[k - 1]] /\ g[k - 1] \in S
      BY <1>1, <2>5 DEF Iterates
    <2>7. \A k \in 1 .. n : g[k] = Add1(g[k - 1], k)
      BY <2>3, <2>6
    <2>8. g = Merge(g)
      BY <1>1, <2>5, <2>6, <2>7
    <2>9. merged = Merge(merged)
      <3> HIDE DEF Merge
      <3> QED
        BY <2>8
    <2> HIDE DEF merged
    <2> QED
      BY <1>1, <2>9
  <1> HIDE DEF merged
  <1>7. /\ merged[0] = kept[m]
        /\ \A k \in 1 .. n :
             /\ fresh[k].at \in Connectors(merged[k - 1]) => merged[k] = merged[k - 1]
             /\ fresh[k].at \notin Connectors(merged[k - 1]) => merged[k] = Append(merged[k - 1], fresh[k])
    BY <1>6
  <1> HIDE DEF Add1
  <1>8. /\ OK(merged[n]) /\ Connectors(kept[m]) \subseteq Connectors(merged[n])
        /\ \A i \in 1 .. n : fresh[i].at \in Connectors(merged[n])
    <2> DEFINE All(k) == /\ Connectors(kept[m]) \subseteq Connectors(merged[k])
                         /\ \A i \in 1 .. k : fresh[i].at \in Connectors(merged[k])
               T == {k \in Nat : k <= n => OK(merged[k]) /\ All(k)}
    <2>1. 0 \in T
      BY <1>5, <1>7
    <2>2. ASSUME NEW k \in Nat, k \in T PROVE k + 1 \in T
      <3> SUFFICES ASSUME k + 1 <= n PROVE OK(merged[k + 1]) /\ All(k + 1)
        OBVIOUS
      <3>0. k + 1 \in 1 .. n /\ (k + 1) - 1 = k
        BY <1>1
      <3>1. OK(merged[k]) /\ All(k) /\ k + 1 \in DOMAIN fresh /\ fresh[k + 1] \in Outputs
        BY <1>1, <2>2
      <3>2. CASE fresh[k + 1].at \in Connectors(merged[k])
        <4>1. merged[k + 1] = merged[k]
          BY <1>7, <3>0, <3>2
        <4> QED
          BY <3>1, <3>2, <4>1
      <3>3. CASE fresh[k + 1].at \notin Connectors(merged[k])
        <4>1. merged[k + 1] = Append(merged[k], fresh[k + 1])
          BY <1>7, <3>0, <3>3
        <4>2. /\ merged[k + 1] \in Seq(Outputs) /\ Unique(merged[k + 1])
              /\ Connectors(merged[k + 1]) = Connectors(merged[k]) \cup {fresh[k + 1].at}
              /\ ToSet(merged[k + 1]) = ToSet(merged[k]) \cup {fresh[k + 1]}
          BY <3>1, <3>3, <4>1, AppendNew DEF Merges
        <4>3. Merged(fresh[k + 1], previous, fresh, raw)
          BY <3>1 DEF Merged
        <4> QED
          BY <3>1, <4>2, <4>3 DEF Merges
      <3> QED
        BY <3>2, <3>3
    <2>3. n \in T
      <3> HIDE DEF T
      <3> QED
        BY <1>1, <2>1, <2>2, SetInduction
    <2> QED
      BY <1>1, <2>3
  <1>9. Connectors(fresh) \subseteq Connectors(merged[n])
    BY <1>1, <1>8 DEF Connectors
  <1> QED
    BY <1>0, <1>1, <1>5, <1>8, <1>9

\* The merge with what Windows lists turns on what it shows, has each connector once and
\* each monitor listed with its hash once; and what was remembered is still in the list.
LEMMA MergeLists ==
  ASSUME NEW e \in Nat, NEW w, NEW previous \in Seq(Outputs), NEW fresh, Listing(e, w, fresh),
         NEW raw, raw \subseteq Connectors(fresh)
  PROVE  LET l == MergeLayout(previous, fresh, raw)
         IN  /\ l \in Seq(Outputs) /\ Unique(l) /\ On(l) = {<<m, e>> : m \in w}
             /\ \A i, j \in DOMAIN l : \A k \in DOMAIN fresh :
                  l[i].edid = l[j].edid /\ fresh[k].edid = l[i].edid => i = j \/ l[i].edid = None
             /\ \A m \in Monitors : Remembers(previous, m) => Remembers(l, m)
  <1> DEFINE l == MergeLayout(previous, fresh, raw)
  <1>1. fresh \in Seq(Outputs) /\ Unique(fresh)
    BY DEF Listing
  <1>2. /\ Merges(l, previous, fresh, raw)
        /\ Connectors(fresh) \subseteq Connectors(l)
        /\ \A i \in DOMAIN previous :
             StaleDuplicate(previous[i], fresh, raw) \/ previous[i].at \in Connectors(l)
    BY <1>1, MergeKeeps
  <1> HIDE DEF l
  <1>3. l \in Seq(Outputs) /\ Unique(l) /\ \A i \in DOMAIN l : Merged(l[i], previous, fresh, raw)
    BY <1>2 DEF Merges, ToSet
  <1>4. /\ \A i \in DOMAIN l : l[i] \in Outputs
        /\ \A i \in DOMAIN fresh : fresh[i] \in Outputs
        /\ \A i \in DOMAIN previous : previous[i] \in Outputs
    BY <1>1, <1>3, ListShape
  <1>5. On(l) = On(fresh)
    <2>1. ASSUME NEW i \in DOMAIN l, l[i].enabled PROVE l[i].at \in On(fresh)
      BY <1>3, <2>1 DEF Merged, On
    <2>2. ASSUME NEW i \in DOMAIN fresh, fresh[i].enabled PROVE fresh[i].at \in On(l)
      <3>1. PICK j \in DOMAIN l : l[j].at = fresh[i].at
        BY <1>2 DEF Connectors
      <3>2. PICK k \in DOMAIN fresh : fresh[k].at = l[j].at /\ fresh[k].enabled = l[j].enabled
        BY <1>3, <3>1 DEF Merged, Connectors
      <3>3. k = i
        BY <1>1, <3>1, <3>2 DEF Unique
      <3> QED
        BY <2>2, <3>1, <3>2, <3>3 DEF On
    <2> QED
      BY <2>1, <2>2 DEF On
  <1>6. ASSUME NEW i \in DOMAIN l, NEW k \in DOMAIN fresh, fresh[k].edid = l[i].edid, l[i].edid # None
        PROVE  l[i].at = fresh[k].at
    <2>1. l[i].at \in Monitors \X Nat /\ l[i].at[1] = l[i].edid
      BY <1>4, <1>6, OutputShape
    <2>2. fresh[k].at \in Monitors \X Nat /\ fresh[k].at[1] = l[i].edid /\ fresh[k].at[2] = e
      BY <1>4, <1>6, OutputShape DEF Listing
    <2>3. CASE l[i].at \in Connectors(fresh)
      <3>1. l[i].at[2] = e
        BY <2>3 DEF Connectors, Listing
      <3> QED
        BY <2>1, <2>2, <3>1
    <2>4. CASE l[i].at \notin Connectors(fresh)
      <3>1. PICK j \in DOMAIN previous : /\ ~StaleDuplicate(previous[j], fresh, raw)
                                         /\ previous[j].at = l[i].at /\ previous[j].edid = l[i].edid
        BY <1>3, <2>4 DEF Merged, Connectors
      <3> QED
        BY <1>6, <2>4, <3>1 DEF StaleDuplicate
    <2> QED
      BY <2>3, <2>4
  <1>7. \A i, j \in DOMAIN l : \A k \in DOMAIN fresh :
          l[i].edid = l[j].edid /\ fresh[k].edid = l[i].edid => i = j \/ l[i].edid = None
    <2> SUFFICES ASSUME NEW i \in DOMAIN l, NEW j \in DOMAIN l, NEW k \in DOMAIN fresh,
                        l[i].edid = l[j].edid, fresh[k].edid = l[i].edid, l[i].edid # None
                 PROVE  i = j
      OBVIOUS
    <2>1. l[i].at = l[j].at
      BY <1>6
    <2> QED
      BY <1>3, <2>1 DEF Unique
  <1>8. ASSUME NEW m \in Monitors, Remembers(previous, m) PROVE Remembers(l, m)
    <2>1. PICK i \in DOMAIN previous : previous[i].at[1] = m
      BY <1>8 DEF Remembers
    <2>2. \E c \in Connectors(l) : c[1] = m
      <3>1. CASE previous[i].at \in Connectors(l)
        BY <2>1, <3>1
      <3>2. CASE StaleDuplicate(previous[i], fresh, raw)
        <4>1. PICK k \in DOMAIN fresh : fresh[k].edid = previous[i].edid /\ previous[i].edid # None
          BY <3>2 DEF StaleDuplicate
        <4>2. fresh[k].at[1] = m
          BY <1>4, <2>1, <4>1, OutputShape
        <4>3. fresh[k].at \in Connectors(l)
          BY <1>2 DEF Connectors
        <4> QED
          BY <4>2, <4>3
      <3> QED
        BY <1>2, <3>1, <3>2
    <2> QED
      BY <2>2 DEF Remembers, Connectors
  <1> QED
    BY <1>3, <1>5, <1>7, <1>8, ListingOn DEF l

-----------------------------------------------------------------------------
(* What the remapping of a layout keeps. *)

\* Whichever candidate is chosen, it is one of them.
LEMMA Replaces ==
  ASSUME NEW o, NEW current, NEW used, NEW enumerated, NEW c \in Replacements(o, current, used, enumerated)
  PROVE  /\ c \in ToSet(current) /\ Id(c) \notin used
         /\ o.edid # None => c.edid = o.edid
  <1> DEFINE unused == {d \in ToSet(current) : Id(d) \notin used}
             same == {d \in unused : IF o.edid # None THEN d.edid = o.edid
                                     ELSE TargetId(d.at) = TargetId(o.at)}
  <1>1. c \in Chosen(same, enumerated)
    BY DEF Replacements
  <1>2. c \in same
    <2> HIDE DEF same
    <2> QED
      BY <1>1 DEF Chosen
  <1> QED
    BY <1>2

\* remap_layout_display_ids_for_snapshot: output by output, each at its own connector or
\* that of an output listed, with its hash if it has one, and no two at the same.
LEMMA RemapKeeps ==
  ASSUME NEW desired \in Seq(Outputs), Distinct(desired), NEW current \in Seq(Outputs), NEW enumerated
  PROVE  LET l == Remap(desired, current, enumerated)
         IN  /\ l \in Seq(Outputs) /\ DOMAIN l = DOMAIN desired /\ Distinct(l)
             /\ \A i \in DOMAIN l : /\ l[i].enabled = desired[i].enabled
                                    /\ desired[i].edid # None => l[i].edid = desired[i].edid
  <1> DEFINE n == Len(desired)
             known == Ids(desired) \cap Ids(current)
             Found(o, used) == IF Id(o) \in known THEN {} ELSE Replacements(o, current, used, enumerated)
             More(u, k) == u \cup {Id(c) : c \in Found(desired[k], u)}
             Take(f) == [k \in 0 .. n |-> IF k = 0 THEN known ELSE More(f[k - 1], k)]
             taken == CHOOSE f : f = Take(f)
             Replaced(o, r) ==
               IF r = {} THEN o
               ELSE LET c == CHOOSE c \in r : TRUE IN [o EXCEPT !.at = c.at, !.edid = c.edid]
             R(k) == Found(desired[k], taken[k - 1])
             l == [k \in DOMAIN desired |-> Replaced(desired[k], R(k))]
  <1>0. Remap(desired, current, enumerated) = IF Ids(desired) \subseteq Ids(current) THEN desired ELSE l
    BY DEF Remap
  <1>1. /\ n \in Nat /\ DOMAIN desired = 1 .. n
        /\ \A k \in 1 .. n : desired[k] \in Outputs /\ Id(desired[k]) \in Ids(desired)
        /\ \A c \in ToSet(current) : c \in Outputs /\ Id(c) \in Ids(current)
    BY ListShape DEF Ids, ToSet
  <1> HIDE DEF n
  <1>2. ASSUME NEW o, NEW u, NEW c \in Found(o, u)
        PROVE  /\ c \in Outputs /\ Id(c) \in Ids(current) /\ Id(c) \notin u
               /\ o.edid # None => c.edid = o.edid
    BY <1>1, Replaces
  <1>3. \A o : Id(o) \in known => \A u : Found(o, u) = {}
    OBVIOUS
  <1> HIDE DEF Found
  <1>4. taken[0] = known /\ \A k \in 1 .. n : taken[k] = More(taken[k - 1], k)
    <2> DEFINE S == SUBSET (Ids(desired) \cup Ids(current))
               G == [k \in 1 .. n |-> [u \in S |-> More(u, k)]]
    <2>1. ASSUME NEW k \in 1 .. n, NEW u \in S PROVE More(u, k) \in S
      BY <1>2
    <2>2. known \in S
      OBVIOUS
    <2> HIDE DEF More, S, known
    <2>3. G \in [1 .. n -> [S -> S]]
      BY <2>1
    <2>4. \A k \in 1 .. n : \A u \in S : G[k][u] = More(u, k)
      OBVIOUS
    <2> HIDE DEF G
    <2>5. PICK g \in [0 .. n -> S] : Iterates(g, known, n, G)
      BY <1>1, <2>2, <2>3, RecursionExists
    <2>6. g[0] = known /\ \A k \in 1 .. n : g[k] = G[k][g[k - 1]] /\ g[k - 1] \in S
      BY <1>1, <2>5 DEF Iterates
    <2>7. \A k \in 1 .. n : g[k] = More(g[k - 1], k)
      BY <2>4, <2>6
    <2>8. g = Take(g)
      BY <1>1, <2>5, <2>6, <2>7
    <2>9. taken = Take(taken)
      <3> HIDE DEF Take
      <3> QED
        BY <2>8
    <2> HIDE DEF taken
    <2> QED
      BY <1>1, <2>9
  <1> HIDE DEF taken
  <1>5. ASSUME NEW k \in 1 .. n
        PROVE  taken[k - 1] \subseteq taken[k] /\ \A c \in R(k) : Id(c) \in taken[k]
    BY <1>4
  <1>6. \A k \in 0 .. n : \A j \in 0 .. k : taken[j] \subseteq taken[k]
    <2> DEFINE T == {k \in Nat : k <= n => \A j \in 0 .. k : taken[j] \subseteq taken[k]}
    <2>1. 0 \in T
      OBVIOUS
    <2>2. ASSUME NEW k \in Nat, k \in T PROVE k + 1 \in T
      <3> SUFFICES ASSUME k + 1 <= n, NEW j \in 0 .. k + 1 PROVE taken[j] \subseteq taken[k + 1]
        OBVIOUS
      <3>1. k + 1 \in 1 .. n /\ (k + 1) - 1 = k
        BY <1>1
      <3>2. taken[k] \subseteq taken[k + 1]
        BY <1>5, <3>1
      <3>3. CASE j \in 0 .. k
        BY <1>1, <2>2, <3>2, <3>3
      <3>4. CASE j = k + 1
        BY <3>4
      <3> QED
        BY <3>3, <3>4
    <2>3. Nat \subseteq T
      <3> HIDE DEF T
      <3> QED
        BY <2>1, <2>2, SetInduction
    <2> QED
      BY <1>1, <2>3
  <1>7. ASSUME NEW k \in 1 .. n, R(k) # {}
        PROVE  \E c \in R(k) : /\ l[k] = [at |-> c.at, edid |-> c.edid, enabled |-> desired[k].enabled]
                               /\ Id(l[k]) = Id(c) /\ l[k] \in Outputs
                               /\ desired[k].edid # None => l[k].edid = desired[k].edid
    <2> DEFINE c == CHOOSE c \in R(k) : TRUE
    <2>1. c \in R(k)
      BY <1>7
    <2>2. l[k] = [desired[k] EXCEPT !.at = c.at, !.edid = c.edid]
      BY <1>1, <1>7
    <2> HIDE DEF c, l
    <2>3. c \in Outputs /\ (desired[k].edid # None => c.edid = desired[k].edid)
      BY <1>2, <2>1
    <2>4. l[k] = [at |-> c.at, edid |-> c.edid, enabled |-> desired[k].enabled]
      <3>1. desired[k] = [at |-> desired[k].at, edid |-> desired[k].edid, enabled |-> desired[k].enabled]
        BY <1>1, OutputShape
      <3> QED
        BY <2>2, <3>1
    <2>5. l[k] \in Outputs
      <3>1. c.at \in Monitors \X Nat /\ c.edid \in {None, c.at[1]} /\ desired[k].enabled \in BOOLEAN
        BY <1>1, <2>3, OutputShape
      <3> QED
        BY <2>4, <3>1, IsOutput
    <2>6. l[k].at = c.at /\ l[k].edid = c.edid
      BY <2>4
    <2> QED
      BY <2>1, <2>3, <2>4, <2>5, <2>6 DEF Id
  <1>8. \A k \in 1 .. n : R(k) = {} => l[k] = desired[k]
    BY <1>1
  <1>9. DOMAIN l = 1 .. n
    BY <1>1
  <1> HIDE DEF l
  <1>10. \A k \in 1 .. n : /\ l[k] \in Outputs /\ l[k].enabled = desired[k].enabled
                           /\ desired[k].edid # None => l[k].edid = desired[k].edid
    <2> SUFFICES ASSUME NEW k \in 1 .. n
                 PROVE  /\ l[k] \in Outputs /\ l[k].enabled = desired[k].enabled
                        /\ desired[k].edid # None => l[k].edid = desired[k].edid
      OBVIOUS
    <2>1. CASE R(k) = {}
      BY <1>1, <1>8, <2>1
    <2>2. CASE R(k) # {}
      <3>1. PICK c \in R(k) : /\ l[k] = [at |-> c.at, edid |-> c.edid, enabled |-> desired[k].enabled]
                              /\ l[k] \in Outputs
                              /\ desired[k].edid # None => l[k].edid = desired[k].edid
        BY <1>7, <2>2
      <3>2. l[k].enabled = desired[k].enabled
        BY <3>1
      <3> QED
        BY <3>1, <3>2
    <2> QED
      BY <2>1, <2>2
  <1>11. ASSUME NEW i \in 1 .. n, NEW j \in 1 .. n, i < j PROVE Id(l[i]) # Id(l[j])
    <2>1. /\ known \subseteq taken[i - 1] /\ known \subseteq taken[j - 1]
          /\ taken[i] \subseteq taken[j - 1]
      BY <1>1, <1>4, <1>6, <1>11
    <2>2. ASSUME NEW k \in 1 .. n, R(k) # {}
          PROVE  /\ Id(l[k]) \in Ids(current) /\ Id(l[k]) \notin taken[k - 1]
                 /\ Id(l[k]) \in taken[k]
      <3>1. PICK c \in R(k) : Id(l[k]) = Id(c)
        BY <1>7, <2>2
      <3> QED
        BY <1>2, <1>5, <3>1
    <2> SUFFICES ASSUME Id(l[i]) = Id(l[j]) PROVE FALSE
      OBVIOUS
    <2>3. CASE R(i) = {} /\ R(j) = {}
      BY <1>1, <1>8, <1>11, <2>3 DEF Distinct
    <2>4. CASE R(i) # {} /\ R(j) # {}
      BY <2>1, <2>2, <2>4
    <2>5. CASE R(i) = {} /\ R(j) # {}
      <3>1. Id(l[j]) \in known
        BY <1>1, <1>8, <2>2, <2>5
      <3> QED
        BY <2>1, <2>2, <2>5, <3>1
    <2>6. CASE R(i) # {} /\ R(j) = {}
      <3>1. Id(l[i]) \in known
        BY <1>1, <1>8, <2>2, <2>6
      <3> QED
        BY <2>1, <2>2, <2>6, <3>1
    <2> QED
      BY <2>3, <2>4, <2>5, <2>6
  <1>12. l \in Seq(Outputs)
    <2>1. l \in [1 .. n -> Outputs]
      <3>1. l = [k \in 1 .. n |-> l[k]]
        BY <1>1 DEF l
      <3> QED
        BY <1>10, <3>1
    <2> QED
      BY <1>1, <2>1, IsList
  <1>13. Distinct(l)
    BY <1>1, <1>9, <1>11 DEF Distinct
  <1> QED
    BY <1>0, <1>1, <1>9, <1>10, <1>12, <1>13

-----------------------------------------------------------------------------
(* The invariant. *)

\* Something is shown, of what is plugged in.
ScreenOK == /\ era \in Nat /\ plugged \subseteq Monitors
            /\ shown \subseteq plugged /\ shown # {}

\* The net of a rescue is known from the moment it touches the screen on, and is
\* never empty.
Untouched == {"idle", "applies", "sets", "captures"}
Rescuing == {"attaches", "extends", "switches", "attached", "extended", "switched",
             "finishes", "restores", "unrestored"}
Shaped(a) == a = [at |-> a.at, work |-> a.work, base |-> a.base, active |-> a.active,
                  batch |-> a.batch, pre |-> a.pre, aim |-> a.aim,
                  hashed |-> a.hashed, upset |-> a.upset]
Netted ==
  /\ Shaped(apply)
  /\ \/ apply.at \in Untouched /\ apply.pre = {}
     \/ apply.at \in Rescuing /\ apply.pre # {}

\* No paths of two numberings are remembered together, nor gone out on,
OfOneEra == (last_snapshot # None => OneEra(last_snapshot.raw)) /\ OneEra(apply.base)

\* and those that go out are of the numbering of today.
Current == /\ apply.at = "sets" /\ ~apply.upset => Of(era, apply.base)
           /\ apply.at = "finishes" /\ ~apply.upset => Of(era, apply.active)

\* What is remembered are lists of outputs.
Listed == /\ last_layout \in Seq(Outputs)
          /\ last_snapshot # None => last_snapshot.layout \in Seq(Outputs)

\* The layout of an apply has no output twice; with all its hashes known it still turns
\* on every monitor asked for; and it goes out on paths that hold all it turns on.
Works(a) ==
  /\ a.work \in Seq(Outputs) /\ Distinct(a.work)
  /\ a.hashed => /\ \A i \in DOMAIN a.work : a.work[i].edid # None
                 /\ a.aim \subseteq {c[1] : c \in On(a.work)}
  /\ a.at = "sets" => On(a.work) \subseteq a.base
  /\ a.at = "finishes" => On(a.work) \subseteq a.active
Worked == Works(apply)

TopologyInv == ScreenOK /\ Netted /\ OfOneEra /\ Current /\ Listed /\ Worked

\* No apply is under way.
LEMMA IdleShape ==
  /\ Shaped(Idle)
  /\ Idle.at = "idle" /\ Idle.pre = {} /\ Idle.base = {}
  BY DEF Idle, Shaped

\* An apply that goes back to its net.
LEMMA RestoreShape ==
  /\ Shaped(Restore)
  /\ Restore.at = "restores" /\ Restore.pre = apply.pre /\ Restore.base = {}
  <1>1. \E p, u : p = apply.pre /\ Restore = [Idle EXCEPT !.at = "restores", !.pre = p, !.upset = u]
    BY DEF Restore
  <1> QED
    BY <1>1, IdleShape DEF Shaped

\* The rung after each.
LEMMA RungShape ==
  ASSUME Shaped(apply), apply.at \in DOMAIN Rung
  PROVE  \/ apply.at = "attached" /\ Rung[apply.at] = [apply EXCEPT !.at = "extends"]
         \/ apply.at = "extended" /\ Rung[apply.at] = [apply EXCEPT !.at = "switches"]
         \/ apply.at = "switched" /\ Rung[apply.at] = Restore
  <1>1. apply.at \in {"attached", "extended", "switched"}
    BY DEF Rung
  <1>2. /\ Rung["attached"] = [apply EXCEPT !.at = "extends"]
        /\ Rung["extended"] = [apply EXCEPT !.at = "switches"]
        /\ Rung["switched"] = Restore
    BY DEF Rung
  <1> QED
    BY <1>1, <1>2

\* What is enumerated while the invariant holds.
LEMMA ReportedNow ==
  ASSUME ScreenOK, NEW s \in Enumerations(era, plugged, shown) \cup ActiveOnly(era, shown)
  PROVE  Reported(era, s) /\ OneEra(s.raw)
  BY EnumerationReported DEF ScreenOK, Reported, OneEra

\* What Windows follows is shown then, and is not nothing.
LEMMA FollowedShows ==
  ASSUME ScreenOK, NEW request, Follows(request)
  PROVE  ScreenOK'
  BY DEF ScreenOK, Follows

LEMMA StepScreen == ScreenOK /\ Netted /\ [Next]_vars => ScreenOK'
  <1> SUFFICES ASSUME ScreenOK, Netted, [Next]_vars PROVE ScreenOK'
    OBVIOUS
  <1>1. ASSUME NEW m \in Monitors, Plugs(m) \/ Unplugs(m) PROVE ScreenOK'
    BY <1>1 DEF ScreenOK, Plugs, Unplugs
  <1>2. CASE Wakes
    BY <1>2 DEF ScreenOK, Wakes
  <1>3. CASE Lists \/ Invalidates \/ Toggles \/ AppliesProfile \/ RollsBack \/ Begins
             \/ Captures \/ Settles \/ GivesUp \/ UNCHANGED vars
    BY <1>3 DEF ScreenOK, Lists, Invalidates, Toggles, AppliesProfile, RollsBack, Begins,
       Captures, Settles, GivesUp, vars, windows, Waits
  <1>4. CASE Sets
    BY <1>4, FollowedShows DEF ScreenOK, Sets, windows
  <1>5. CASE Attaches
    BY <1>5, FollowedShows DEF ScreenOK, Attaches, windows
  <1>6. CASE Extends \/ Switches
    BY <1>6 DEF ScreenOK, Extends, Switches
  <1>7. CASE Finishes
    BY <1>7, FollowedShows DEF ScreenOK, Finishes, windows
  <1>8. CASE Restores
    <2>1. apply.pre # {}
      BY <1>8 DEF Restores, Netted, Untouched
    <2> QED
      BY <1>8, <2>1 DEF ScreenOK, Restores
  <1> QED
    BY <1>1, <1>2, <1>3, <1>4, <1>5, <1>6, <1>7, <1>8 DEF Next

\* A rescue that goes on keeps its net; one that goes back to it as well.
LEMMA StaysNetted ==
  ASSUME Netted, apply.at \in Rescuing, NEW a \in Rescuing,
         Shaped(apply'), apply'.at = a, apply'.pre = apply.pre
  PROVE  Netted'
  BY DEF Netted, Untouched, Rescuing

\* The step that an apply takes next, for each that it may be at: the net is what it
\* was, but for the step that captures it and for those that end.
LEMMA StepNetted == ScreenOK /\ Netted /\ [Next]_vars => Netted'
  <1> SUFFICES ASSUME ScreenOK, Netted, [Next]_vars PROVE Netted'
    OBVIOUS
  <1>a. Shaped(apply)
    BY DEF Netted
  <1>i. apply' = Idle => Netted'
    BY IdleShape DEF Netted, Untouched
  <1>u. apply' = apply => Netted'
    BY DEF Netted
  <1>r. apply' = Restore /\ apply.at \in Rescuing => Netted'
    BY RestoreShape, StaysNetted DEF Rescuing
  <1>1. ASSUME Upsets PROVE Netted'
    <2>1. CASE apply = Idle
      BY <1>1, <1>u, <2>1 DEF Upsets
    <2>2. CASE apply' = [apply EXCEPT !.upset = TRUE]
      BY <1>a, <2>2 DEF Netted, Shaped
    <2> QED
      BY <1>1, <2>1, <2>2 DEF Upsets
  <1>2. ASSUME NEW m \in Monitors, Plugs(m) \/ Unplugs(m) PROVE Netted'
    BY <1>1, <1>2 DEF Plugs, Unplugs
  <1>3. CASE Wakes
    BY <1>1, <1>3 DEF Wakes
  <1>4. CASE Lists \/ Invalidates \/ UNCHANGED vars
    BY <1>4, <1>u DEF Lists, Invalidates, vars
  <1>5. CASE Toggles \/ AppliesProfile \/ RollsBack
    <2>1. PICK l : Asks(l)
      BY <1>5 DEF Toggles, AppliesProfile, RollsBack
    <2>2. \E w, m, h : apply' = [Idle EXCEPT !.at = "applies", !.work = w, !.aim = m, !.hashed = h]
      BY <2>1 DEF Asks
    <2>3. Shaped(apply') /\ apply'.at = "applies" /\ apply'.pre = {}
      BY <2>2, IdleShape DEF Shaped
    <2> QED
      BY <2>3 DEF Netted, Untouched
  <1>6. CASE Begins
    <2>1. CASE apply' = Idle
      BY <1>i, <2>1
    <2>2. CASE apply' # Idle
      <3>0. PICK s \in Enumerations(era, plugged, shown) : \E b \in Bases(s) :
              LET work == Remap(apply.work, b.layout, s.raw)
                  missing == Missing(work, b.raw)
              IN apply' = [apply EXCEPT !.at = StepFor(missing), !.work = work, !.base = b.raw,
                             !.active = On(s.layout), !.upset = FALSE,
                             !.batch = Attachable(missing, s)]
        BY <1>6, <2>2 DEF Begins
      <3>1. PICK b \in Bases(s) :
              LET work == Remap(apply.work, b.layout, s.raw)
                  missing == Missing(work, b.raw)
              IN apply' = [apply EXCEPT !.at = StepFor(missing), !.work = work, !.base = b.raw,
                             !.active = On(s.layout), !.upset = FALSE,
                             !.batch = Attachable(missing, s)]
        BY <3>0
      <3>2. \E k \in {"sets", "captures"} : \E w, d, c :
              apply' = [apply EXCEPT !.at = k, !.work = w, !.base = b.raw,
                             !.active = d, !.upset = FALSE, !.batch = c]
        BY <3>1 DEF StepFor
      <3>3. apply.at = "applies" /\ apply.pre = {}
        BY <1>6 DEF Begins, Netted, Rescuing
      <3> QED
        BY <1>a, <3>2, <3>3 DEF Netted, Untouched, Shaped
    <2> QED
      BY <2>1, <2>2
  <1>7. CASE Sets
    <2>1. apply.at = "sets" /\ apply.pre = {}
      BY <1>7 DEF Sets, Netted, Rescuing
    <2>2. CASE apply' = [apply EXCEPT !.at = "captures", !.batch = {}]
      BY <1>a, <2>1, <2>2 DEF Netted, Untouched, Shaped
    <2> QED
      BY <1>7, <1>i, <2>2 DEF Sets, Ends, Fails
  <1>8. CASE Captures
    <2>1. {<<m, era>> : m \in shown} # {}
      BY DEF ScreenOK
    <2>2. CASE apply' = [apply EXCEPT !.at = "attaches", !.pre = {<<m, era>> : m \in shown}, !.upset = FALSE]
      BY <1>a, <2>1, <2>2 DEF Netted, Rescuing, Shaped
    <2> QED
      BY <1>8, <1>i, <2>2 DEF Captures
  <1>9. CASE Attaches
    <2>1. apply.at \in Rescuing
      BY <1>9 DEF Attaches, Rescuing
    <2>2. \E k \in {"attached", "extends"} : apply' = [apply EXCEPT !.at = k, !.active = {}, !.batch = {}]
      BY <1>9 DEF Attaches
    <2> QED
      BY <1>a, <2>1, <2>2, StaysNetted DEF Rescuing, Shaped
  <1>10. CASE Extends
    BY <1>10, <1>a, StaysNetted DEF Extends, Rescuing, Shaped
  <1>11. CASE Switches
    <2>1. apply.at \in Rescuing
      BY <1>11 DEF Switches, Rescuing
    <2>2. CASE apply' = [apply EXCEPT !.at = "switched"]
      BY <1>a, <2>1, <2>2, StaysNetted DEF Rescuing, Shaped
    <2> QED
      BY <1>11, <1>r, <2>1, <2>2 DEF Switches, Exits
  <1>12. CASE Settles
    <2>1. apply.at \in {"attached", "extended", "switched"} /\ apply.at \in Rescuing
      BY <1>12 DEF Settles, Rung, Rescuing
    <2>2. CASE apply' = Rung[apply.at]
      BY <1>a, <1>r, <1>12, <2>1, <2>2, RungShape, StaysNetted DEF Settles, Rescuing, Shaped
    <2>3. CASE \E l, r : apply' = [apply EXCEPT !.at = "finishes", !.work = l, !.active = r]
      BY <1>a, <2>1, <2>3, StaysNetted DEF Rescuing, Shaped
    <2>4. CASE apply' = Restore
      BY <1>r, <2>1, <2>4
    <2> QED
      BY <1>12, <2>2, <2>3, <2>4 DEF Settles
  <1>13. CASE Finishes
    <2>1. apply.at \in Rescuing
      BY <1>13 DEF Finishes, Rescuing
    <2> QED
      BY <1>13, <1>i, <1>r, <2>1 DEF Finishes, Ends
  <1>14. CASE Restores
    <2>1. apply.at \in Rescuing
      BY <1>14 DEF Restores, Rescuing
    <2>2. CASE apply' = [apply EXCEPT !.at = "unrestored"]
      BY <1>a, <2>1, <2>2, StaysNetted DEF Rescuing, Shaped
    <2> QED
      BY <1>14, <1>i, <2>2 DEF Restores
  <1>15. CASE GivesUp
    BY <1>15, <1>i DEF GivesUp
  <1> QED
    BY <1>2, <1>3, <1>4, <1>5, <1>6, <1>7, <1>8, <1>9, <1>10, <1>11, <1>12, <1>13, <1>14, <1>15
    DEF Next

\* An apply that is idle, or that only learned that something moved, has its paths.
LEMMA StepOfOneEra == ScreenOK /\ Netted /\ OfOneEra /\ [Next]_vars => OfOneEra' /\ ScreenOK'
  <1> SUFFICES ASSUME ScreenOK, Netted, OfOneEra, [Next]_vars PROVE OfOneEra'
    BY StepScreen
  <1>s. ScreenOK'
    BY StepScreen
  <1>a. Shaped(apply)
    BY DEF Netted
  <1>i. OneEra(Idle.base)
    BY IdleShape DEF OneEra, Of
  <1>c. UNCHANGED cache /\ apply'.base \in {apply.base, Idle.base} => OfOneEra'
    BY <1>i DEF OfOneEra, cache
  <1>r. ASSUME NEW s \in Enumerations(era, plugged, shown), Refresh(s),
               apply'.base \in {apply.base, Idle.base}
        PROVE  OfOneEra'
    BY <1>i, <1>r, ReportedNow, MergedIsOneEra DEF OfOneEra, Refresh, ScreenOK
  <1>e. ASSUME Ends, UNCHANGED <<era, plugged>> PROVE OfOneEra'
    <2>1. PICK s \in Enumerations(era, plugged, shown') :
            last_snapshot' = MergeSnapshot([raw |-> apply.base], s)
      BY <1>e DEF Ends
    <2>2. Reported(era, s)
      BY <1>e, <1>s, EnumerationReported DEF ScreenOK
    <2>3. OneEra([raw |-> apply.base].raw)
      BY DEF OfOneEra
    <2>4. OneEra(last_snapshot'.raw)
      BY <2>1, <2>2, <2>3, MergedIsOneEra DEF ScreenOK
    <2> QED
      BY <1>e, <1>i, <2>4 DEF OfOneEra, Ends
  <1>1. CASE Wakes \/ \E m \in Monitors : Plugs(m) \/ Unplugs(m)
    <2>1. apply'.base = apply.base
      BY <1>1, <1>a DEF Plugs, Unplugs, Wakes, Upsets, Shaped
    <2> QED
      BY <1>1, <1>c, <2>1 DEF Plugs, Unplugs, Wakes
  <1>2. CASE Lists
    BY <1>2, <1>r DEF Lists
  <1>3. CASE Invalidates
    BY <1>3 DEF Invalidates, Forgets, OfOneEra
  <1>4. CASE Toggles \/ AppliesProfile \/ RollsBack
    <2>1. PICK l : Asks(l)
      BY <1>4 DEF Toggles, AppliesProfile, RollsBack
    <2>2. \E w, m, h : apply' = [Idle EXCEPT !.at = "applies", !.work = w, !.aim = m, !.hashed = h]
      BY <2>1 DEF Asks
    <2>3. apply'.base = Idle.base
      BY <2>2, IdleShape DEF Shaped
    <2> QED
      BY <1>4, <1>c, <1>r, <2>3 DEF Toggles, AppliesProfile, RollsBack
  <1>5. CASE Begins
    <2>1. CASE apply' = Idle
      BY <1>5, <1>c, <2>1 DEF Begins, Waits
    <2>2. CASE apply' # Idle
      <3>1. PICK s \in Enumerations(era, plugged, shown) : \E b \in Bases(s) :
              apply'.base = b.raw
        BY <1>5, <1>a, <2>2 DEF Begins, Shaped
      <3>2. PICK b \in Bases(s) : apply'.base = b.raw
        BY <3>1
      <3>3. OneEra(b.raw)
        BY <3>2, ReportedNow DEF Bases, OfOneEra
      <3> QED
        BY <1>5, <3>2, <3>3 DEF Begins, Waits, cache, OfOneEra
    <2> QED
      BY <2>1, <2>2
  <1>6. CASE Sets
    <2>1. CASE apply' = [apply EXCEPT !.at = "captures", !.batch = {}] /\ UNCHANGED cache
      BY <1>a, <1>c, <2>1 DEF Shaped
    <2> QED
      BY <1>6, <1>c, <1>e, <2>1 DEF Sets, Fails, Follows, windows
  <1>7. CASE Captures \/ Attaches \/ Extends \/ Switches \/ Settles \/ Restores \/ GivesUp
             \/ UNCHANGED vars
    <2>1. CASE Settles \/ Switches
      <3>1. \/ apply' = Rung[apply.at] /\ apply.at \in DOMAIN Rung
            \/ apply' = Restore
            \/ \E l, r : apply' = [apply EXCEPT !.at = "finishes", !.work = l, !.active = r]
            \/ apply' = [apply EXCEPT !.at = "switched"]
        BY <2>1 DEF Settles, Switches, Exits
      <3>2. Restore.base = Idle.base
        BY IdleShape, RestoreShape
      <3>3. CASE apply' = Rung[apply.at] /\ apply.at \in DOMAIN Rung
        <4>1. Rung[apply.at].base \in {apply.base, Idle.base}
          BY <1>a, <3>2, <3>3, RungShape DEF Shaped
        <4> QED
          BY <1>c, <2>1, <3>3, <4>1 DEF Settles, Switches, Waits
      <3>4. CASE apply' = Restore
        BY <1>c, <2>1, <3>2, <3>4 DEF Settles, Switches, Waits
      <3>5. CASE apply'.base = apply.base
        BY <1>c, <2>1, <3>5 DEF Settles, Switches, Waits
      <3> QED
        BY <1>a, <3>1, <3>3, <3>4, <3>5 DEF Shaped
    <2>2. CASE Captures \/ Attaches \/ Extends \/ Restores \/ GivesUp \/ UNCHANGED vars
      <3>1. apply'.base \in {apply.base, Idle.base}
        BY <1>a, <2>2 DEF Shaped, Captures, Attaches, Extends, Restores, GivesUp, vars
      <3> QED
        BY <1>c, <2>2, <3>1 DEF Captures, Attaches, Extends, Restores, GivesUp, Waits, vars
    <2> QED
      BY <1>7, <2>1, <2>2
  <1>8. CASE Finishes
    <2>1. Restore.base = Idle.base
      BY IdleShape, RestoreShape
    <2> QED
      BY <1>8, <1>c, <1>e, <2>1 DEF Finishes, Follows, windows
  <1> QED
    BY <1>1, <1>2, <1>3, <1>4, <1>5, <1>6, <1>7, <1>8 DEF Next

\* Paths of an earlier numbering go out only if the machine woke up meanwhile: what is
\* remembered is taken when it covers what is on, which is of today.
LEMMA StepCurrent == TopologyInv /\ [Next]_vars => Current'
  <1> SUFFICES ASSUME ScreenOK, Netted, OfOneEra, Current, [Next]_vars PROVE Current'
    BY DEF TopologyInv
  <1>a. Shaped(apply)
    BY DEF Netted
  <1>o. apply'.at \notin {"sets", "finishes"} => Current'
    BY DEF Current
  <1>i. Idle.at \notin {"sets", "finishes"} /\ Restore.at \notin {"sets", "finishes"}
    BY IdleShape, RestoreShape
  <1>1. ASSUME Upsets, UNCHANGED era \/ Wakes PROVE Current'
    <2>1. CASE apply' = apply /\ apply = Idle
      BY <1>i, <1>o, <2>1
    <2>2. CASE apply' = [apply EXCEPT !.upset = TRUE]
      <3>1. apply'.upset
        BY <1>a, <2>2 DEF Shaped
      <3> QED
        BY <3>1 DEF Current
    <2> QED
      BY <1>1, <2>1, <2>2 DEF Upsets
  <1>2. CASE Wakes \/ \E m \in Monitors : Plugs(m) \/ Unplugs(m)
    BY <1>1, <1>2 DEF Plugs, Unplugs, Wakes
  <1>3. CASE Lists \/ Invalidates \/ UNCHANGED vars
    BY <1>3 DEF Lists, Invalidates, vars, windows, Current
  <1>4. CASE Toggles \/ AppliesProfile \/ RollsBack
    <2>1. PICK l : Asks(l)
      BY <1>4 DEF Toggles, AppliesProfile, RollsBack
    <2>2. \E w, m, h : apply' = [Idle EXCEPT !.at = "applies", !.work = w, !.aim = m, !.hashed = h]
      BY <2>1 DEF Asks
    <2>3. apply'.at = "applies"
      BY <2>2, IdleShape DEF Shaped
    <2> QED
      BY <1>o, <2>3
  <1>5. CASE Begins
    <2>1. CASE apply' = Idle
      BY <1>i, <1>o, <2>1
    <2>2. CASE apply' # Idle
      <3>0. PICK s \in Enumerations(era, plugged, shown) : \E b \in Bases(s) :
              LET work == Remap(apply.work, b.layout, s.raw)
                  missing == Missing(work, b.raw)
              IN apply' = [apply EXCEPT !.at = StepFor(missing), !.work = work, !.base = b.raw,
                             !.active = On(s.layout), !.upset = FALSE,
                             !.batch = Attachable(missing, s)]
        BY <1>5, <2>2 DEF Begins
      <3>1. PICK b \in Bases(s) :
              LET work == Remap(apply.work, b.layout, s.raw)
                  missing == Missing(work, b.raw)
              IN apply' = [apply EXCEPT !.at = StepFor(missing), !.work = work, !.base = b.raw,
                             !.active = On(s.layout), !.upset = FALSE,
                             !.batch = Attachable(missing, s)]
        BY <3>0
      <3>2. apply'.base = b.raw /\ apply'.at \in {"sets", "captures"}
        <4>1. \E k \in {"sets", "captures"} : \E w, d, c :
                apply' = [apply EXCEPT !.at = k, !.work = w, !.base = b.raw,
                               !.active = d, !.upset = FALSE, !.batch = c]
          BY <3>1 DEF StepFor
        <4> QED
          BY <1>a, <4>1 DEF Shaped
      <3>3. Reported(era, s)
        BY ReportedNow
      <3>4. Of(era, b.raw)
        <4>1. CASE b \in ActiveOnly(era, shown) \cup {s}
          BY <3>3, <4>1, ReportedNow DEF Reported
        <4>2. CASE b = last_snapshot /\ last_snapshot # None /\ Covers(last_snapshot.raw, s.layout)
          BY <3>3, <4>2, CoveringIsCurrent DEF OfOneEra
        <4> QED
          BY <4>1, <4>2 DEF Bases
      <3> QED
        BY <1>5, <3>2, <3>4 DEF Begins, Waits, windows, Current
    <2> QED
      BY <2>1, <2>2
  <1>6. CASE Sets
    <2>1. apply'.at \notin {"sets", "finishes"}
      BY <1>6, <1>a, <1>i DEF Sets, Ends, Fails, Shaped
    <2> QED
      BY <1>o, <2>1
  <1>7. CASE Captures \/ Attaches \/ Extends \/ Switches \/ Restores \/ GivesUp
    <2>1. apply'.at \notin {"sets", "finishes"}
      BY <1>7, <1>a, <1>i DEF Captures, Attaches, Extends, Switches, Exits, Restores, GivesUp, Shaped
    <2> QED
      BY <1>o, <2>1
  <1>8. CASE Settles
    <2>1. CASE apply' = Rung[apply.at]
      <3>1. apply'.at \notin {"sets", "finishes"}
        BY <1>8, <1>a, <1>i, <2>1, RungShape DEF Settles, Shaped
      <3> QED
        BY <1>o, <3>1
    <2>2. CASE \E s \in Enumerations(era, plugged, shown) : \E l :
                 apply' = [apply EXCEPT !.at = "finishes", !.work = l, !.active = s.raw]
      <3>1. PICK s \in Enumerations(era, plugged, shown) :
              apply'.at = "finishes" /\ apply'.active = s.raw
        BY <1>a, <2>2 DEF Shaped
      <3>2. Of(era, s.raw)
        BY ReportedNow DEF Reported
      <3> QED
        BY <1>8, <3>1, <3>2 DEF Settles, Waits, windows, Current
    <2>3. CASE apply' = Restore
      BY <1>i, <1>o, <2>3
    <2> QED
      BY <1>8, <2>1, <2>2, <2>3 DEF Settles
  <1>9. CASE Finishes
    BY <1>9, <1>i, <1>o DEF Finishes, Ends
  <1> QED
    BY <1>2, <1>3, <1>4, <1>5, <1>6, <1>7, <1>8, <1>9 DEF Next

\* Each connector once: each output once.
LEMMA UniqueIsDistinct ==
  ASSUME NEW l, Unique(l)
  PROVE  Distinct(l)
  BY DEF Unique, Distinct, Id

\* What is enumerated now.
LEMMA ListedNow ==
  ASSUME ScreenOK, NEW s \in Enumerations(era, plugged, shown) \cup ActiveOnly(era, shown)
  PROVE  /\ s = [raw |-> s.raw, layout |-> s.layout] /\ Listing(era, shown, s.layout)
         /\ s.raw \subseteq Connectors(s.layout) /\ s.layout \in Seq(Outputs)
  <1>1. era \in Nat /\ plugged \in SUBSET Monitors /\ shown \in SUBSET plugged
    BY DEF ScreenOK
  <1>2. /\ s = [raw |-> s.raw, layout |-> s.layout] /\ Listing(era, shown, s.layout)
        /\ s.raw \subseteq Connectors(s.layout)
    BY <1>1, EnumerationLists
  <1> QED
    BY <1>2 DEF Listing

\* What was listed once.
LEMMA SavedIsListed ==
  ASSUME NEW l \in Saved
  PROVE  l \in Seq(Outputs) /\ Distinct(l)
  <1>1. PICK p \in SUBSET Monitors : \E w \in SUBSET p : \E s \in Enumerations(1, p, w) : l = s.layout
    BY DEF Saved
  <1>2. PICK w \in SUBSET p : \E s \in Enumerations(1, p, w) : l = s.layout
    BY <1>1
  <1>3. PICK s \in Enumerations(1, p, w) : l = s.layout
    BY <1>2
  <1>4. Listing(1, w, s.layout)
    BY EnumerationLists
  <1> QED
    BY <1>3, <1>4, UniqueIsDistinct DEF Listing

\* merge_snapshot_for_cache keeps the fresh list.
LEMMA MergedLayout ==
  ASSUME NEW s, s = [raw |-> s.raw, layout |-> s.layout], NEW previous
  PROVE  MergeSnapshot(previous, s).layout = s.layout
  <1>1. CASE MergeSnapshot(previous, s) = s
    BY <1>1
  <1>2. CASE MergeSnapshot(previous, s) = [s EXCEPT !.raw = previous.raw]
    BY <1>2
  <1> QED
    BY <1>1, <1>2 DEF MergeSnapshot

\* What the merge makes of the list, after a refresh.
RefreshedList ==
  /\ last_layout' \in Seq(Outputs) /\ Unique(last_layout')
  /\ On(last_layout') = {<<m, era>> : m \in shown}
  /\ \A i, j \in DOMAIN last_layout' : \A k \in DOMAIN last_snapshot'.layout :
       last_layout'[i].edid = last_layout'[j].edid
       /\ last_snapshot'.layout[k].edid = last_layout'[i].edid
         => i = j \/ last_layout'[i].edid = None
  /\ \A m \in Monitors : Remembers(last_layout, m) => Remembers(last_layout', m)

LEMMA RefreshLists ==
  ASSUME ScreenOK, Listed, NEW s \in Enumerations(era, plugged, shown), Refresh(s)
  PROVE  RefreshedList /\ Listed'
  <1> DEFINE l == MergeLayout(last_layout, s.layout, s.raw)
  <1>1. /\ s = [raw |-> s.raw, layout |-> s.layout] /\ Listing(era, shown, s.layout)
        /\ s.raw \subseteq Connectors(s.layout) /\ s.layout \in Seq(Outputs)
    BY ListedNow
  <1>2. last_snapshot'.layout = s.layout
    BY <1>1, MergedLayout DEF Refresh
  <1>3. /\ l \in Seq(Outputs) /\ Unique(l) /\ On(l) = {<<m, era>> : m \in shown}
        /\ \A i, j \in DOMAIN l : \A k \in DOMAIN s.layout :
             l[i].edid = l[j].edid /\ s.layout[k].edid = l[i].edid => i = j \/ l[i].edid = None
        /\ \A m \in Monitors : Remembers(last_layout, m) => Remembers(l, m)
    BY <1>1, MergeLists DEF ScreenOK, Listed
  <1> HIDE DEF l
  <1>4. last_layout' = l
    BY DEF Refresh, l
  <1>5. RefreshedList
    BY <1>2, <1>3, <1>4 DEF RefreshedList
  <1> QED
    BY <1>1, <1>2, <1>3, <1>4, <1>5 DEF Listed

\* What is kept after an apply is what was applied, at its connectors.
LEMMA AppliedLists ==
  ASSUME NEW l \in Seq(Outputs), NEW next
  PROVE  /\ Applied(l, next) \in Seq(Outputs)
         /\ \A m \in Monitors : Remembers(l, m) => Remembers(Applied(l, next), m)
  <1> DEFINE a == Applied(l, next)
             n == Len(l)
  <1>1. n \in Nat /\ DOMAIN l = 1 .. n /\ \A i \in DOMAIN l : l[i] \in Outputs
    BY ListShape
  <1>2. ASSUME NEW o \in Outputs
        PROVE  [o EXCEPT !.enabled = TRUE] \in Outputs /\ [o EXCEPT !.enabled = TRUE].at = o.at
    <2>1. o = [at |-> o.at, edid |-> o.edid, enabled |-> o.enabled]
      BY OutputShape
    <2>2. o.at \in Monitors \X Nat /\ o.edid \in {None, o.at[1]}
      BY OutputShape
    <2>3. ASSUME NEW t PROVE [o EXCEPT !.enabled = t] = [at |-> o.at, edid |-> o.edid, enabled |-> t]
      BY <2>1
    <2>4. [o EXCEPT !.enabled = TRUE] = [at |-> o.at, edid |-> o.edid, enabled |-> TRUE]
      BY <2>3
    <2>5. TRUE \in BOOLEAN
      OBVIOUS
    <2>6. [at |-> o.at, edid |-> o.edid, enabled |-> TRUE] \in Outputs
      BY <2>2, <2>5, IsOutput
    <2> QED
      BY <2>4, <2>6
  <1>3. DOMAIN a = DOMAIN l /\ \A i \in DOMAIN l : a[i] \in Outputs /\ a[i].at = l[i].at
    BY <1>1, <1>2 DEF Applied
  <1>4. a \in [1 .. n -> Outputs]
    <2>1. a = [i \in 1 .. n |-> a[i]]
      BY <1>1 DEF Applied
    <2> HIDE DEF a
    <2> QED
      BY <1>1, <1>3, <2>1
  <1> HIDE DEF a, n
  <1>5. a \in Seq(Outputs)
    BY <1>1, <1>4, IsList
  <1> QED
    BY <1>3, <1>5 DEF a, Remembers

\* The cache after an apply.
LEMMA EndsListed ==
  ASSUME ScreenOK', UNCHANGED <<era, plugged>>, Worked, Ends
  PROVE  /\ Listed'
         /\ \A m \in Monitors : Remembers(apply.work, m) => Remembers(last_layout', m)
  <1>1. PICK s \in Enumerations(era, plugged, shown') :
          /\ last_snapshot' = MergeSnapshot([raw |-> apply.base], s)
          /\ last_layout' = Applied(apply.work, s.layout)
    BY DEF Ends
  <1>2. s = [raw |-> s.raw, layout |-> s.layout] /\ s.layout \in Seq(Outputs)
    <2>1. era \in Nat /\ plugged \in SUBSET Monitors /\ shown' \in SUBSET plugged
      BY DEF ScreenOK
    <2>2. s = [raw |-> s.raw, layout |-> s.layout] /\ Listing(era, shown', s.layout)
      BY <2>1, EnumerationLists
    <2> QED
      BY <2>2 DEF Listing
  <1>3. last_snapshot'.layout = s.layout
    BY <1>1, <1>2, MergedLayout
  <1>4. /\ last_layout' \in Seq(Outputs)
        /\ \A m \in Monitors : Remembers(apply.work, m) => Remembers(last_layout', m)
    BY <1>1, AppliedLists DEF Worked, Works
  <1> QED
    BY <1>2, <1>3, <1>4 DEF Listed

\* The steps that do not touch the cache, those that refresh it, that which forgets it
\* and those that end an apply.
LEMMA CacheSteps ==
  ASSUME ScreenOK, Netted, Next
  PROVE  \/ UNCHANGED cache
         \/ \E s \in Enumerations(era, plugged, shown) : Refresh(s)
         \/ Invalidates
         \/ Ends /\ Asking /\ UNCHANGED <<era, plugged>>
  <1>1. CASE Sets
    BY <1>1 DEF Sets, Fails, Asking, Follows, cache
  <1>2. CASE Finishes
    BY <1>2 DEF Finishes, Asking, Follows, cache
  <1>3. CASE \E m \in Monitors : Plugs(m) \/ Unplugs(m)
    BY <1>3 DEF Plugs, Unplugs
  <1>4. CASE Wakes \/ RollsBack \/ Begins \/ Captures \/ Attaches \/ Extends \/ Switches \/ Settles
             \/ Restores \/ GivesUp
    BY <1>4 DEF Wakes, RollsBack, Begins, Captures, Attaches, Extends, Switches, Settles, Restores,
       GivesUp, Waits
  <1>5. CASE Lists \/ Toggles \/ AppliesProfile
    BY <1>5 DEF Lists, Toggles, AppliesProfile
  <1> QED
    BY <1>1, <1>2, <1>3, <1>4, <1>5 DEF Next

LEMMA StepListed == TopologyInv /\ [Next]_vars => Listed'
  <1> SUFFICES ASSUME ScreenOK, Netted, Listed, Worked, [Next]_vars PROVE Listed'
    BY DEF TopologyInv
  <1>1. ScreenOK'
    BY StepScreen
  <1>2. CASE UNCHANGED cache
    BY <1>2 DEF cache, Listed
  <1>3. CASE \E s \in Enumerations(era, plugged, shown) : Refresh(s)
    BY <1>3, RefreshLists
  <1>4. CASE Invalidates
    BY <1>4 DEF Invalidates, Forgets, Listed
  <1>5. CASE Ends /\ UNCHANGED <<era, plugged>>
    BY <1>1, <1>5, EndsListed
  <1>6. CASE UNCHANGED vars
    BY <1>2, <1>6 DEF vars
  <1> QED
    BY <1>2, <1>3, <1>4, <1>5, <1>6, CacheSteps

\* No layout, no paths set.
LEMMA NoWork ==
  ASSUME NEW a, a.work = <<>>, a.aim = {}, a.at \notin {"sets", "finishes"}
  PROVE  Works(a)
  <1>1. <<>> \in Seq(Outputs) /\ DOMAIN <<>> = {}
    OBVIOUS
  <1> QED
    BY <1>1 DEF Works, Distinct

LEMMA IdleWorks == Works(Idle) /\ Works(Restore)
  <1>1. Idle.work = <<>> /\ Idle.aim = {} /\ Idle.at = "idle"
    BY DEF Idle
  <1>2. \E p, u : Restore = [Idle EXCEPT !.at = "restores", !.pre = p, !.upset = u]
    BY DEF Restore
  <1>3. Restore.work = <<>> /\ Restore.aim = {} /\ Restore.at = "restores"
    BY <1>1, <1>2, IdleShape DEF Shaped
  <1> QED
    BY <1>1, <1>3, NoWork

\* A layout without doubles may be asked for.
LEMMA AskedWorks ==
  ASSUME NEW l \in Seq(Outputs), Distinct(l), Asks(l)
  PROVE  Worked'
  <1>1. /\ apply'.at = "applies" /\ apply'.work = l /\ apply'.aim = {c[1] : c \in On(l)}
        /\ apply'.hashed = \A i \in DOMAIN l : l[i].edid # None
    BY IdleShape DEF Asks, Shaped
  <1> QED
    BY <1>1 DEF Worked, Works

\* A layout remapped turns on what it turned on, if it knows the hashes.
LEMMA RemappedWorks ==
  ASSUME Works(apply), NEW current \in Seq(Outputs), NEW enumerated
  PROVE  LET l == Remap(apply.work, current, enumerated)
         IN  /\ l \in Seq(Outputs) /\ Distinct(l)
             /\ apply.hashed => /\ \A i \in DOMAIN l : l[i].edid # None
                                /\ apply.aim \subseteq {c[1] : c \in On(l)}
  <1> DEFINE w == apply.work
             l == Remap(w, current, enumerated)
  <1>1. w \in Seq(Outputs) /\ Distinct(w)
    BY DEF Works
  <1>2. /\ l \in Seq(Outputs) /\ DOMAIN l = DOMAIN w /\ Distinct(l)
        /\ \A i \in DOMAIN l : /\ l[i].enabled = w[i].enabled
                               /\ w[i].edid # None => l[i].edid = w[i].edid
    BY <1>1, RemapKeeps
  <1> HIDE DEF l
  <1>3. ASSUME apply.hashed
        PROVE  /\ \A i \in DOMAIN l : l[i].edid # None
               /\ apply.aim \subseteq {c[1] : c \in On(l)}
    <2>1. \A i \in DOMAIN l : w[i].edid # None /\ l[i].edid = w[i].edid
      BY <1>2, <1>3 DEF Works
    <2>2. \A i \in DOMAIN l : l[i].at[1] = w[i].at[1]
      <3>1. \A i \in DOMAIN l : l[i] \in Outputs /\ w[i] \in Outputs
        BY <1>1, <1>2, ListShape
      <3> QED
        BY <2>1, <3>1, OutputShape
    <2>3. ASSUME NEW m \in apply.aim PROVE m \in {c[1] : c \in On(l)}
      <3>1. PICK i \in DOMAIN w : w[i].enabled /\ w[i].at[1] = m
        BY <1>3 DEF Works, On
      <3>2. l[i].enabled /\ l[i].at[1] = m /\ i \in DOMAIN l
        BY <1>2, <2>2, <3>1
      <3> QED
        BY <3>2 DEF On
    <2> QED
      BY <2>1, <2>3
  <1> QED
    BY <1>2, <1>3 DEF l

LEMMA StepWorked == TopologyInv /\ [Next]_vars => Worked'
  <1> SUFFICES ASSUME ScreenOK, Netted, Listed, Worked, [Next]_vars PROVE Worked'
    BY DEF TopologyInv
  <1>a. Shaped(apply) /\ Works(apply)
    BY DEF Netted, Worked
  <1>i. apply' = Idle \/ apply' = Restore \/ apply' = apply => Worked'
    BY <1>a, IdleWorks DEF Worked
  <1>s. ASSUME apply'.work = apply.work, apply'.hashed = apply.hashed, apply'.aim = apply.aim,
               apply'.at \notin {"sets", "finishes"}
        PROVE  Worked'
    BY <1>a, <1>s DEF Works, Worked
  <1>1. ASSUME Upsets PROVE Worked'
    <2>1. CASE apply' = apply
      BY <1>i, <2>1
    <2>2. CASE apply' = [apply EXCEPT !.upset = TRUE]
      <3>1. /\ apply'.work = apply.work /\ apply'.hashed = apply.hashed /\ apply'.aim = apply.aim
            /\ apply'.at = apply.at /\ apply'.base = apply.base /\ apply'.active = apply.active
        BY <1>a, <2>2 DEF Shaped
      <3> QED
        BY <1>a, <3>1 DEF Works, Worked
    <2> QED
      BY <1>1, <2>1, <2>2 DEF Upsets
  <1>2. CASE Wakes \/ \E m \in Monitors : Plugs(m) \/ Unplugs(m)
    BY <1>1, <1>2 DEF Plugs, Unplugs, Wakes
  <1>3. CASE Lists \/ Invalidates \/ GivesUp \/ UNCHANGED vars
    BY <1>3, <1>i DEF Lists, Invalidates, GivesUp, vars
  <1>4. CASE Toggles
    <2>1. last_layout' \in Seq(Outputs) /\ Unique(last_layout')
      BY <1>4, RefreshLists DEF Toggles, RefreshedList
    <2>2. PICK i \in DOMAIN last_layout' : Asks([last_layout' EXCEPT ![i].enabled = ~@])
      BY <1>4 DEF Toggles
    <2> DEFINE n == Len(last_layout')
               o == [last_layout'[i] EXCEPT !.enabled = ~@]
               l == [last_layout' EXCEPT ![i].enabled = ~@]
    <2>3. n \in Nat /\ DOMAIN last_layout' = 1 .. n /\ \A j \in 1 .. n : last_layout'[j] \in Outputs
      BY <2>1, ListShape
    <2>4. o \in Outputs /\ o.at = last_layout'[i].at
      <3>1. /\ last_layout'[i] = [at |-> last_layout'[i].at, edid |-> last_layout'[i].edid,
                                  enabled |-> last_layout'[i].enabled]
            /\ last_layout'[i].at \in Monitors \X Nat
            /\ last_layout'[i].edid \in {None, last_layout'[i].at[1]}
        BY <2>3, OutputShape
      <3>2. o = [at |-> last_layout'[i].at, edid |-> last_layout'[i].edid,
                 enabled |-> ~last_layout'[i].enabled]
        BY <3>1
      <3>3. (~last_layout'[i].enabled) \in BOOLEAN
        OBVIOUS
      <3> HIDE DEF o
      <3> QED
        BY <3>1, <3>2, <3>3, IsOutput
    <2>5. l = [last_layout' EXCEPT ![i] = o]
      OBVIOUS
    <2> HIDE DEF o, l, n
    <2>6. last_layout' \in [1 .. n -> Outputs]
      BY <2>1, LenProperties DEF n
    <2>7. l \in [1 .. n -> Outputs] /\ \A j \in 1 .. n : l[j].at = last_layout'[j].at
      BY <2>3, <2>4, <2>5, <2>6
    <2>8. l \in Seq(Outputs) /\ DOMAIN l = 1 .. n
      BY <2>3, <2>7, IsList
    <2>9. Distinct(l)
      <3>1. Unique(l)
        BY <2>1, <2>3, <2>7, <2>8 DEF Unique
      <3> QED
        BY <3>1, UniqueIsDistinct
    <2> QED
      BY <2>2, <2>8, <2>9, AskedWorks DEF l
  <1>5. CASE AppliesProfile
    <2>1. last_layout' \in Seq(Outputs)
      BY <1>5, RefreshLists DEF AppliesProfile, RefreshedList
    <2>2. PICK saved \in Saved : Asks(Remap(saved, last_layout', {}))
      BY <1>5 DEF AppliesProfile
    <2>3. saved \in Seq(Outputs) /\ Distinct(saved)
      BY SavedIsListed
    <2>4. Remap(saved, last_layout', {}) \in Seq(Outputs) /\ Distinct(Remap(saved, last_layout', {}))
      BY <2>1, <2>3, RemapKeeps
    <2> QED
      BY <2>2, <2>4, AskedWorks
  <1>6. CASE RollsBack
    BY <1>6, SavedIsListed, AskedWorks DEF RollsBack
  <1>7. CASE Begins
    <2>1. CASE apply' = Idle
      BY <1>i, <2>1
    <2>2. CASE apply' # Idle
      <3>1. PICK s \in Enumerations(era, plugged, shown) : \E b \in Bases(s) :
              LET work == Remap(apply.work, b.layout, s.raw)
              IN apply' = [apply EXCEPT !.at = StepFor(Missing(work, b.raw)), !.work = work,
                             !.base = b.raw, !.active = On(s.layout), !.upset = FALSE,
                             !.batch = Attachable(Missing(work, b.raw), s)]
        BY <1>7, <2>2 DEF Begins
      <3>2. PICK b \in Bases(s) :
              LET work == Remap(apply.work, b.layout, s.raw)
              IN apply' = [apply EXCEPT !.at = StepFor(Missing(work, b.raw)), !.work = work,
                             !.base = b.raw, !.active = On(s.layout), !.upset = FALSE,
                             !.batch = Attachable(Missing(work, b.raw), s)]
        BY <3>1
      <3> DEFINE work == Remap(apply.work, b.layout, s.raw)
      <3>3. b.layout \in Seq(Outputs)
        BY ListedNow DEF Bases, Listed
      <3>4. /\ work \in Seq(Outputs) /\ Distinct(work)
            /\ apply.hashed => /\ \A i \in DOMAIN work : work[i].edid # None
                               /\ apply.aim \subseteq {c[1] : c \in On(work)}
        BY <1>a, <3>3, RemappedWorks
      <3> HIDE DEF work
      <3>5. /\ apply'.work = work /\ apply'.hashed = apply.hashed /\ apply'.aim = apply.aim
            /\ apply'.at = StepFor(Missing(work, b.raw)) /\ apply'.base = b.raw
        BY <1>a, <3>2 DEF Shaped, work
      <3>6. /\ apply'.at \in {"sets", "captures"}
            /\ apply'.at = "sets" => On(work) \subseteq b.raw
        BY <3>5 DEF StepFor, Missing
      <3> QED
        BY <3>4, <3>5, <3>6 DEF Works, Worked
    <2> QED
      BY <2>1, <2>2
  <1>8. CASE Sets
    <2>1. CASE apply' = [apply EXCEPT !.at = "captures", !.batch = {}]
      BY <1>a, <1>s, <2>1 DEF Shaped
    <2> QED
      BY <1>8, <1>i, <2>1 DEF Sets, Ends, Fails
  <1>9. CASE Captures
    <2>1. \/ apply' = Idle
          \/ \E p : apply' = [apply EXCEPT !.at = "attaches", !.pre = p, !.upset = FALSE]
      BY <1>9 DEF Captures
    <2> QED
      BY <1>a, <1>i, <1>s, <2>1 DEF Shaped
  <1>10. CASE Attaches \/ Extends
    <2>1. \E k \in {"attached", "extends", "extended"} :
            \/ apply' = [apply EXCEPT !.at = k, !.active = {}, !.batch = {}]
            \/ apply' = [apply EXCEPT !.at = k]
      BY <1>10 DEF Attaches, Extends
    <2> QED
      BY <1>a, <1>s, <2>1 DEF Shaped
  <1>11. CASE Switches
    <2>1. apply' = [apply EXCEPT !.at = "switched"] \/ apply' = Restore
      BY <1>11 DEF Switches, Exits
    <2> QED
      BY <1>a, <1>i, <1>s, <2>1 DEF Shaped
  <1>12. CASE Settles
    <2>1. CASE apply' = Rung[apply.at]
      <3>1. \/ \E k \in {"extends", "switches"} : apply' = [apply EXCEPT !.at = k]
            \/ apply' = Restore
        BY <1>12, <1>a, <2>1, RungShape DEF Settles
      <3> QED
        BY <1>a, <1>i, <1>s, <3>1 DEF Shaped
    <2>2. CASE \E s \in Enumerations(era, plugged, shown) :
                 LET l == Remap(apply.work, s.layout, s.raw)
                 IN /\ Missing(l, s.raw) = {}
                    /\ apply' = [apply EXCEPT !.at = "finishes", !.work = l, !.active = s.raw]
      <3>1. PICK s \in Enumerations(era, plugged, shown) :
              LET l == Remap(apply.work, s.layout, s.raw)
              IN /\ Missing(l, s.raw) = {}
                 /\ apply' = [apply EXCEPT !.at = "finishes", !.work = l, !.active = s.raw]
        BY <2>2
      <3> DEFINE l == Remap(apply.work, s.layout, s.raw)
      <3>2. /\ l \in Seq(Outputs) /\ Distinct(l)
            /\ apply.hashed => /\ \A i \in DOMAIN l : l[i].edid # None
                               /\ apply.aim \subseteq {c[1] : c \in On(l)}
        BY <1>a, ListedNow, RemappedWorks
      <3> HIDE DEF l
      <3>3. /\ apply'.work = l /\ apply'.hashed = apply.hashed /\ apply'.aim = apply.aim
            /\ apply'.at = "finishes" /\ apply'.active = s.raw /\ On(l) \subseteq s.raw
        BY <1>a, <3>1 DEF Shaped, l, Missing
      <3> QED
        BY <3>2, <3>3 DEF Works, Worked
    <2>3. CASE apply' = Restore
      BY <1>i, <2>3
    <2> QED
      BY <1>12, <2>1, <2>2, <2>3 DEF Settles
  <1>13. CASE Finishes
    BY <1>13, <1>i DEF Finishes, Ends
  <1>14. CASE Restores
    <2>1. apply' = Idle \/ apply' = [apply EXCEPT !.at = "unrestored"]
      BY <1>14 DEF Restores
    <2> QED
      BY <1>a, <1>i, <1>s, <2>1 DEF Shaped
  <1> QED
    BY <1>2, <1>3, <1>4, <1>5, <1>6, <1>7, <1>8, <1>9, <1>10, <1>11, <1>12, <1>13, <1>14 DEF Next

LEMMA InitTopology == Init => TopologyInv
  <1> SUFFICES ASSUME Init PROVE TopologyInv
    OBVIOUS
  <1>1. ScreenOK
    BY DEF Init, ScreenOK
  <1>2. OneEra(last_snapshot.raw)
    BY <1>1, ReportedNow DEF Init
  <1>3. Netted /\ Current
    BY IdleShape DEF Init, Netted, Untouched, Current
  <1>4. OneEra(apply.base)
    BY IdleShape DEF Init, OneEra, Of
  <1>5. Listed
    BY <1>1, ListedNow DEF Init, Listed
  <1>6. Worked
    BY IdleWorks DEF Init, Worked
  <1> QED
    BY <1>1, <1>2, <1>3, <1>4, <1>5, <1>6 DEF TopologyInv, OfOneEra

\* What is shown and remembered, the net of an apply, its layout and the numbering of what
\* it goes out on are as the invariant says, however Windows, the cables and the sleep
\* interfere.
THEOREM TopologyInvariant == Spec => []TopologyInv
  <1>1. TopologyInv /\ [Next]_vars => TopologyInv'
    BY StepScreen, StepNetted, StepOfOneEra, StepCurrent, StepListed, StepWorked DEF TopologyInv
  <1> QED
    BY <1>1, InitTopology, PTL DEF Spec

\* A request never names connectors of an earlier numbering unless the machine woke
\* up since the apply asked Windows: merge_snapshot_for_cache never mixes two, and
\* what it remembers goes out only where it covers what is on.
THEOREM RequestsAreCurrent == Spec => []RequestIsCurrent
  <1>1. TopologyInv => RequestIsCurrent
    BY DEF TopologyInv, Current, Of, RequestIsCurrent, Asking, Going, Request
  <1> QED
    BY <1>1, TopologyInvariant, PTL

\* The request that goes out has a path of each monitor that the layout turns on, if it
\* knows their hashes: the remap keeps the monitors and makes no doubles, and nothing goes
\* out before all that is on has a path.
THEOREM RequestsAreComplete == Spec => []WantedIsRequested
  <1>1. TopologyInv => WantedIsRequested
    <2> SUFFICES ASSUME Worked, Asking, apply.hashed, NEW m \in apply.aim
                 PROVE  m \in {c[1] : c \in Going}
      BY DEF TopologyInv, WantedIsRequested
    <2> DEFINE w == apply.work
               raw == IF apply.at = "sets" THEN apply.base ELSE apply.active
    <2>1. /\ w \in Seq(Outputs) /\ Distinct(w) /\ \A i \in DOMAIN w : w[i].edid # None
          /\ apply.aim \subseteq {c[1] : c \in On(w)} /\ On(w) \subseteq raw
      BY DEF Worked, Works, Asking
    <2>2. PICK i \in DOMAIN w : w[i].enabled /\ w[i].at[1] = m
      BY <2>1 DEF On
    <2>3. w[i].at \in raw
      BY <2>1, <2>2 DEF On
    <2>4. Counts(w, i)
      <3> SUFFICES ASSUME NEW j \in i + 1 .. Len(w), w[j].at = w[i].at PROVE FALSE
        BY DEF Counts
      <3>1. Len(w) \in Nat /\ DOMAIN w = 1 .. Len(w) /\ \A k \in DOMAIN w : w[k] \in Outputs
        BY <2>1, ListShape
      <3>2. j \in DOMAIN w /\ i # j
        BY <3>1
      <3>3. w[i].edid = w[i].at[1] /\ w[j].edid = w[j].at[1]
        BY <2>1, <3>1, <3>2, OutputShape
      <3>4. Id(w[i]) = Id(w[j])
        BY <3>3 DEF Id
      <3> QED
        BY <2>1, <3>2, <3>4 DEF Distinct
    <2>5. w[i].at \in Request(w, raw)
      BY <2>2, <2>3, <2>4 DEF Request
    <2>6. Going = Request(w, raw)
      BY DEF Going
    <2> QED
      BY <2>2, <2>5, <2>6
  <1> QED
    BY <1>1, TopologyInvariant, PTL

\* After a refresh what is on in the list is what Windows shows, each connector once and
\* each monitor read once: merge_layout_with_fresh takes the fresh word where a connector
\* is listed, turns off what is not, and drops what was renumbered.
THEOREM ListsShowWindows == Spec => ListIsWindows
  <1> DEFINE A == Lists =>
               /\ On(last_layout') = {<<m, era>> : m \in shown}
               /\ \A i, j \in DOMAIN last_layout' :
                    /\ last_layout'[i].at = last_layout'[j].at => i = j
                    /\ /\ last_layout'[i].edid = last_layout'[j].edid
                       /\ \E k \in DOMAIN last_snapshot'.layout :
                            last_snapshot'.layout[k].edid = last_layout'[i].edid
                       => i = j \/ last_layout'[i].edid = None
  <1>1. TopologyInv /\ [Next]_vars => [A]_vars
    <2> SUFFICES ASSUME ScreenOK, Listed, Lists PROVE A
      BY DEF TopologyInv
    <2>1. RefreshedList
      BY RefreshLists DEF Lists
    <2> QED
      BY <2>1 DEF RefreshedList, Unique
  <1> QED
    BY <1>1, TopologyInvariant, PTL DEF Spec, ListIsWindows

\* A monitor that was listed stays in the list: a stale duplicate is dropped only for the
\* entry that replaces it, and an apply keeps the connectors of its layout.
THEOREM MonitorsAreRemembered == Spec => Remembered
  <1> DEFINE A == ~Invalidates => \A m \in Monitors :
               Remembers(last_layout, m) /\ (Asking => Remembers(apply.work, m))
                 => Remembers(last_layout', m)
  <1>1. TopologyInv /\ [Next]_vars => [A]_vars
    <2> SUFFICES ASSUME ScreenOK, Netted, Listed, Worked, Next, ~Invalidates, NEW m \in Monitors,
                        Remembers(last_layout, m), Asking => Remembers(apply.work, m)
                 PROVE  Remembers(last_layout', m)
      BY DEF TopologyInv
    <2>1. ScreenOK'
      BY StepScreen
    <2>2. CASE UNCHANGED cache
      BY <2>2 DEF cache
    <2>3. CASE \E s \in Enumerations(era, plugged, shown) : Refresh(s)
      BY <2>3, RefreshLists DEF RefreshedList
    <2>4. CASE Ends /\ Asking /\ UNCHANGED <<era, plugged>>
      BY <2>1, <2>4, EndsListed
    <2> QED
      BY <2>2, <2>3, <2>4, CacheSteps
  <1> QED
    BY <1>1, TopologyInvariant, PTL DEF Spec, Remembered

\* An apply that fails after its rescue began leaves on the screen what was there
\* before, whichever rung failed and whatever the rungs before it did.
THEOREM RescuesLeaveNoTrace == Spec => RescueLeavesNoTrace
  <1> DEFINE A == /\ apply.pre # {} /\ ~apply.upset /\ apply' = Idle
                  /\ apply.at \notin {"finishes", "unrestored"}
                  => {<<m, era>> : m \in shown'} = apply.pre
  <1>1. TopologyInv /\ [Next]_vars => [A]_vars
    <2> SUFFICES ASSUME Netted, Next, apply.pre # {}, apply' = Idle,
                        apply.at \notin {"finishes", "unrestored"}
                 PROVE  {<<m, era>> : m \in shown'} = apply.pre
      BY DEF TopologyInv
    <2>a. Shaped(apply) /\ apply.at \in Rescuing
      BY DEF Netted
    <2>b. apply # Idle /\ Idle.at = "idle"
      BY IdleShape
    <2>1. ~Lists /\ ~Invalidates /\ ~Toggles /\ ~AppliesProfile /\ ~RollsBack
      BY <2>b DEF Lists, Invalidates, Toggles, AppliesProfile, RollsBack
    <2>2. ~Begins /\ ~Sets /\ ~Captures /\ ~Finishes /\ ~GivesUp
      BY <2>a DEF Begins, Sets, Captures, Finishes, GivesUp, Rescuing
    <2>3. ~Upsets
      BY <2>a, <2>b DEF Upsets, Shaped, Rescuing
    <2>4. ~Attaches /\ ~Extends /\ ~Switches
      BY <2>a, <2>b, RestoreShape DEF Attaches, Extends, Switches, Exits, Shaped
    <2>5. ~Settles
      <3>1. ASSUME apply.at \in DOMAIN Rung PROVE Rung[apply.at] # Idle
        BY <2>a, <2>b, <3>1, RungShape, RestoreShape DEF Shaped
      <3> QED
        BY <2>a, <2>b, <3>1, RestoreShape DEF Settles, Shaped
    <2>6. Restores
      BY <2>1, <2>2, <2>3, <2>4, <2>5 DEF Next, Plugs, Unplugs, Wakes
    <2>7. apply' # [apply EXCEPT !.at = "unrestored"]
      BY <2>a, <2>b DEF Shaped
    <2> QED
      BY <2>6, <2>7 DEF Restores
  <1> QED
    BY <1>1, TopologyInvariant, PTL DEF Spec, RescueLeavesNoTrace
=============================================================================
