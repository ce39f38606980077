----------------------------- MODULE Enumeration -----------------------------
(***************************************************************************)
(* What the display backend makes of an enumeration: the snapshot of what  *)
(* Windows reports, its merge with what the backend remembers, and the     *)
(* remapping of a saved layout onto it.                                    *)
(*                                                                         *)
(* A connector, <<m, era>>, is the target of monitor m under the adapter   *)
(* LUIDs of one era (Windows renumbers the adapters when the machine wakes *)
(* up).  The EDID hash tells the monitors apart, or was not read.          *)
(* Geometry, names and colour are left out, and so are the list of         *)
(* DisplayInfo, merged by the same rules, and twin monitors: the hash      *)
(* takes the device path in.                                               *)
(***************************************************************************)
EXTENDS Naturals, FiniteSets, SequencesExt

CONSTANTS Monitors,         \* 1 .. n, each on a connector of its own
          Adapter, Target,  \* of each: its graphics adapter; its number there
          Flaky,            \* bound: those whose hash may not be read
          None              \* an EDID that was not read; nothing remembered

ASSUME MonitorsAssumption ==
  /\ Monitors \subseteq Nat /\ IsFiniteSet(Monitors) /\ None \notin Monitors
  /\ \A m, n \in Monitors : Adapter[m] = Adapter[n] /\ Target[m] = Target[n] => m = n

Luid(c) == <<Adapter[c[1]], c[2]>>
TargetId(c) == Target[c[1]]

\* The DisplayId of an OutputConfig: the connector and the hash.
Id(o) == <<o.at, o.edid>>
Ids(l) == {Id(l[i]) : i \in DOMAIN l}
Connectors(l) == {l[i].at : i \in DOMAIN l}
On(l) == {l[i].at : i \in {j \in DOMAIN l : l[j].enabled}}

\* snapshot_from_raw: the paths of the configuration, then what was seeded, which has no
\* path that can be applied.
Snapshot(era, shown, db, seeded, unread) ==
  LET Out(m) == [at |-> <<m, era>>, edid |-> IF m \in unread THEN None ELSE m,
                 enabled |-> m \in shown]
      Listed(S) == LET q == SetToSeq(S) IN [i \in DOMAIN q |-> Out(q[i])]
  IN [raw |-> {<<m, era>> : m \in shown \cup db},
      layout |-> Listed(shown) \o Listed(db) \o Listed(seeded)]

Hashless(shown) == SUBSET (shown \cap Flaky)

\* query_active_only_topology, when it answers.
ActiveOnly(era, shown) == {Snapshot(era, shown, {}, {}, u) : u \in Hashless(shown)}

\* enrich_with_missing_target_paths and seed_connected_inactive_displays: what is off and
\* whose path Windows' database has, and of the rest what is in ALL_PATHS.  What is off
\* and cannot be read is left out, and either query may fail.
Enriched(off) == SUBSET off
Seeded(off, enriched) == SUBSET (off \ enriched)

\* query_active_topology, when it answers.
Enumerations(era, plugged, shown) ==
  LET off == plugged \ shown
  IN UNION {{Snapshot(era, shown, d, s, u) : s \in Seeded(off, d), u \in Hashless(shown)} :
              d \in Enriched(off)}

----------------------------------------------------------------------------
Covers(raw, l) == On(l) \subseteq raw

\* merge_snapshot_for_cache: the paths of before, which hold that of a monitor just
\* detached, as long as they cover what is on.
MergeSnapshot(previous, fresh) ==
  IF /\ previous # None
     /\ Cardinality(previous.raw) > Cardinality(fresh.raw)
     /\ Covers(previous.raw, fresh.layout)
  THEN [fresh EXCEPT !.raw = previous.raw] ELSE fresh

\* Seeded bug: what was renumbered stays in the list.
NoDuplicate(o, fresh, raw) == FALSE

\* cached_id_is_stale_duplicate: the monitor is elsewhere now, and its connector gone.
StaleDuplicate(o, fresh, raw) ==
  /\ o.edid # None /\ o.at \notin raw
  /\ \E i \in DOMAIN fresh : fresh[i].edid = o.edid /\ fresh[i].at # o.at

\* push_output_preferring_known_edid.
Push(l, o) ==
  IF o.at \notin Connectors(l) THEN Append(l, o)
  ELSE [i \in DOMAIN l |-> IF l[i].at = o.at /\ l[i].edid = None /\ o.edid # None THEN o ELSE l[i]]

\* A connector that is still there: the fresh word on it, but for a hash not read.
Fresher(o, fresh) ==
  LET f == CHOOSE f \in ToSet(fresh) : f.at = o.at
  IN IF f.edid = None THEN [f EXCEPT !.edid = o.edid] ELSE f

\* What is gone stays in the list, off.
Kept(o, fresh) == IF o.at \in Connectors(fresh) THEN Fresher(o, fresh)
                  ELSE [o EXCEPT !.enabled = FALSE]

\* merge_layout_with_fresh: first what is remembered, then what is new.
MergeLayout(previous, fresh, raw) ==
  LET kept[k \in 0 .. Len(previous)] ==
        IF k = 0 THEN <<>>
        ELSE IF StaleDuplicate(previous[k], fresh, raw) THEN kept[k - 1]
        ELSE Push(kept[k - 1], Kept(previous[k], fresh))
      merged[k \in 0 .. Len(fresh)] ==
        IF k = 0 THEN kept[Len(previous)]
        ELSE IF fresh[k].at \in Connectors(merged[k - 1]) THEN merged[k - 1]
        ELSE Append(merged[k - 1], fresh[k])
  IN merged[Len(fresh)]

----------------------------------------------------------------------------
\* choose_remap_candidate: the one Windows enumerates, else the one that is on.
Chosen(candidates, enumerated) ==
  LET seen == {c \in candidates : c.at \in enumerated}
      on == {c \in (IF seen = {} THEN candidates ELSE seen) : c.enabled}
  IN IF Cardinality(candidates) = 1 THEN candidates
     ELSE IF Cardinality(seen) = 1 THEN seen
     ELSE IF Cardinality(on) = 1 THEN on ELSE {}

\* candidates_share_one_adapter.
ShareOneAdapter(candidates) == \A c, d \in candidates : Luid(c.at) = Luid(d.at)

\* By the hash; without one, by target id, where only one adapter has it.
Replacements(o, current, used, enumerated) ==
  LET unused == {c \in ToSet(current) : Id(c) \notin used}
      same == {c \in unused : IF o.edid # None THEN c.edid = o.edid
                              ELSE TargetId(c.at) = TargetId(o.at)}
  IN IF o.edid = None /\ ~ShareOneAdapter(same) THEN {} ELSE Chosen(same, enumerated)

\* remap_layout_display_ids_for_snapshot; the manager's, with nothing enumerated.  What
\* is known stays; the rest takes what no output took before it.
Remap(desired, current, enumerated) ==
  LET known == Ids(desired) \cap Ids(current)
      Found(o, used) == IF Id(o) \in known THEN {} ELSE Replacements(o, current, used, enumerated)
      taken[k \in 0 .. Len(desired)] ==
        IF k = 0 THEN known
        ELSE taken[k - 1] \cup {Id(c) : c \in Found(desired[k], taken[k - 1])}
      Replaced(o, r) ==
        IF r = {} THEN o
        ELSE LET c == CHOOSE c \in r : TRUE IN [o EXCEPT !.at = c.at, !.edid = c.edid]
  IN IF Ids(desired) \subseteq Ids(current) THEN desired
     ELSE [k \in DOMAIN desired |-> Replaced(desired[k], Found(desired[k], taken[k - 1]))]

\* desired_enables_inactive_output, enabled_outputs_missing_from_raw.
EnablesInactive(l, active) ==
  \E i \in DOMAIN l : l[i].enabled /\ \A j \in DOMAIN active :
     ~(active[j].enabled /\ Id(active[j]) = Id(l[i]))
Missing(l, raw) == On(l) \ raw

\* select_attach_candidates: of what is missing, what was seeded.
Attachable(missing, s) == missing \cap (Connectors(s.layout) \ s.raw)

\* desired_output_index: of two outputs at one connector the last counts.
Counts(l, i) == \A j \in i + 1 .. Len(l) : l[j].at # l[i].at

\* apply_layout_against_snapshot: the paths that go out flagged active.
Request(l, raw) == {c \in raw : \E i \in DOMAIN l : l[i].at = c /\ l[i].enabled /\ Counts(l, i)}

\* The layout kept after an apply: as asked for, and on where Windows lists it.
Applied(l, next) ==
  [i \in DOMAIN l |-> IF Id(l[i]) \in Ids(next) THEN [l[i] EXCEPT !.enabled = TRUE] ELSE l[i]]
=============================================================================
