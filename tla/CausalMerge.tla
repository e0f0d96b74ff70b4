---------------------------- MODULE CausalMerge ----------------------------
(***************************************************************************)
(* The merge algebra of portable_state/merge.rs and of its twin in the web *)
(* build, core/portableState/portable-register-core.ts: multi-value        *)
(* registers ordered by per-entity version clocks (reading progress, the   *)
(* text of a bookmark or note) and annotations with permanent tombstones.  *)
(*                                                                         *)
(* A stamp is a device and a local counter.  A clock maps every device to  *)
(* the last counter known of it; a device absent from the program's map    *)
(* is 0 here, which is what every reader of the map assumes.  Wall-clock   *)
(* times travel with a version but decide nothing, so they are left out.   *)
(***************************************************************************)
EXTENDS Naturals

CONSTANTS
  Devices,     \* installations, numbered in the byte order of their ids
  Values       \* what a register can hold

ASSUME DevicesAssumption == Devices \subseteq Nat \ {0}

Clocks == [Devices -> Nat]

Versions == [dev : Devices, ctr : Nat \ {0}, clock : Clocks, val : Values]

Stamps == [dev : Devices, ctr : Nat \ {0}]

NoStamp == [dev |-> 0, ctr |-> 0]

StampOf(v) == [dev |-> v.dev, ctr |-> v.ctr]

-----------------------------------------------------------------------------
\* Clocks

Dominates(c, e) ==
  /\ \A d \in Devices : c[d] >= e[d]
  /\ \E d \in Devices : c[d] > e[d]

\* The largest of the numbers in S, and 0 when there is none.
Highest(S) == CHOOSE n \in S \cup {0} : \A m \in S : n >= m

JoinClocks(C) == [d \in Devices |-> Highest({c[d] : c \in C})]

ClocksOf(S) == {v.clock : v \in S}

ValidClock(v) ==
  /\ v.clock[v.dev] = v.ctr
  /\ \A d \in Devices \ {v.dev} : v.clock[d] < v.ctr

-----------------------------------------------------------------------------
\* Multi-value registers

Superseded(v, S) == \E w \in S : Dominates(w.clock, v.clock)

MergeVersions(S) == {v \in S : ~Superseded(v, S)}

Collide(S) == \E v, w \in S : StampOf(v) = StampOf(w) /\ v # w

\* What a writer has seen: the frontier its session adopted, plus whatever it
\* wrote itself and still holds.
Seen(current, observed, dev) ==
  MergeVersions(observed \cup {v \in current : v.dev = dev})

ClockAdvances(current, observed, stamp) ==
  \A v \in Seen(current, observed, stamp.dev), d \in Devices : v.clock[d] < stamp.ctr

\* Mutants: the clock claims every current version, or only the writer's own.
ClaimsAll(current, observed, stamp, value) ==
  LET context == JoinClocks(ClocksOf(current \cup observed))
  IN  [dev |-> stamp.dev, ctr |-> stamp.ctr,
       clock |-> [context EXCEPT ![stamp.dev] = stamp.ctr], val |-> value]

ClaimsOwn(current, observed, stamp, value) ==
  LET context == JoinClocks(ClocksOf({v \in current : v.dev = stamp.dev}))
  IN  [dev |-> stamp.dev, ctr |-> stamp.ctr,
       clock |-> [context EXCEPT ![stamp.dev] = stamp.ctr], val |-> value]

NextVersion(current, observed, stamp, value) ==
  LET context == JoinClocks(ClocksOf(Seen(current, observed, stamp.dev)))
  IN  [dev |-> stamp.dev, ctr |-> stamp.ctr,
       clock |-> [context EXCEPT ![stamp.dev] = stamp.ctr], val |-> value]

WriteObserved(current, next) == MergeVersions(current \cup {next})

\* Mutant: the first version stands for all.
FirstCounter(S) == IF S = {} THEN 0 ELSE (CHOOSE v \in S : TRUE).ctr

CounterBound(S) ==
  Highest({v.ctr : v \in S} \cup {v.clock[d] : v \in S, d \in Devices})

-----------------------------------------------------------------------------
\* Tombstones

StampBelow(s, t) == s.ctr < t.ctr \/ (s.ctr = t.ctr /\ s.dev < t.dev)

\* NoStamp is below every stamp, so it also stands for "not deleted".
LaterStamp(s, t) == IF StampBelow(s, t) THEN t ELSE s

\* Mutants: the texts are joined and not merged; a later edit revives a note.
JoinAnnotation(l, r) ==
  LET deleted == LaterStamp(l.deleted, r.deleted)
  IN  [deleted |-> deleted,
       versions |-> IF deleted # NoStamp THEN {} ELSE l.versions \cup r.versions]

ReviveAnnotation(l, r) ==
  LET deleted == LaterStamp(l.deleted, r.deleted)
      edited == MergeVersions(l.versions \cup r.versions)
  IN  IF CounterBound(edited) > deleted.ctr
      THEN [deleted |-> NoStamp, versions |-> edited]
      ELSE [deleted |-> deleted, versions |-> {}]

\* A deletion keeps the identity of the deletion and none of the text.
MergeAnnotation(l, r) ==
  LET deleted == LaterStamp(l.deleted, r.deleted)
  IN  [deleted |-> deleted,
       versions |-> IF deleted # NoStamp THEN {}
                    ELSE MergeVersions(l.versions \cup r.versions)]
=============================================================================
