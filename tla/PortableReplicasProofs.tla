----------------------- MODULE PortableReplicasProofs -----------------------
(***************************************************************************)
(* The replicas of PortableReplicas keep their shape, name every event     *)
(* once, and converge, for any devices, sessions, notes, values, files and *)
(* bounds.                                                                 *)
(*                                                                         *)
(* The inductive invariant is in three parts: Typed, the shape of every    *)
(* variable with all counters within MaxCounter (joins of clocks are taken *)
(* of bounded sets); Allocated, a device never allocated beyond its        *)
(* counter; Settled, stored records are the frontier and the last          *)
(* tombstone of all that was received, in stores and in archives.          *)
(***************************************************************************)
EXTENDS PortableReplicas, CausalMergeProofs

Counters == 0 .. MaxCounter

\* Versions and stamps whose counters are all within MaxCounter.
Bounded ==
  {v \in Versions : v.ctr \in Counters /\ \A d \in Devices : v.clock[d] \in Counters}

SmallStamps == {s \in Stamps : s.ctr \in Counters}

SmallRecords == [versions : SUBSET Bounded, deleted : SmallStamps \cup {NoStamp}]

SmallHistories == [versions : SUBSET Bounded, tombs : SUBSET SmallStamps]

SmallBases ==
  [entity : Entities, rev : Counters, kind : {"Chosen", "ShownAll"},
   observed : SUBSET Bounded, writes : Nat]

SmallArchives ==
  [book : {TRUE}, store : [Entities -> SmallRecords],
   received : [Entities -> SmallHistories]]

SmallEvents ==
  [entity : Entities, version : Bounded, settles : BOOLEAN,
   saw : SUBSET Stamps, knew : SUBSET Stamps]

Typed ==
  /\ counter \in [Devices -> Counters]
  /\ present \in [Devices -> BOOLEAN]
  /\ store \in [Devices -> [Entities -> SmallRecords]]
  /\ revision \in [Devices -> [Entities -> Counters]]
  /\ basis \in [Sessions -> SmallBases \cup {NoBasis}]
  /\ archives \in [Files -> SmallArchives \cup {NoArchive}]
  /\ purges \in Nat
  /\ events \subseteq SmallEvents
  /\ received \in [Devices -> [Entities -> SmallHistories]]
  /\ writes \in [Devices -> [Entities -> Nat]]

-----------------------------------------------------------------------------
\* What the operators return

\* The counters of stored versions have a largest one, within the bound.
LEMMA CounterBoundType ==
  ASSUME NEW S \in SUBSET Bounded
  PROVE  /\ CounterBound(S) \in Counters
         /\ \A v \in S, d \in Devices : v.clock[d] <= CounterBound(S)
<1> DEFINE N == {v.ctr : v \in S} \cup {v.clock[d] : v \in S, d \in Devices}
<1>1. N \in SUBSET Nat /\ \A m \in N : m <= MaxCounter
  BY ReplicasAssumption DEF Bounded, Versions, Clocks, Counters
<1>2. Highest(N) \in 0 .. MaxCounter /\ \A m \in N : Highest(N) >= m
  <2> HIDE DEF N
  <2> QED
    BY <1>1, HighestBounds, ReplicasAssumption
<1>3. ASSUME NEW v \in S, NEW d \in Devices PROVE v.clock[d] <= Highest(N)
  <2>1. v.clock[d] \in N
    OBVIOUS
  <2> HIDE DEF N
  <2> QED
    BY <1>1, <1>2, <2>1
<1>4. CounterBound(S) = Highest(N)
  BY DEF CounterBound
<1> HIDE DEF N
<1> QED
  BY <1>2, <1>3, <1>4 DEF Counters

\* A version written with a stamp above all that its writer saw is well formed,
\* carries that stamp, and keeps the counters within the bound.
LEMMA NextVersionType ==
  ASSUME NEW current \in SUBSET Bounded, NEW observed \in SUBSET Bounded,
         NEW stamp, stamp.dev \in Devices, stamp.ctr \in Counters, stamp.ctr > 0,
         ClockAdvances(current, observed, stamp), NEW value \in Values
  PROVE  /\ NextVersion(current, observed, stamp, value) \in Bounded
         /\ NextVersion(current, observed, stamp, value).ctr = stamp.ctr
         /\ NextVersion(current, observed, stamp, value).dev = stamp.dev
<1> DEFINE C == ClocksOf(Seen(current, observed, stamp.dev))
           J == JoinClocks(C)
<1>1. C \in SUBSET Clocks
  BY DEF ClocksOf, Seen, MergeVersions, Bounded, Versions
<1>2. \A c \in C, d \in Devices : c[d] <= stamp.ctr
  <2>1. ASSUME NEW v \in Seen(current, observed, stamp.dev), NEW d \in Devices
        PROVE  v.clock[d] <= stamp.ctr
    <3>1. v.clock[d] < stamp.ctr
      BY DEF ClockAdvances
    <3>2. v.clock[d] \in Nat
      BY DEF Seen, MergeVersions, Bounded, Versions, Clocks
    <3> QED
      BY <3>1, <3>2 DEF Counters
  <2> QED
    BY <2>1 DEF ClocksOf
<1>3. J \in [Devices -> 0 .. stamp.ctr]
  <2> HIDE DEF C
  <2> QED
    BY <1>1, <1>2, JoinBounds DEF Counters
<1>4. [J EXCEPT ![stamp.dev] = stamp.ctr] \in [Devices -> 0 .. stamp.ctr]
  <2> HIDE DEF J
  <2> QED
    BY <1>3 DEF Counters
<1> DEFINE K == [J EXCEPT ![stamp.dev] = stamp.ctr]
           w == [dev |-> stamp.dev, ctr |-> stamp.ctr, clock |-> K, val |-> value]
<1>5. NextVersion(current, observed, stamp, value) = w
  BY DEF NextVersion
<1>6. w \in Bounded
  <2> HIDE DEF K
  <2>1. K \in Clocks /\ \A d \in Devices : K[d] \in Counters
    BY <1>4, ReplicasAssumption DEF K, Clocks, Counters
  <2> QED
    BY <2>1 DEF Bounded, Versions, Counters
<1> QED
  BY <1>5, <1>6

\* Merging keeps records in shape.
LEMMA MergeAnnotationType ==
  ASSUME NEW l \in SmallRecords, NEW r \in SmallRecords
  PROVE  MergeAnnotation(l, r) \in SmallRecords
<1>1. LaterStamp(l.deleted, r.deleted) \in SmallStamps \cup {NoStamp}
  BY DEF LaterStamp, SmallRecords
<1>2. MergeVersions(l.versions \cup r.versions) \in SUBSET Bounded
  BY DEF MergeVersions, SmallRecords
<1> QED
  BY <1>1, <1>2 DEF MergeAnnotation, SmallRecords

\* What a merge knows of counters is within the bound.
LEMMA StoredCountersType ==
  ASSUME NEW records \in [Entities -> SmallRecords]
  PROVE  StoredCounters(records) \in SUBSET Counters
<1>1. ASSUME NEW e \in Entities
      PROVE  /\ CounterBound(records[e].versions) \in Counters
             /\ records[e].deleted.ctr \in Counters
  BY CounterBoundType, ReplicasAssumption DEF SmallRecords, SmallStamps, NoStamp, Counters
<1> QED
  BY <1>1 DEF StoredCounters

\* The histories of a write hold stamps.
LEMMA HistoryTypes ==
  ASSUME Typed, NEW e, NEW S \in SUBSET Bounded
  PROVE  /\ PastOf(e, S) \in SUBSET Stamps
         /\ KnownOf(e, S) \in SUBSET Stamps
<1>1. \A v \in S : StampOf(v) \in Stamps
  BY DEF Bounded, Versions, Stamps, StampOf
<1>2. \A x \in events : x.saw \in SUBSET Stamps /\ x.knew \in SUBSET Stamps
  BY DEF Typed, SmallEvents
<1> QED
  BY <1>1, <1>2 DEF PastOf, KnownOf

-----------------------------------------------------------------------------
\* The shape of the variables

\* What every new version leaves in the store, the counter and the history.
LEMMA SaveTyped ==
  ASSUME Typed, NEW d \in Devices, NEW e \in Entities, NEW v \in Bounded,
         NEW settles \in BOOLEAN, NEW seen \in SUBSET Bounded,
         Save(d, e, v, WriteObserved(store[d][e].versions, v)),
         Record(d, e, v, settles, seen)
  PROVE  /\ store' \in [Devices -> [Entities -> SmallRecords]]
         /\ counter' \in [Devices -> Counters]
         /\ events' \subseteq SmallEvents
         /\ received' \in [Devices -> [Entities -> SmallHistories]]
<1> DEFINE versions == WriteObserved(store[d][e].versions, v)
<1>1. versions \in SUBSET Bounded
  BY DEF WriteObserved, MergeVersions, Typed, SmallRecords
<1> HIDE DEF versions
<1>2. store' \in [Devices -> [Entities -> SmallRecords]]
  <2>1. [store[d][e] EXCEPT !.versions = versions] \in SmallRecords
    BY <1>1, store[d][e] \in SmallRecords DEF Typed, SmallRecords
  <2>2. store' = [store EXCEPT ![d] =
                   [@ EXCEPT ![e] = [store[d][e] EXCEPT !.versions = versions]]]
    BY DEF Save, Typed, versions
  <2> QED
    BY <2>1, <2>2 DEF Typed
<1>3. counter' \in [Devices -> Counters]
  BY DEF Save, Typed, Bounded
<1>4. events' \subseteq SmallEvents
  <2>1. OwnOf(d, e) \in SUBSET Bounded
    BY DEF OwnOf, Typed, SmallHistories
  <2>2. PastOf(e, seen) \in SUBSET Stamps /\ KnownOf(e, seen \cup OwnOf(d, e)) \in SUBSET Stamps
    BY <2>1, HistoryTypes
  <2> DEFINE x == [entity |-> e, version |-> v, settles |-> settles, saw |-> PastOf(e, seen),
                   knew |-> KnownOf(e, seen \cup OwnOf(d, e))]
  <2>3. x \in SmallEvents
    BY <2>2, Zenon DEF SmallEvents
  <2>4. events' = events \cup {x}
    BY Zenon DEF Record
  <2> HIDE DEF x
  <2> QED
    BY <2>3, <2>4 DEF Typed
<1>5. received' \in [Devices -> [Entities -> SmallHistories]]
  <2> DEFINE h == [received[d][e] EXCEPT !.versions = @ \cup {v}]
  <2>1. h \in SmallHistories
    BY received[d][e] \in SmallHistories DEF Typed, SmallHistories
  <2>2. received' = [received EXCEPT ![d] = [@ EXCEPT ![e] = h]]
    BY DEF Record, Typed
  <2> HIDE DEF h
  <2> QED
    BY <2>1, <2>2 DEF Typed
<1> QED
  BY <1>2, <1>3, <1>4, <1>5

\* What Write and CreateNote write: the parts of the state Commit and Record
\* leave, for any version they may commit.
LEMMA CommitTyped ==
  ASSUME Typed, NEW s \in Sessions, NEW d \in Devices, NEW e \in Entities,
         NEW v \in Bounded, NEW settles \in BOOLEAN, NEW seen \in SUBSET Bounded,
         Commit(s, d, e, v, WriteObserved(store[d][e].versions, v)),
         Record(d, e, v, settles, seen)
  PROVE  Typed'
<1>1. v.ctr \in Counters
  BY DEF Bounded
<1>2. /\ store' \in [Devices -> [Entities -> SmallRecords]]
      /\ counter' \in [Devices -> Counters]
      /\ events' \subseteq SmallEvents
      /\ received' \in [Devices -> [Entities -> SmallHistories]]
  BY SaveTyped DEF Commit
<1>3. revision' \in [Devices -> [Entities -> Counters]]
  BY <1>1 DEF Commit, Revised, StampOf, Typed
<1>4. basis' \in [Sessions -> SmallBases \cup {NoBasis}]
  <2> DEFINE b == [entity |-> e, rev |-> v.ctr, kind |-> "Chosen", observed |-> {v},
                   writes |-> writes[d][e] + 1]
  <2>1. b \in SmallBases
    BY <1>1 DEF SmallBases, Typed
  <2>2. basis' = [basis EXCEPT ![s] = b]
    BY DEF Commit
  <2> HIDE DEF b
  <2> QED
    BY <2>1, <2>2 DEF Typed
<1>5. writes' \in [Devices -> [Entities -> Nat]]
  BY DEF Commit, Typed
<1>6. UNCHANGED <<present, archives, purges>>
  BY DEF Commit
<1> QED
  BY <1>2, <1>3, <1>4, <1>5, <1>6 DEF Typed

\* v is what a session that adopted the versions observed writes next over the
\* current ones.
Follows(v, current, observed, value) ==
  /\ v = NextVersion(current, observed, StampOf(v), value)
  /\ ClockAdvances(current, observed, StampOf(v))

\* A write that passes its checks commits a well-formed version under the
\* counter that follows all it knows, built on what its session adopted.
LEMMA WriteFollows ==
  ASSUME Typed, NEW s \in Sessions, NEW intent \in Intents, NEW value \in Values,
         Write(s, intent, value)
  PROVE  \E d \in Devices, e \in Entities, v \in Bounded, seen \in SUBSET Bounded :
           /\ d = Home[s]
           /\ basis[s] # NoBasis /\ e = basis[s].entity
           /\ e \in Notes => store[d][e].deleted = NoStamp
           /\ v.dev = d
           /\ v.ctr > counter[d]
           /\ Follows(v, store[d][e].versions, basis[s].observed, value)
           /\ seen = Seen(store[d][e].versions, basis[s].observed, d)
           /\ MayWrite(store[d][e].versions, revision[d][e], basis[s], intent, value)
           /\ Commit(s, d, e, v, WriteObserved(store[d][e].versions, v))
           /\ Record(d, e, v, intent \in {"Resolve", "Reset"}, seen)
<1> DEFINE d == Home[s]
           b == basis[s]
           e == b.entity
           current == store[d][e].versions
<1>1. d \in Devices
  BY ReplicasAssumption
<1>2. b \in SmallBases
  BY DEF Write, Typed
<1>3. e \in Entities /\ b.rev \in Counters /\ b.observed \in SUBSET Bounded
  BY <1>2 DEF SmallBases
<1>4. current \in SUBSET Bounded /\ counter[d] \in Counters
  BY <1>1, <1>3 DEF Typed, SmallRecords
<1>5. e \in Notes => store[d][e].deleted = NoStamp
  BY DEF Write
<1>6. NextCounter(d, e, b) \in Nat /\ NextCounter(d, e, b) > counter[d]
  <2>1. CounterBound(current) \in Counters
    BY <1>4, CounterBoundType
  <2> QED
    BY <2>1, <1>3, <1>4, ReplicasAssumption DEF NextCounter, Max2, Counters
<1> DEFINE stamp == [dev |-> d, ctr |-> NextCounter(d, e, b)]
           v == NextVersion(current, b.observed, stamp, value)
<1>7. /\ stamp.ctr <= MaxCounter
      /\ ClockAdvances(current, b.observed, stamp)
      /\ Commit(s, d, e, v, WriteObserved(current, v))
      /\ Record(d, e, v, intent \in {"Resolve", "Reset"}, Seen(current, b.observed, d))
  BY DEF Write
<1>8. v \in Bounded /\ v.dev = d /\ v.ctr = stamp.ctr
  <2>1. stamp.dev = d /\ stamp.ctr = NextCounter(d, e, b)
    OBVIOUS
  <2>2. stamp.ctr \in Counters /\ stamp.ctr > 0
    <3>1. NextCounter(d, e, b) <= MaxCounter
      BY <2>1, <1>7
    <3>2. counter[d] \in Nat
      BY <1>4 DEF Counters
    <3> HIDE DEF stamp, d, e, b
    <3> QED
      BY <2>1, <3>1, <3>2, <1>6, ReplicasAssumption DEF Counters
  <2> HIDE DEF stamp, d, current
  <2> QED
    BY <2>1, <2>2, <1>1, <1>3, <1>4, <1>7, NextVersionType
<1>9. Seen(current, b.observed, d) \in SUBSET Bounded
  BY <1>3, <1>4 DEF Seen, MergeVersions
<1>10. v.ctr > counter[d]
  BY <1>6, <1>8
<1>11. Follows(v, current, b.observed, value)
  <2>1. StampOf(v) = stamp
    BY <1>8 DEF StampOf
  <2> QED
    BY <1>7, <2>1 DEF Follows
<1>12. b # NoBasis /\ MayWrite(current, revision[d][e], b, intent, value)
  BY DEF Write
<1> HIDE DEF v, stamp
<1> QED
  BY <1>1, <1>3, <1>5, <1>7, <1>8, <1>9, <1>10, <1>11, <1>12

\* The part of it that the shape and the convergence of the stores need.
LEMMA WriteCommits ==
  ASSUME Typed, NEW s \in Sessions, NEW intent \in Intents, NEW value \in Values,
         Write(s, intent, value)
  PROVE  \E d \in Devices, e \in Entities, v \in Bounded, seen \in SUBSET Bounded :
           /\ e \in Notes => store[d][e].deleted = NoStamp
           /\ v.dev = d
           /\ v.ctr > counter[d]
           /\ Commit(s, d, e, v, WriteObserved(store[d][e].versions, v))
           /\ Record(d, e, v, intent \in {"Resolve", "Reset"}, seen)
BY WriteFollows

\* A new note is committed likewise.
LEMMA CreateFollows ==
  ASSUME Typed, NEW s \in Sessions, NEW e \in Notes, NEW value \in Values,
         CreateNote(s, e, value)
  PROVE  \E d \in Devices, v \in Bounded :
           /\ d = Home[s]
           /\ store[d][e] = Missing
           /\ \A x \in events : x.entity # e
           /\ v.dev = d
           /\ v.ctr > counter[d]
           /\ Follows(v, {}, {}, value)
           /\ Commit(s, d, e, v, WriteObserved(store[d][e].versions, v))
           /\ Record(d, e, v, FALSE, {})
<1> DEFINE d == Home[s]
           stamp == [dev |-> d, ctr |-> counter[d] + 1]
           v == NextVersion({}, {}, stamp, value)
<1>1. d \in Devices
  BY ReplicasAssumption
<1>2. counter[d] \in Counters
  BY <1>1 DEF Typed
<1>3. /\ store[d][e] = Missing
      /\ stamp.ctr <= MaxCounter
      /\ Commit(s, d, e, v, WriteObserved({}, v))
      /\ Record(d, e, v, FALSE, {})
  BY DEF CreateNote
<1>4. ClockAdvances({}, {}, stamp)
  BY DEF ClockAdvances, Seen, MergeVersions
<1>5. v \in Bounded /\ v.dev = d /\ v.ctr = stamp.ctr
  <2>1. stamp.dev = d /\ stamp.ctr = counter[d] + 1
    OBVIOUS
  <2>2. stamp.ctr \in Counters /\ stamp.ctr > 0
    BY <2>1, <1>2, <1>3, ReplicasAssumption DEF Counters
  <2> HIDE DEF stamp, d
  <2> QED
    BY <2>1, <2>2, <1>1, <1>4, NextVersionType
<1>6. v.ctr > counter[d]
  BY <1>2, <1>5 DEF Counters
<1>7. store[d][e].versions = {}
  BY <1>3 DEF Missing
<1>8. Follows(v, {}, {}, value)
  <2>1. StampOf(v) = stamp
    BY <1>5 DEF StampOf
  <2> QED
    BY <1>4, <2>1 DEF Follows
<1>9. \A x \in events : x.entity # e
  BY DEF CreateNote
<1> HIDE DEF v, stamp
<1> QED
  BY <1>1, <1>3, <1>5, <1>6, <1>7, <1>8, <1>9

LEMMA CreateCommits ==
  ASSUME Typed, NEW s \in Sessions, NEW e \in Notes, NEW value \in Values,
         CreateNote(s, e, value)
  PROVE  \E d \in Devices, v \in Bounded :
           /\ store[d][e] = Missing
           /\ v.dev = d
           /\ v.ctr > counter[d]
           /\ Commit(s, d, e, v, WriteObserved(store[d][e].versions, v))
           /\ Record(d, e, v, FALSE, {})
BY CreateFollows

\* The first position of an imported book is written on nothing.
LEMMA AddFollows ==
  ASSUME Typed, NEW d \in Devices, AddBook(d)
  PROVE  \E v \in Bounded :
           /\ store[d][Progress] = Missing
           /\ v.dev = d
           /\ v.ctr > counter[d]
           /\ Follows(v, {}, {}, Start)
           /\ Save(d, Progress, v, WriteObserved(store[d][Progress].versions, v))
           /\ Record(d, Progress, v, FALSE, {})
<1> DEFINE stamp == [dev |-> d, ctr |-> counter[d] + 2]
           v == NextVersion({}, {}, stamp, Start)
<1>1. counter[d] \in Counters
  BY DEF Typed
<1>2. /\ store[d][Progress] = Missing
      /\ stamp.ctr <= MaxCounter
      /\ Save(d, Progress, v, WriteObserved({}, v))
      /\ Record(d, Progress, v, FALSE, {})
  BY DEF AddBook
<1>3. ClockAdvances({}, {}, stamp)
  BY DEF ClockAdvances, Seen, MergeVersions
<1>4. v \in Bounded /\ v.dev = d /\ v.ctr = stamp.ctr
  <2>1. stamp.dev = d /\ stamp.ctr = counter[d] + 2
    OBVIOUS
  <2>2. stamp.ctr \in Counters /\ stamp.ctr > 0
    BY <2>1, <1>1, <1>2, ReplicasAssumption DEF Counters
  <2>3. Start \in Values
    BY ReplicasAssumption
  <2> HIDE DEF stamp
  <2> QED
    BY <2>1, <2>2, <2>3, <1>3, NextVersionType
<1>5. v.ctr > counter[d]
  BY <1>1, <1>4 DEF Counters
<1>6. store[d][Progress].versions = {}
  BY <1>2 DEF Missing
<1>7. Follows(v, {}, {}, Start)
  <2>1. StampOf(v) = stamp
    BY <1>4 DEF StampOf
  <2> QED
    BY <1>3, <2>1 DEF Follows
<1> HIDE DEF v, stamp
<1> QED
  BY <1>2, <1>4, <1>5, <1>6, <1>7

LEMMA TypedInit ==
  Init => Typed
<1> SUFFICES ASSUME Init PROVE Typed
  OBVIOUS
<1>1. Missing \in SmallRecords /\ NothingReceived \in SmallHistories
  BY DEF Missing, NothingReceived, SmallRecords, SmallHistories
<1>2. 0 \in Counters
  BY ReplicasAssumption DEF Counters
<1> QED
  BY <1>1, <1>2 DEF Init, Typed

\* Merging an archive keeps the shape; the counter it leaves is the largest of
\* bounded ones, its own and those of the archive among them.
LEMMA MergeTyped ==
  ASSUME Typed, NEW d \in Devices, NEW f \in Files, MergeArchive(d, f)
  PROVE  /\ Typed'
         /\ counter'[d] >= counter[d]
         /\ \A e \in Entities : counter'[d] >= CounterBound(archives[f].store[e].versions)
         /\ \A c \in Devices \ {d} : counter'[c] = counter[c]
<1> DEFINE a == archives[f]
           merged == MergedStore(store[d], a.store)
           N == {counter[d]} \cup StoredCounters(store[d]) \cup StoredCounters(a.store)
                  \cup StoredCounters(merged)
           got(e) == [versions |-> received[d][e].versions \cup a.received[e].versions,
                      tombs |-> received[d][e].tombs \cup a.received[e].tombs]
<1>1. a \in SmallArchives
  BY DEF MergeArchive, Typed
<1>2. store[d] \in [Entities -> SmallRecords] /\ a.store \in [Entities -> SmallRecords]
  BY <1>1 DEF Typed, SmallArchives
<1>3. merged \in [Entities -> SmallRecords]
  <2>1. ASSUME NEW e \in Entities
        PROVE  MergeAnnotation(store[d][e], a.store[e]) \in SmallRecords
    <3>1. store[d][e] \in SmallRecords /\ a.store[e] \in SmallRecords
      BY <1>2
    <3> HIDE DEF a
    <3> QED
      BY <3>1, MergeAnnotationType
  <2> HIDE DEF a
  <2> QED
    BY <2>1 DEF MergedStore
<1>4. /\ N \in SUBSET Nat /\ (\A n \in N : n <= MaxCounter) /\ counter[d] \in N
      /\ \A e \in Entities : CounterBound(a.store[e].versions) \in N
  <2>1. StoredCounters(store[d]) \in SUBSET Counters /\ StoredCounters(a.store) \in SUBSET Counters
    BY <1>2, StoredCountersType
  <2>2. StoredCounters(merged) \in SUBSET Counters
    <3> HIDE DEF merged
    <3> QED
      BY <1>3, StoredCountersType
  <2>3. counter[d] \in Counters
    BY DEF Typed
  <2>4. \A e \in Entities : CounterBound(a.store[e].versions) \in StoredCounters(a.store)
    BY DEF StoredCounters
  <2> HIDE DEF a, merged
  <2> QED
    BY <2>1, <2>2, <2>3, <2>4, ReplicasAssumption DEF Counters
<1>5. /\ Highest(N) \in Counters /\ Highest(N) >= counter[d]
      /\ \A e \in Entities : Highest(N) >= CounterBound(a.store[e].versions)
  <2> HIDE DEF N
  <2> QED
    BY <1>4, HighestBounds, ReplicasAssumption DEF Counters
<1>6. /\ store' = [store EXCEPT ![d] = merged]
      /\ counter' = [counter EXCEPT ![d] = Highest(N)]
      /\ present' = [present EXCEPT ![d] = TRUE]
      /\ received' = [received EXCEPT ![d] = [e \in Entities |-> got(e)]]
      /\ UNCHANGED <<revision, basis, archives, purges, events, writes>>
  BY DEF MergeArchive
<1>7. [e \in Entities |-> got(e)] \in [Entities -> SmallHistories]
  <2>1. ASSUME NEW e \in Entities PROVE got(e) \in SmallHistories
    <3>1. received[d][e] \in SmallHistories /\ a.received[e] \in SmallHistories
      BY <1>1 DEF Typed, SmallArchives
    <3> HIDE DEF a
    <3> QED
      BY <3>1 DEF SmallHistories
  <2> HIDE DEF got
  <2> QED
    BY <2>1
<1>8. /\ store' \in [Devices -> [Entities -> SmallRecords]]
      /\ counter' \in [Devices -> Counters]
      /\ counter'[d] >= counter[d]
      /\ \A e \in Entities : counter'[d] >= CounterBound(a.store[e].versions)
      /\ \A c \in Devices \ {d} : counter'[c] = counter[c]
  <2> HIDE DEF N, merged, a
  <2> QED
    BY <1>3, <1>5, <1>6 DEF Typed
<1>9. received' \in [Devices -> [Entities -> SmallHistories]]
  <2> HIDE DEF got
  <2> QED
    BY <1>6, <1>7 DEF Typed
<1>10. Typed'
  <2> HIDE DEF N, merged, got, a
  <2> QED
    BY <1>6, <1>8, <1>9 DEF Typed
<1> HIDE DEF N, merged, got
<1> QED
  BY <1>8, <1>10

\* Every step keeps the shape.
LEMMA TypedStep ==
  Typed /\ [Next]_vars => Typed'
<1> SUFFICES ASSUME Typed, [Next]_vars PROVE Typed'
  OBVIOUS
<1> USE DEF durable, history
<1>1. ASSUME NEW d \in Devices, Restart(d) PROVE Typed'
  BY <1>1 DEF Restart, ReleaseAll, Typed
<1>2. ASSUME NEW d \in Devices, AddBook(d) PROVE Typed'
  <2>1. PICK v \in Bounded :
          /\ Save(d, Progress, v, WriteObserved(store[d][Progress].versions, v))
          /\ Record(d, Progress, v, FALSE, {})
    BY <1>2, AddFollows
  <2>2. Progress \in Entities /\ {} \in SUBSET Bounded /\ FALSE \in BOOLEAN
    BY ReplicasAssumption
  <2>3. /\ store' \in [Devices -> [Entities -> SmallRecords]]
        /\ counter' \in [Devices -> Counters]
        /\ events' \subseteq SmallEvents
        /\ received' \in [Devices -> [Entities -> SmallHistories]]
    BY <2>1, <2>2, SaveTyped
  <2>4. /\ present' \in [Devices -> BOOLEAN]
        /\ UNCHANGED <<revision, basis, archives, purges, writes>>
    BY <1>2 DEF AddBook, Typed
  <2> QED
    BY <2>3, <2>4 DEF Typed
<1>12. ASSUME NEW d \in Devices, AddUnread(d) PROVE Typed'
  <2>1. counter' \in [Devices -> Counters]
    BY <1>12, ReplicasAssumption DEF AddUnread, Typed, Counters
  <2> QED
    BY <1>12, <2>1 DEF AddUnread, Typed
<1>3. ASSUME NEW d \in Devices, Purge(d) PROVE Typed'
  <2>1. /\ [e \in Entities |-> Missing] \in [Entities -> SmallRecords]
        /\ [e \in Entities |-> NothingReceived] \in [Entities -> SmallHistories]
    BY DEF Missing, NothingReceived, SmallRecords, SmallHistories
  <2>2. [e \in Entities |-> 0] \in [Entities -> Counters]
    BY ReplicasAssumption DEF Counters
  <2>3. basis' \in [Sessions -> SmallBases \cup {NoBasis}]
    BY <1>3 DEF Purge, ReleaseAll, Typed
  <2>4. /\ store' \in [Devices -> [Entities -> SmallRecords]]
        /\ revision' \in [Devices -> [Entities -> Counters]]
        /\ received' \in [Devices -> [Entities -> SmallHistories]]
    BY <1>3, <2>1, <2>2 DEF Purge, Typed
  <2>5. /\ purges' \in Nat
        /\ present' \in [Devices -> BOOLEAN]
        /\ UNCHANGED <<counter, archives, events, writes>>
    BY <1>3 DEF Purge, Typed
  <2> QED
    BY <2>3, <2>4, <2>5 DEF Typed
<1>4. ASSUME NEW d \in Devices, NEW f \in Files, Export(d, f) PROVE Typed'
  <2> DEFINE a == [book |-> TRUE, store |-> store[d], received |-> received[d]]
  <2>1. a \in SmallArchives
    BY DEF SmallArchives, Typed
  <2>2. archives' = [archives EXCEPT ![f] = a]
    BY <1>4 DEF Export
  <2> HIDE DEF a
  <2> QED
    BY <1>4, <2>1, <2>2 DEF Export, Typed
<1>5. ASSUME NEW d \in Devices, NEW f \in Files, MergeArchive(d, f) PROVE Typed'
  BY <1>5, MergeTyped
<1>6. ASSUME NEW d \in Devices, NEW e \in Notes, DeleteNote(d, e) PROVE Typed'
  <2> DEFINE stamp == [dev |-> d,
                       ctr |-> Max2(counter[d], CounterBound(store[d][e].versions)) + 1]
  <2>0. e \in Entities
    BY DEF Notes
  <2>1. store[d][e].versions \in SUBSET Bounded /\ counter[d] \in Counters
    BY <2>0 DEF Typed, SmallRecords
  <2>2. stamp \in SmallStamps /\ stamp.ctr \in Counters
    <3>1. CounterBound(store[d][e].versions) \in Counters
      BY <2>1, CounterBoundType
    <3>2. stamp.ctr <= MaxCounter
      BY <1>6 DEF DeleteNote
    <3> QED
      BY <2>1, <3>1, <3>2, ReplicasAssumption DEF SmallStamps, Stamps, Counters, Max2
  <2>3. /\ store' = [store EXCEPT ![d][e] = [versions |-> {}, deleted |-> stamp]]
        /\ revision' = [revision EXCEPT ![d][e] = stamp.ctr]
        /\ counter' = [counter EXCEPT ![d] = stamp.ctr]
        /\ received' = [received EXCEPT ![d][e].tombs = @ \cup {stamp}]
        /\ writes' = [writes EXCEPT ![d][e] = @ + 1]
    BY <1>6 DEF DeleteNote, Revised
  <2>4. basis' \in [Sessions -> SmallBases \cup {NoBasis}]
    BY <1>6 DEF DeleteNote, Typed
  <2> HIDE DEF stamp
  <2>5. [versions |-> {}, deleted |-> stamp] \in SmallRecords
    BY <2>2 DEF SmallRecords
  <2>6. store' \in [Devices -> [Entities -> SmallRecords]]
    BY <2>0, <2>3, <2>5 DEF Typed
  <2>7. received' \in [Devices -> [Entities -> SmallHistories]]
    <3> DEFINE h == [received[d][e] EXCEPT !.tombs = @ \cup {stamp}]
    <3>1. h \in SmallHistories
      BY <2>0, <2>2, received[d][e] \in SmallHistories DEF Typed, SmallHistories
    <3>2. received' = [received EXCEPT ![d] = [@ EXCEPT ![e] = h]]
      BY <2>0, <2>3 DEF Typed
    <3> HIDE DEF h
    <3> QED
      BY <2>0, <3>1, <3>2 DEF Typed
  <2>8. /\ revision' \in [Devices -> [Entities -> Counters]]
        /\ counter' \in [Devices -> Counters]
        /\ writes' \in [Devices -> [Entities -> Nat]]
    BY <2>0, <2>2, <2>3 DEF Typed
  <2>9. UNCHANGED <<present, archives, purges, events>>
    BY <1>6 DEF DeleteNote
  <2> QED
    BY <2>4, <2>6, <2>7, <2>8, <2>9 DEF Typed
<1>7. ASSUME NEW s \in Sessions, Release(s) PROVE Typed'
  BY <1>7 DEF Release, Typed
<1>8. ASSUME NEW s \in Sessions, NEW e \in Entities, Adopt(s, e) PROVE Typed'
  <2> DEFINE d == Home[s]
  <2>1. d \in Devices
    BY ReplicasAssumption
  <2>2. PICK sel \in Selections(MergeVersions(store[d][e].versions)) :
          basis' = [basis EXCEPT ![s] =
            [entity |-> e, rev |-> revision[d][e], kind |-> sel.kind,
             observed |-> sel.observed, writes |-> writes[d][e]]]
    BY <1>8 DEF Adopt
  <2>3. MergeVersions(store[d][e].versions) \in SUBSET Bounded
    BY <2>1 DEF MergeVersions, Typed, SmallRecords
  <2>4. sel.kind \in {"Chosen", "ShownAll"} /\ sel.observed \in SUBSET Bounded
    BY <2>3 DEF Selections
  <2>5. [entity |-> e, rev |-> revision[d][e], kind |-> sel.kind,
         observed |-> sel.observed, writes |-> writes[d][e]] \in SmallBases
    BY <2>1, <2>4 DEF SmallBases, Typed
  <2>6. basis' \in [Sessions -> SmallBases \cup {NoBasis}]
    BY <2>2, <2>5 DEF Typed
  <2> QED
    BY <1>8, <2>6 DEF Adopt, Typed
<1>9. ASSUME NEW s \in Sessions, NEW intent \in Intents, NEW value \in Values,
             Write(s, intent, value)
      PROVE  Typed'
  <2>1. PICK d \in Devices, e \in Entities, v \in Bounded, seen \in SUBSET Bounded :
          /\ Commit(s, d, e, v, WriteObserved(store[d][e].versions, v))
          /\ Record(d, e, v, intent \in {"Resolve", "Reset"}, seen)
    BY <1>9, WriteCommits
  <2>2. (intent \in {"Resolve", "Reset"}) \in BOOLEAN
    OBVIOUS
  <2> QED
    BY <2>1, <2>2, CommitTyped
<1>10. ASSUME NEW s \in Sessions, NEW e \in Notes, NEW value \in Values,
              CreateNote(s, e, value)
       PROVE  Typed'
  <2>1. PICK d \in Devices, v \in Bounded :
          /\ Commit(s, d, e, v, WriteObserved(store[d][e].versions, v))
          /\ Record(d, e, v, FALSE, {})
    BY <1>10, CreateCommits
  <2>2. e \in Entities /\ {} \in SUBSET Bounded /\ FALSE \in BOOLEAN
    BY DEF Notes
  <2> QED
    BY <2>1, <2>2, CommitTyped
<1>11. CASE UNCHANGED vars
  BY <1>11 DEF vars, Typed
<1> QED
  BY <1>1, <1>2, <1>3, <1>4, <1>5, <1>6, <1>7, <1>8, <1>9, <1>10, <1>11, <1>12 DEF Next

\* Every variable keeps its shape, for any instance: no merge, write or removal
\* leaves a record the store could not hold.
THEOREM ReplicasTypes ==
  Spec => []TypeOK
<1>1. Typed => TypeOK
  <2> SUFFICES ASSUME Typed PROVE TypeOK
    OBVIOUS
  <2>1. Counters \subseteq Nat /\ Bounded \subseteq Versions /\ SmallStamps \subseteq Stamps
    BY ReplicasAssumption DEF Counters, Bounded, SmallStamps
  <2>2. /\ SmallRecords \subseteq Records
        /\ SmallHistories \subseteq Histories
        /\ SmallBases \subseteq Bases
        /\ SmallEvents \subseteq Events
    BY <2>1 DEF SmallRecords, Records, SmallHistories, Histories, SmallBases, Bases,
                SmallEvents, Events
  <2>3. SmallArchives \subseteq Archives
    BY <2>2 DEF SmallArchives, Archives
  <2> QED
    BY <2>1, <2>2, <2>3 DEF Typed, TypeOK
<1> QED
  BY <1>1, TypedInit, TypedStep, PTL DEF Spec

-----------------------------------------------------------------------------
\* Every stamp names one event

Allocated ==
  /\ \A x \in events : x.version.ctr <= counter[x.version.dev]
  /\ StampsNameOneEvent

\* Counters never fall, so what was allocated stays below them, and a new stamp
\* is above all that its device allocated.
LEMMA AllocatedStep ==
  Typed /\ Allocated /\ [Next]_vars => Allocated'
<1> SUFFICES ASSUME Typed, Allocated, [Next]_vars PROVE Allocated'
  OBVIOUS
<1> USE DEF durable, history
<1>1. \A x \in events : x.version.dev \in Devices /\ x.version.ctr \in Nat
  BY DEF Typed, SmallEvents, Bounded, Versions
<1>2. counter \in [Devices -> Nat] /\ counter' \in [Devices -> Nat]
  BY TypedStep, ReplicasAssumption DEF Typed, Counters
<1>3. ASSUME events' = events, \A d \in Devices : counter'[d] >= counter[d]
      PROVE  Allocated'
  BY <1>1, <1>2, <1>3 DEF Allocated, StampsNameOneEvent
<1>4. ASSUME NEW d \in Devices, NEW e, NEW v \in Bounded, NEW versions,
             NEW settles, NEW seen, v.dev = d, v.ctr > counter[d],
             Save(d, e, v, versions), Record(d, e, v, settles, seen)
      PROVE  Allocated'
  <2> DEFINE y == [entity |-> e, version |-> v, settles |-> settles, saw |-> PastOf(e, seen),
                   knew |-> KnownOf(e, seen \cup OwnOf(d, e))]
  <2>1. events' = events \cup {y} /\ y.version = v
    BY <1>4 DEF Record
  <2>2. counter' = [counter EXCEPT ![d] = v.ctr]
    BY <1>4 DEF Save
  <2> HIDE DEF y
  <2>3. \A x \in events : x.version.dev = d => x.version.ctr < v.ctr
    BY <1>1, <1>2, <1>4 DEF Allocated, Bounded, Versions
  <2>4. \A x \in events : StampOf(x.version) # StampOf(v)
    BY <1>1, <1>4, <2>3 DEF StampOf, Bounded, Versions
  <2>5. \A x \in events' : x.version.ctr <= counter'[x.version.dev]
    BY <1>1, <1>2, <1>4, <2>1, <2>2, <2>3 DEF Allocated, Bounded, Versions
  <2>6. StampsNameOneEvent'
    BY <2>1, <2>4 DEF Allocated, StampsNameOneEvent
  <2> QED
    BY <2>5, <2>6 DEF Allocated
<1>5. ASSUME NEW d \in Devices,
             Restart(d) \/ Purge(d) \/ \E f \in Files : Export(d, f)
      PROVE  Allocated'
  <2>1. events' = events /\ counter' = counter
    BY <1>5 DEF Restart, Purge, Export
  <2> QED
    BY <2>1, <1>2, <1>3
<1>6. ASSUME NEW d \in Devices, NEW f \in Files, MergeArchive(d, f) PROVE Allocated'
  <2>1. events' = events
    BY <1>6 DEF MergeArchive
  <2>2. \A c \in Devices : counter'[c] >= counter[c]
    BY <1>2, <1>6, MergeTyped
  <2> QED
    BY <2>1, <2>2, <1>3
<1>7. ASSUME NEW d \in Devices, NEW e \in Notes, DeleteNote(d, e) PROVE Allocated'
  <2> DEFINE b == CounterBound(store[d][e].versions)
             n == Max2(counter[d], b) + 1
  <2>1. store[d][e].versions \in SUBSET Bounded
    BY DEF Notes, Typed, SmallRecords
  <2>2. b \in Nat
    BY <2>1, CounterBoundType, ReplicasAssumption DEF Counters
  <2>3. n >= counter[d]
    <3> HIDE DEF b
    <3> QED
      BY <1>2, <2>2 DEF Max2
  <2>4. counter' = [counter EXCEPT ![d] = n] /\ events' = events
    BY <1>7 DEF DeleteNote
  <2> HIDE DEF n
  <2> QED
    BY <1>2, <1>3, <2>3, <2>4
<1>8. ASSUME NEW s \in Sessions, Release(s) \/ \E e \in Entities : Adopt(s, e)
      PROVE  Allocated'
  <2>1. events' = events /\ counter' = counter
    BY <1>8 DEF Release, Adopt
  <2> QED
    BY <2>1, <1>2, <1>3
<1>9. ASSUME NEW s \in Sessions, NEW intent \in Intents, NEW value \in Values,
             Write(s, intent, value)
      PROVE  Allocated'
  BY <1>4, <1>9, WriteCommits DEF Commit
<1>10. ASSUME NEW s \in Sessions, NEW e \in Notes, NEW value \in Values,
              CreateNote(s, e, value)
       PROVE  Allocated'
  BY <1>4, <1>10, CreateCommits DEF Commit
<1>12. ASSUME NEW d \in Devices, AddBook(d) PROVE Allocated'
  BY <1>4, <1>12, AddFollows
<1>13. ASSUME NEW d \in Devices, AddUnread(d) PROVE Allocated'
  <2>1. counter' = [counter EXCEPT ![d] = @ + 1] /\ events' = events
    BY <1>13 DEF AddUnread
  <2> QED
    BY <2>1, <1>2, <1>3
<1>11. CASE UNCHANGED vars
  BY <1>11, <1>2, <1>3 DEF vars
<1> QED
  BY <1>5, <1>6, <1>7, <1>8, <1>9, <1>10, <1>11, <1>12, <1>13 DEF Next

\* A stamp names one event for ever: across restarts, merges, and removals of the
\* book that drop every record, the counter of a device never falls.
THEOREM StampsAreUnique ==
  Spec => []StampsNameOneEvent
<1>1. Init => Allocated
  BY DEF Init, Allocated, StampsNameOneEvent
<1>2. Allocated => StampsNameOneEvent
  BY DEF Allocated
<1> QED
  BY <1>1, <1>2, TypedInit, TypedStep, AllocatedStep, PTL DEF Spec

-----------------------------------------------------------------------------
\* Replicas converge

\* kept is what all of got comes down to; the progress is never deleted.
Agrees(e, kept, got) ==
  /\ Last(kept.deleted, got.tombs)
  /\ IF kept.deleted = NoStamp THEN Frontier(kept.versions, got.versions)
     ELSE kept.versions = {}
  /\ e \notin Notes => got.tombs = {}

\* Stores agree with what their device received, and archives with what the
\* exporting device had received.
Settled ==
  /\ \A d \in Devices, e \in Entities : Agrees(e, store[d][e], received[d][e])
  /\ \A f \in Files : archives[f] # NoArchive =>
       \A e \in Entities : Agrees(e, archives[f].store[e], archives[f].received[e])

\* A device with no records and no history agrees.
LEMMA NothingAgrees ==
  ASSUME NEW e
  PROVE  Agrees(e, Missing, NothingReceived)
BY DEF Agrees, Missing, NothingReceived, Last, Frontier, Covers

\* Merging two records that agree with their histories agrees with both.
LEMMA MergeAgrees ==
  ASSUME NEW e, NEW k1 \in SmallRecords, NEW k2 \in SmallRecords,
         NEW g1 \in SmallHistories, NEW g2 \in SmallHistories,
         Agrees(e, k1, g1), Agrees(e, k2, g2)
  PROVE  Agrees(e, MergeAnnotation(k1, k2),
                [versions |-> g1.versions \cup g2.versions, tombs |-> g1.tombs \cup g2.tombs])
<1> DEFINE k == MergeAnnotation(k1, k2)
           g == [versions |-> g1.versions \cup g2.versions, tombs |-> g1.tombs \cup g2.tombs]
           deleted == LaterStamp(k1.deleted, k2.deleted)
<1>1. Last(deleted, g1.tombs \cup g2.tombs)
  <2>1. g1.tombs \in SUBSET Stamps /\ g2.tombs \in SUBSET Stamps
    BY DEF SmallHistories, SmallStamps
  <2>2. Last(k1.deleted, g1.tombs) /\ Last(k2.deleted, g2.tombs)
    BY DEF Agrees
  <2> QED
    BY <2>1, <2>2, LastOfBoth
<1>2. k.deleted = deleted
  BY DEF MergeAnnotation
<1>3. ASSUME deleted = NoStamp PROVE Frontier(k.versions, g.versions)
  <2>1. k1.deleted = NoStamp /\ k2.deleted = NoStamp
    BY <1>3, DevicesAssumption
       DEF LaterStamp, StampBelow, NoStamp, SmallRecords, SmallStamps, Stamps
  <2>2. Frontier(k1.versions, g1.versions) /\ Frontier(k2.versions, g2.versions)
    BY <2>1 DEF Agrees
  <2>3. g1.versions \in SUBSET Versions /\ g2.versions \in SUBSET Versions
    BY DEF SmallHistories, Bounded
  <2>4. k.versions = MergeVersions(k1.versions \cup k2.versions)
    BY <1>3 DEF MergeAnnotation
  <2> QED
    BY <2>2, <2>3, <2>4, FrontiersMerge
<1>4. deleted # NoStamp => k.versions = {}
  BY DEF MergeAnnotation
<1>5. g.tombs = g1.tombs \cup g2.tombs /\ (e \notin Notes => g.tombs = {})
  BY DEF Agrees
<1>6. Agrees(e, k, g)
  <2> HIDE DEF k, g, deleted
  <2> QED
    BY <1>1, <1>2, <1>3, <1>4, <1>5 DEF Agrees
<1> QED
  BY <1>6

\* A write leaves the store agreeing: what it merged its version into is a
\* frontier, and so is the version alone.
LEMMA SaveAgrees ==
  ASSUME Typed, Settled, NEW d \in Devices, NEW e \in Entities, NEW v \in Bounded,
         store[d][e].deleted = NoStamp, NEW settles, NEW seen, archives' = archives,
         Save(d, e, v, WriteObserved(store[d][e].versions, v)),
         Record(d, e, v, settles, seen)
  PROVE  Settled'
<1> DEFINE F == store[d][e].versions
           R == received[d][e].versions
           kept == [store[d][e] EXCEPT !.versions = MergeVersions(F \cup {v})]
           got == [received[d][e] EXCEPT !.versions = R \cup {v}]
<1>1. store[d][e] \in SmallRecords /\ received[d][e] \in SmallHistories
  BY DEF Typed
<1>2. Agrees(e, store[d][e], received[d][e])
  BY DEF Settled
<1>3. Frontier(MergeVersions(F \cup {v}), R \cup {v})
  <2>1. v \in Versions /\ R \in SUBSET Versions /\ {v} \in SUBSET Versions
    BY <1>1 DEF Bounded, SmallHistories
  <2>2. Frontier(F, R) /\ Frontier({v}, {v})
    BY <1>2, <2>1, FrontierOfOne DEF Agrees
  <2> QED
    BY <2>1, <2>2, FrontiersMerge
<1>4. /\ kept.versions = MergeVersions(F \cup {v}) /\ kept.deleted = store[d][e].deleted
      /\ got.versions = R \cup {v} /\ got.tombs = received[d][e].tombs
  BY <1>1 DEF SmallRecords, SmallHistories
<1>5. Agrees(e, kept, got)
  <2> HIDE DEF kept, got
  <2> QED
    BY <1>2, <1>3, <1>4 DEF Agrees
<1>6. /\ store' = [store EXCEPT ![d] = [@ EXCEPT ![e] = kept]]
      /\ received' = [received EXCEPT ![d] = [@ EXCEPT ![e] = got]]
      /\ archives' = archives
  BY DEF Save, Record, WriteObserved, Typed
<1> HIDE DEF kept, got
<1> QED
  BY <1>5, <1>6 DEF Settled, Typed

\* Every step leaves stores and archives agreeing with their histories.
LEMMA SettledStep ==
  Typed /\ Settled /\ [Next]_vars => Settled'
<1> SUFFICES ASSUME Typed, Settled, [Next]_vars PROVE Settled'
  OBVIOUS
<1> USE DEF durable, history
<1>1. ASSUME UNCHANGED <<store, received, archives>> PROVE Settled'
  BY <1>1 DEF Settled
<1>2. ASSUME NEW d \in Devices, Restart(d) \/ AddUnread(d) PROVE Settled'
  BY <1>1, <1>2 DEF Restart, AddUnread
<1>3. ASSUME NEW d \in Devices, Purge(d) PROVE Settled'
  BY <1>3, NothingAgrees DEF Purge, Settled, Typed
<1>4. ASSUME NEW d \in Devices, NEW f \in Files, Export(d, f) PROVE Settled'
  BY <1>4 DEF Export, Settled, Typed
<1>5. ASSUME NEW d \in Devices, NEW f \in Files, MergeArchive(d, f) PROVE Settled'
  <2> DEFINE a == archives[f]
             kept(e) == MergeAnnotation(store[d][e], a.store[e])
             got(e) == [versions |-> received[d][e].versions \cup a.received[e].versions,
                        tombs |-> received[d][e].tombs \cup a.received[e].tombs]
  <2>1. a \in SmallArchives /\ a # NoArchive
    BY <1>5 DEF MergeArchive, Typed
  <2>2. ASSUME NEW e \in Entities PROVE Agrees(e, kept(e), got(e))
    <3>1. /\ store[d][e] \in SmallRecords /\ a.store[e] \in SmallRecords
          /\ received[d][e] \in SmallHistories /\ a.received[e] \in SmallHistories
      BY <2>1 DEF Typed, SmallArchives
    <3>2. Agrees(e, store[d][e], received[d][e]) /\ Agrees(e, a.store[e], a.received[e])
      BY <2>1 DEF Settled
    <3> HIDE DEF a
    <3> QED
      BY <3>1, <3>2, MergeAgrees
  <2>3. /\ store' = [store EXCEPT ![d] = [e \in Entities |-> kept(e)]]
        /\ received' = [received EXCEPT ![d] = [e \in Entities |-> got(e)]]
        /\ archives' = archives
    BY <1>5 DEF MergeArchive, MergedStore
  <2> HIDE DEF kept, got
  <2> QED
    BY <2>2, <2>3 DEF Settled, Typed
<1>6. ASSUME NEW d \in Devices, NEW e \in Notes, DeleteNote(d, e) PROVE Settled'
  <2>0. e \in Entities
    BY DEF Notes
  <2> DEFINE stamp == [dev |-> d,
                       ctr |-> Max2(counter[d], CounterBound(store[d][e].versions)) + 1]
  <2>1. /\ store' = [store EXCEPT ![d][e] = [versions |-> {}, deleted |-> stamp]]
        /\ received' = [received EXCEPT ![d][e].tombs = @ \cup {stamp}]
    BY <1>6 DEF DeleteNote
  <2>2. received[d][e].tombs = {}
    <3>1. store[d][e].deleted = NoStamp /\ received[d][e].tombs \subseteq Stamps
      BY <1>6, <2>0 DEF DeleteNote, Typed, SmallHistories, SmallStamps
    <3>2. Last(NoStamp, received[d][e].tombs)
      BY <2>0, <3>1 DEF Settled, Agrees
    <3> QED
      BY <3>1, <3>2, DevicesAssumption DEF Last, StampBelow, NoStamp, Stamps
  <2>3. stamp # NoStamp
    <3>1. store[d][e].versions \in SUBSET Bounded /\ counter[d] \in Nat
      BY <2>0, ReplicasAssumption DEF Typed, SmallRecords, Counters
    <3>2. CounterBound(store[d][e].versions) \in Nat
      BY <3>1, CounterBoundType, ReplicasAssumption DEF Counters
    <3> QED
      BY <3>1, <3>2 DEF NoStamp, Max2
  <2> HIDE DEF stamp
  <2> DEFINE kept == [versions |-> {}, deleted |-> stamp]
             got == [received[d][e] EXCEPT !.tombs = @ \cup {stamp}]
  <2>4. Agrees(e, kept, got)
    <3>1. got.tombs = {stamp}
      BY <2>0, <2>2, received[d][e] \in SmallHistories DEF Typed, SmallHistories
    <3> HIDE DEF got
    <3> QED
      BY <2>3, <3>1 DEF Agrees, Last
  <2>5. /\ store' = [store EXCEPT ![d] = [@ EXCEPT ![e] = kept]]
        /\ received' = [received EXCEPT ![d] = [@ EXCEPT ![e] = got]]
        /\ archives' = archives
    BY <1>6, <2>1 DEF DeleteNote, Typed
  <2> HIDE DEF kept, got
  <2> QED
    BY <2>0, <2>4, <2>5 DEF Settled, Typed
<1>7. ASSUME NEW s \in Sessions, Release(s) \/ \E e \in Entities : Adopt(s, e)
      PROVE  Settled'
  BY <1>1, <1>7 DEF Release, Adopt
<1>8. ASSUME NEW s \in Sessions, NEW intent \in Intents, NEW value \in Values,
             Write(s, intent, value)
      PROVE  Settled'
  <2>1. PICK d \in Devices, e \in Entities, v \in Bounded, seen \in SUBSET Bounded :
          /\ e \in Notes => store[d][e].deleted = NoStamp
          /\ Commit(s, d, e, v, WriteObserved(store[d][e].versions, v))
          /\ Record(d, e, v, intent \in {"Resolve", "Reset"}, seen)
    BY <1>8, WriteCommits
  <2>2. store[d][e].deleted = NoStamp
    BY <2>1 DEF Settled, Agrees, Last
  <2> QED
    BY <2>1, <2>2, SaveAgrees DEF Commit
<1>9. ASSUME NEW s \in Sessions, NEW e \in Notes, NEW value \in Values,
             CreateNote(s, e, value)
      PROVE  Settled'
  <2>1. PICK d \in Devices, v \in Bounded :
          /\ store[d][e] = Missing
          /\ Commit(s, d, e, v, WriteObserved(store[d][e].versions, v))
          /\ Record(d, e, v, FALSE, {})
    BY <1>9, CreateCommits
  <2>2. store[d][e].deleted = NoStamp /\ e \in Entities
    BY <2>1 DEF Missing, Notes
  <2> QED
    BY <2>1, <2>2, SaveAgrees DEF Commit
<1>11. ASSUME NEW d \in Devices, AddBook(d) PROVE Settled'
  <2>1. PICK v \in Bounded :
          /\ store[d][Progress] = Missing
          /\ Save(d, Progress, v, WriteObserved(store[d][Progress].versions, v))
          /\ Record(d, Progress, v, FALSE, {})
    BY <1>11, AddFollows
  <2>2. /\ Progress \in Entities
        /\ store[d][Progress].deleted = NoStamp
        /\ archives' = archives
    BY <1>11, <2>1, ReplicasAssumption DEF Missing, AddBook
  <2> QED
    BY <2>1, <2>2, SaveAgrees
<1>10. CASE UNCHANGED vars
  BY <1>1, <1>10 DEF vars
<1> QED
  BY <1>11, <1>2, <1>3, <1>4, <1>5, <1>6, <1>7, <1>8, <1>9, <1>10 DEF Next

\* What agrees with its history is what the history comes down to.
LEMMA SettledConverges ==
  Typed /\ Settled => Convergence
<1> SUFFICES ASSUME Typed, Settled, NEW d \in Devices, NEW e \in Entities
             PROVE  LET kept == store[d][e]
                        got == received[d][e]
                    IN  /\ kept.deleted \in got.tombs \cup {NoStamp}
                        /\ \A t \in got.tombs :
                             kept.deleted = t \/ StampBelow(t, kept.deleted)
                        /\ kept.versions = IF kept.deleted = NoStamp
                                           THEN MergeVersions(got.versions) ELSE {}
  BY DEF Convergence
<1>1. Agrees(e, store[d][e], received[d][e])
  BY DEF Settled
<1>2. received[d][e].versions \in SUBSET Versions
  BY DEF Typed, SmallHistories, Bounded
<1>3. store[d][e].deleted = NoStamp
        => store[d][e].versions = MergeVersions(received[d][e].versions)
  BY <1>1, <1>2, FrontierIsMerge DEF Agrees
<1> QED
  BY <1>1, <1>3 DEF Agrees, Last

\* Replicas converge: what a device stores of a book is a function of the set of
\* events it received, whatever the order, repetition and grouping of merges and
\* whatever the merged archives had already dropped.
THEOREM ReplicasConverge ==
  Spec => []Convergence
<1>1. Init => Settled
  BY NothingAgrees DEF Init, Settled
<1> QED
  BY <1>1, TypedInit, TypedStep, SettledStep, SettledConverges, PTL DEF Spec

-----------------------------------------------------------------------------
\* Deleted notes stay deleted

Buried(d, e) ==
  store[d][e].deleted # NoStamp /\ present'[d]
    => store'[d][e].deleted # NoStamp /\ store'[d][e].versions = {}

\* No step brings back a deleted note or any of its text.
LEMMA BuriedStep ==
  ASSUME Typed, Settled, [Next]_vars, NEW d \in Devices, NEW e \in Entities
  PROVE  Buried(d, e)
<1> USE DEF durable, history
<1>1. /\ store[d][e].deleted # NoStamp => store[d][e].versions = {}
      /\ store[d][e] \in SmallRecords
  BY DEF Settled, Agrees, Typed
<1>2. ASSUME store'[d][e] = store[d][e] PROVE Buried(d, e)
  BY <1>1, <1>2 DEF Buried
<1>3. ASSUME NEW c \in Devices, Restart(c) \/ AddUnread(c) \/ \E f \in Files : Export(c, f)
      PROVE  Buried(d, e)
  BY <1>2, <1>3 DEF Restart, AddUnread, Export
<1>4. ASSUME NEW c \in Devices, Purge(c) PROVE Buried(d, e)
  <2>1. CASE c = d
    BY <1>4, <2>1 DEF Purge, Buried, Typed
  <2>2. CASE c # d
    BY <1>2, <1>4, <2>2 DEF Purge, Typed
  <2> QED
    BY <2>1, <2>2
<1>5. ASSUME NEW c \in Devices, NEW f \in Files, MergeArchive(c, f) PROVE Buried(d, e)
  <2>1. CASE c = d
    <3> DEFINE r == archives[f].store[e]
    <3>1. archives[f] \in SmallArchives
      BY <1>5 DEF MergeArchive, Typed
    <3>2. r \in SmallRecords
      BY <3>1 DEF SmallArchives
    <3>3. store'[d][e] = MergeAnnotation(store[d][e], r)
      BY <1>5, <2>1 DEF MergeArchive, MergedStore, Typed
    <3> HIDE DEF r
    <3>4. store[d][e].deleted # NoStamp => LaterStamp(store[d][e].deleted, r.deleted) # NoStamp
      BY <1>1, <3>2, DevicesAssumption
         DEF LaterStamp, StampBelow, NoStamp, SmallRecords, SmallStamps, Stamps
    <3> QED
      BY <3>3, <3>4 DEF MergeAnnotation, Buried
  <2>2. CASE c # d
    BY <1>2, <1>5, <2>2 DEF MergeArchive, Typed
  <2> QED
    BY <2>1, <2>2
<1>6. ASSUME NEW c \in Devices, NEW n \in Notes, DeleteNote(c, n) PROVE Buried(d, e)
  <2>1. CASE c = d /\ n = e
    BY <1>6, <2>1 DEF DeleteNote, Buried
  <2>2. CASE c # d \/ n # e
    BY <1>2, <1>6, <2>2 DEF DeleteNote, Typed, Notes
  <2> QED
    BY <2>1, <2>2
<1>7. ASSUME NEW s \in Sessions, Release(s) \/ \E n \in Entities : Adopt(s, n)
      PROVE  Buried(d, e)
  BY <1>2, <1>7 DEF Release, Adopt
<1>8. ASSUME NEW c \in Devices, NEW n \in Entities, NEW v,
             store[c][n].deleted = NoStamp,
             Save(c, n, v, WriteObserved(store[c][n].versions, v))
      PROVE  Buried(d, e)
  <2>1. CASE c = d /\ n = e
    BY <1>8, <2>1 DEF Buried
  <2>2. CASE c # d \/ n # e
    BY <1>2, <1>8, <2>2 DEF Save, Typed
  <2> QED
    BY <2>1, <2>2
<1>9. ASSUME NEW s \in Sessions, NEW intent \in Intents, NEW value \in Values,
             Write(s, intent, value)
      PROVE  Buried(d, e)
  <2>1. PICK c \in Devices, n \in Entities, v \in Bounded, seen \in SUBSET Bounded :
          /\ n \in Notes => store[c][n].deleted = NoStamp
          /\ Commit(s, c, n, v, WriteObserved(store[c][n].versions, v))
    BY <1>9, WriteCommits
  <2>2. store[c][n].deleted = NoStamp
    BY <2>1 DEF Settled, Agrees, Last
  <2> QED
    BY <1>8, <2>1, <2>2 DEF Commit
<1>10. ASSUME NEW s \in Sessions, NEW n \in Notes, NEW value \in Values,
              CreateNote(s, n, value)
       PROVE  Buried(d, e)
  <2>1. PICK c \in Devices, v \in Bounded :
          store[c][n] = Missing /\ Commit(s, c, n, v, WriteObserved(store[c][n].versions, v))
    BY <1>10, CreateCommits
  <2>2. store[c][n].deleted = NoStamp /\ n \in Entities
    BY <2>1 DEF Missing, Notes
  <2> QED
    BY <1>8, <2>1, <2>2 DEF Commit
<1>12. ASSUME NEW c \in Devices, AddBook(c) PROVE Buried(d, e)
  <2>1. PICK v \in Bounded :
          /\ store[c][Progress] = Missing
          /\ Save(c, Progress, v, WriteObserved(store[c][Progress].versions, v))
    BY <1>12, AddFollows
  <2>2. store[c][Progress].deleted = NoStamp /\ Progress \in Entities
    BY <2>1, ReplicasAssumption DEF Missing
  <2> QED
    BY <1>8, <2>1, <2>2
<1>11. CASE UNCHANGED vars
  BY <1>2, <1>11 DEF vars
<1> QED
  BY <1>12, <1>3, <1>4, <1>5, <1>6, <1>7, <1>9, <1>10, <1>11 DEF Next

\* A deleted note stays deleted on its device until the book is removed from it,
\* whatever is merged or written.
THEOREM TombstonesAreFinal ==
  Spec => TombstoneFinal
<1>1. Init => Settled
  BY NothingAgrees DEF Init, Settled
<1>2. Typed /\ Settled /\ [Next]_vars
        => [\A d \in Devices, e \in Entities :
             store[d][e].deleted # NoStamp /\ present'[d]
               => store'[d][e].deleted # NoStamp /\ store'[d][e].versions = {}]_vars
  BY BuriedStep DEF Buried
<1> QED
  BY <1>1, <1>2, TypedInit, TypedStep, SettledStep, PTL DEF Spec, TombstoneFinal
=============================================================================
