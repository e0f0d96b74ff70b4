---------------------- MODULE PortableCausalityProofs ----------------------
(***************************************************************************)
(* What a version of PortableReplicas says of the versions before it, for  *)
(* any devices, sessions, notes, values, files and bounds: a basis that is *)
(* still current is never stale, the clocks refuse no write and never      *)
(* keep what was seen nor drop what was not, and a resolution settles.     *)
(*                                                                         *)
(* To the inductive invariant of PortableReplicasProofs this adds: Guarded,*)
(* revisions and bases follow the counter; Sourced, whatever is stored,    *)
(* exported or adopted was written; Covered, clocks stay below the counter *)
(* of every device that holds them and of every device they speak of;      *)
(* Remembered, a version is above all its writer saw; and, as long as no   *)
(* book is removed, Informed, it is above nothing else.                    *)
(***************************************************************************)
EXTENDS PortableReplicasProofs

-----------------------------------------------------------------------------
\* Bases and revisions

Guarded ==
  /\ \A d \in Devices, e \in Entities : revision[d][e] <= counter[d]
  /\ \A s \in Sessions :
       LET d == Home[s]
           b == basis[s]
       IN  b # NoBasis =>
             /\ b.rev <= revision[d][b.entity]
             /\ b.rev = revision[d][b.entity] => b.writes = writes[d][b.entity]

\* A write is a local revision above all earlier ones, so it outdates every
\* basis of the entity on its device but the writer's own.
LEMMA CommitGuarded ==
  ASSUME Typed, Guarded, NEW s \in Sessions, NEW d \in Devices, NEW e \in Entities,
         NEW v \in Bounded, NEW versions,
         d = Home[s], v.ctr > counter[d],
         Commit(s, d, e, v, versions)
  PROVE  Guarded'
<1>1. /\ revision' = [revision EXCEPT ![d][e] = v.ctr]
      /\ counter' = [counter EXCEPT ![d] = v.ctr]
      /\ basis' = [basis EXCEPT ![s] =
           [entity |-> e, rev |-> v.ctr, kind |-> "Chosen", observed |-> {v},
            writes |-> writes[d][e] + 1]]
      /\ writes' = [writes EXCEPT ![d][e] = @ + 1]
  BY DEF Commit, Save, Revised, StampOf
<1>2. /\ v.ctr \in Nat /\ counter \in [Devices -> Nat]
      /\ revision \in [Devices -> [Entities -> Nat]]
      /\ writes \in [Devices -> [Entities -> Nat]]
  BY ReplicasAssumption DEF Bounded, Typed, Counters
<1>3. \A c \in Devices, i \in Entities : revision'[c][i] <= counter'[c]
  BY <1>1, <1>2 DEF Guarded
<1>4. ASSUME NEW r \in Sessions, basis'[r] # NoBasis
      PROVE  /\ basis'[r].rev <= revision'[Home[r]][basis'[r].entity]
             /\ basis'[r].rev = revision'[Home[r]][basis'[r].entity]
                  => basis'[r].writes = writes'[Home[r]][basis'[r].entity]
  <2>1. CASE r = s
    <3>1. basis'[r] = [entity |-> e, rev |-> v.ctr, kind |-> "Chosen", observed |-> {v},
                       writes |-> writes[d][e] + 1]
      BY <1>1, <2>1 DEF Typed
    <3> QED
      BY <3>1, <1>1, <1>2, <2>1
  <2>2. CASE r # s
    <3> DEFINE b == basis[r]
    <3>1. basis'[r] = b /\ b \in SmallBases
      BY <1>1, <1>4, <2>2 DEF Typed
    <3>2. b.rev \in Nat /\ b.entity \in Entities /\ Home[r] \in Devices
      BY <3>1, ReplicasAssumption DEF SmallBases, Counters
    <3>3. /\ b.rev <= revision[Home[r]][b.entity]
          /\ b.rev = revision[Home[r]][b.entity] => b.writes = writes[Home[r]][b.entity]
      BY <1>4, <3>1 DEF Guarded
    <3> HIDE DEF b
    <3>4. CASE Home[r] = d /\ b.entity = e
      <4>1. revision'[d][e] = v.ctr /\ b.rev < v.ctr
        BY <1>1, <1>2, <3>2, <3>3, <3>4 DEF Guarded
      <4> QED
        BY <3>1, <3>4, <3>2, <1>2, <4>1
    <3>5. CASE Home[r] # d \/ b.entity # e
      <4>1. /\ revision'[Home[r]][b.entity] = revision[Home[r]][b.entity]
            /\ writes'[Home[r]][b.entity] = writes[Home[r]][b.entity]
        BY <1>1, <1>2, <3>2, <3>5
      <4> QED
        BY <3>1, <3>3, <4>1
    <3> QED
      BY <3>4, <3>5
  <2> QED
    BY <2>1, <2>2
<1> QED
  BY <1>3, <1>4 DEF Guarded

\* Removing a book starts the revisions again, but releases the bases too.
LEMMA GuardedStep ==
  Typed /\ Guarded /\ [Next]_vars => Guarded'
<1> SUFFICES ASSUME Typed, Guarded, [Next]_vars PROVE Guarded'
  OBVIOUS
<1> USE DEF durable, history
<1>1. /\ counter \in [Devices -> Nat] /\ Home \in [Sessions -> Devices]
      /\ revision \in [Devices -> [Entities -> Nat]]
  BY ReplicasAssumption DEF Typed, Counters
<1>2. ASSUME UNCHANGED <<revision, counter, writes>>,
             \A s \in Sessions : basis'[s] \in {basis[s], NoBasis}
      PROVE  Guarded'
  BY <1>2 DEF Guarded
<1>3. ASSUME NEW d \in Devices, Restart(d) PROVE Guarded'
  <2>1. \A s \in Sessions : basis'[s] \in {basis[s], NoBasis}
    BY <1>3 DEF Restart, ReleaseAll
  <2> QED
    BY <1>2, <1>3, <2>1 DEF Restart
<1>4. ASSUME NEW d \in Devices, NEW f \in Files, Export(d, f) PROVE Guarded'
  BY <1>2, <1>4 DEF Export
<1>13. ASSUME NEW d \in Devices, AddBook(d) \/ AddUnread(d) PROVE Guarded'
  <2>1. PICK n \in Nat : n > counter[d] /\ counter' = [counter EXCEPT ![d] = n]
    <3>1. CASE AddBook(d)
      <4>1. PICK v \in Bounded :
              v.ctr > counter[d] /\ Save(d, Progress, v, WriteObserved(store[d][Progress].versions, v))
        BY <3>1, AddFollows
      <4>2. v.ctr \in Nat
        BY ReplicasAssumption DEF Bounded, Counters
      <4>3. counter' = [counter EXCEPT ![d] = v.ctr]
        BY <4>1 DEF Save
      <4> QED
        BY <4>1, <4>2, <4>3
    <3>2. CASE AddUnread(d)
      <4>1. counter' = [counter EXCEPT ![d] = counter[d] + 1]
        BY <3>2 DEF AddUnread
      <4>2. counter[d] + 1 \in Nat /\ counter[d] + 1 > counter[d]
        BY <1>1
      <4> QED
        BY <4>1, <4>2
    <3> QED
      BY <1>13, <3>1, <3>2
  <2>2. UNCHANGED <<revision, basis, writes>>
    BY <1>13 DEF AddBook, AddUnread
  <2> QED
    BY <1>1, <2>1, <2>2 DEF Guarded
<1>5. ASSUME NEW d \in Devices, Purge(d) PROVE Guarded'
  <2>1. \A c \in Devices, e \in Entities :
          revision'[c][e] = IF c = d THEN 0 ELSE revision[c][e]
    BY <1>1, <1>5 DEF Purge
  <2>2. \A s \in Sessions : basis'[s] = IF Home[s] = d THEN NoBasis ELSE basis[s]
    BY <1>5 DEF Purge, ReleaseAll
  <2>3. counter' = counter /\ writes' = writes
    BY <1>5 DEF Purge
  <2>4. \A c \in Devices, e \in Entities : revision'[c][e] <= counter'[c]
    BY <1>1, <2>1, <2>3 DEF Guarded
  <2>5. ASSUME NEW s \in Sessions, basis'[s] # NoBasis
        PROVE  /\ basis'[s] = basis[s]
               /\ revision'[Home[s]][basis[s].entity] = revision[Home[s]][basis[s].entity]
    <3>1. basis'[s] = basis[s] /\ Home[s] # d
      BY <2>2, <2>5
    <3>2. basis[s].entity \in Entities /\ Home[s] \in Devices
      BY <1>1, <2>5, <3>1 DEF Typed, SmallBases
    <3> QED
      BY <2>1, <3>1, <3>2
  <2> QED
    BY <2>3, <2>4, <2>5 DEF Guarded
<1>6. ASSUME NEW d \in Devices, NEW f \in Files, MergeArchive(d, f) PROVE Guarded'
  <2>1. \A c \in Devices : counter'[c] \in Nat /\ counter'[c] >= counter[c]
    <3>1. counter' \in [Devices -> Counters]
      BY <1>6, MergeTyped DEF Typed
    <3>2. /\ counter'[d] >= counter[d]
          /\ \A c \in Devices \ {d} : counter'[c] = counter[c]
      BY <1>6, MergeTyped
    <3> QED
      BY <1>1, <3>1, <3>2, ReplicasAssumption DEF Counters
  <2>2. UNCHANGED <<revision, basis, writes>>
    BY <1>6 DEF MergeArchive
  <2> QED
    BY <1>1, <2>1, <2>2 DEF Guarded
<1>7. ASSUME NEW d \in Devices, NEW e \in Notes, DeleteNote(d, e) PROVE Guarded'
  <2> DEFINE n == Max2(counter[d], CounterBound(store[d][e].versions)) + 1
  <2>1. e \in Entities
    BY DEF Notes
  <2>2. n \in Nat /\ n >= counter[d]
    <3>1. store[d][e].versions \in SUBSET Bounded
      BY <2>1 DEF Typed, SmallRecords
    <3>2. CounterBound(store[d][e].versions) \in Nat
      BY <3>1, CounterBoundType, ReplicasAssumption DEF Counters
    <3> QED
      BY <1>1, <3>2 DEF Max2
  <2>3. /\ revision' = [revision EXCEPT ![d][e] = n]
        /\ counter' = [counter EXCEPT ![d] = n]
        /\ writes' = [writes EXCEPT ![d][e] = @ + 1]
    BY <1>7 DEF DeleteNote, Revised
  <2>4. \A s \in Sessions :
          basis'[s] = IF Home[s] = d /\ basis[s] # NoBasis /\ basis[s].entity = e
                      THEN NoBasis ELSE basis[s]
    BY <1>7 DEF DeleteNote
  <2> HIDE DEF n
  <2>5. \A c \in Devices, i \in Entities : revision'[c][i] <= counter'[c]
    BY <1>1, <2>1, <2>2, <2>3 DEF Guarded
  <2>6. ASSUME NEW s \in Sessions, basis'[s] # NoBasis
        PROVE  /\ basis'[s] = basis[s]
               /\ revision'[Home[s]][basis[s].entity] = revision[Home[s]][basis[s].entity]
               /\ writes'[Home[s]][basis[s].entity] = writes[Home[s]][basis[s].entity]
    <3>1. basis'[s] = basis[s] /\ (Home[s] # d \/ basis[s].entity # e)
      BY <2>4, <2>6
    <3>2. basis[s].entity \in Entities /\ Home[s] \in Devices
      BY <1>1, <2>6, <3>1 DEF Typed, SmallBases
    <3> QED
      BY <1>1, <2>3, <3>1, <3>2 DEF Typed
  <2> QED
    BY <2>5, <2>6 DEF Guarded
<1>8. ASSUME NEW s \in Sessions, Release(s) PROVE Guarded'
  BY <1>2, <1>8 DEF Release, Typed
<1>9. ASSUME NEW s \in Sessions, NEW e \in Entities, Adopt(s, e) PROVE Guarded'
  <2>1. PICK sel : basis' = [basis EXCEPT ![s] =
            [entity |-> e, rev |-> revision[Home[s]][e], kind |-> sel.kind,
             observed |-> sel.observed, writes |-> writes[Home[s]][e]]]
    BY <1>9 DEF Adopt
  <2>2. UNCHANGED <<revision, counter, writes>>
    BY <1>9 DEF Adopt
  <2>3. \A r \in Sessions : r # s => basis'[r] = basis[r]
    BY <2>1 DEF Typed
  <2>4. /\ basis'[s].entity = e
        /\ basis'[s].rev = revision[Home[s]][e]
        /\ basis'[s].writes = writes[Home[s]][e]
    BY <2>1 DEF Typed
  <2>5. revision[Home[s]][e] <= revision[Home[s]][e]
    BY <1>1
  <2> QED
    BY <2>2, <2>3, <2>4, <2>5 DEF Guarded
<1>10. ASSUME NEW s \in Sessions, NEW intent \in Intents, NEW value \in Values,
              Write(s, intent, value)
       PROVE  Guarded'
  <2>1. PICK d \in Devices, e \in Entities, v \in Bounded, seen \in SUBSET Bounded :
          /\ d = Home[s] /\ v.ctr > counter[d]
          /\ Commit(s, d, e, v, WriteObserved(store[d][e].versions, v))
          /\ Record(d, e, v, intent \in {"Resolve", "Reset"}, seen)
    BY <1>10, WriteFollows
  <2> QED
    BY <2>1, CommitGuarded
<1>11. ASSUME NEW s \in Sessions, NEW e \in Notes, NEW value \in Values,
              CreateNote(s, e, value)
       PROVE  Guarded'
  <2>1. PICK d \in Devices, v \in Bounded :
          /\ d = Home[s] /\ v.ctr > counter[d]
          /\ Commit(s, d, e, v, WriteObserved(store[d][e].versions, v))
          /\ Record(d, e, v, FALSE, {})
    BY <1>11, CreateFollows
  <2>2. e \in Entities
    BY DEF Notes
  <2> QED
    BY <2>1, <2>2, CommitGuarded
<1>12. CASE UNCHANGED vars
  BY <1>2, <1>12 DEF vars
<1> QED
  BY <1>3, <1>4, <1>5, <1>6, <1>7, <1>8, <1>9, <1>10, <1>11, <1>12, <1>13 DEF Next

\* A basis that passes the revision check was captured after the last write of
\* the entity on its device: two sessions of a device never overwrite each other
\* unseen, and adding a removed book again revives no old basis.
THEOREM NoWriteIsStale ==
  Spec => []NoStaleLocalWrite
<1>1. Init => Guarded
  BY ReplicasAssumption DEF Init, Guarded
<1>2. Guarded => NoStaleLocalWrite
  BY DEF Guarded, NoStaleLocalWrite
<1> QED
  BY <1>1, <1>2, TypedInit, TypedStep, GuardedStep, PTL DEF Spec

-----------------------------------------------------------------------------
\* Whatever is stored, exported or adopted was written

WasWritten(e, S) == \A v \in S : \E x \in events : x.entity = e /\ x.version = v

Sourced ==
  /\ \A d \in Devices, e \in Entities : WasWritten(e, received[d][e].versions)
  /\ \A f \in Files : archives[f] # NoArchive =>
       \A e \in Entities : WasWritten(e, archives[f].received[e].versions)
  /\ \A s \in Sessions : basis[s] # NoBasis => WasWritten(basis[s].entity, basis[s].observed)

\* Device d adds v, the version of e that follows what was observed: what a session
\* of it adopted, or nothing for a note of its own and for an imported book.  It is
\* the only version a basis can be new of.
Commits(d, e, v, observed, value, settles) ==
  /\ store[d][e].deleted = NoStamp
  /\ v.dev = d /\ v.ctr > counter[d]
  /\ Follows(v, store[d][e].versions, observed, value)
  /\ \/ observed = {}
     \/ \E s \in Sessions :
          /\ Home[s] = d /\ basis[s] # NoBasis
          /\ basis[s].entity = e /\ basis[s].observed = observed
  /\ Save(d, e, v, WriteObserved(store[d][e].versions, v))
  /\ Record(d, e, v, settles, Seen(store[d][e].versions, observed, d))
  /\ archives' = archives
  /\ \A s \in Sessions :
       \/ basis'[s] = basis[s]
       \/ Home[s] = d /\ basis'[s].entity = e /\ basis'[s].observed = {v}

\* The basis a writer is left with is of the version it wrote.
LEMMA CommitLeavesBasis ==
  ASSUME Typed, NEW s \in Sessions, NEW d, NEW e, NEW v, d = Home[s],
         basis' = [basis EXCEPT ![s] =
                     [entity |-> e, rev |-> v.ctr, kind |-> "Chosen", observed |-> {v},
                      writes |-> writes[d][e] + 1]]
  PROVE  \A r \in Sessions :
           \/ basis'[r] = basis[r]
           \/ Home[r] = d /\ basis'[r].entity = e /\ basis'[r].observed = {v}
<1> DEFINE b == [entity |-> e, rev |-> v.ctr, kind |-> "Chosen", observed |-> {v},
                 writes |-> writes[d][e] + 1]
<1>1. b.entity = e /\ b.observed = {v}
  OBVIOUS
<1>2. basis' = [basis EXCEPT ![s] = b]
  OBVIOUS
<1> HIDE DEF b
<1> QED
  BY <1>1, <1>2 DEF Typed

\* A write commits what follows its basis.
LEMMA WriteBuilds ==
  ASSUME Typed, Settled, NEW s \in Sessions, NEW intent \in Intents, NEW value \in Values,
         Write(s, intent, value)
  PROVE  \E d \in Devices, e \in Entities, v \in Bounded :
           /\ MayWrite(store[d][e].versions, revision[d][e], basis[s], intent, value)
           /\ Commits(d, e, v, basis[s].observed, value, intent \in {"Resolve", "Reset"})
<1>1. PICK d \in Devices, e \in Entities, v \in Bounded, seen \in SUBSET Bounded :
           /\ d = Home[s]
           /\ basis[s] # NoBasis /\ e = basis[s].entity
           /\ e \in Notes => store[d][e].deleted = NoStamp
           /\ v.dev = d
           /\ v.ctr > counter[d]
           /\ Follows(v, store[d][e].versions, basis[s].observed, value)
           /\ seen = Seen(store[d][e].versions, basis[s].observed, d)
           /\ MayWrite(store[d][e].versions, revision[d][e], basis[s], intent, value)
           /\ Commit(s, d, e, v, WriteObserved(store[d][e].versions, v))
           /\ Record(d, e, v, intent \in {"Resolve", "Reset"}, seen)
  BY WriteFollows
<1>2. store[d][e].deleted = NoStamp
  BY <1>1 DEF Settled, Agrees, Last
<1>3. Commits(d, e, v, basis[s].observed, value, intent \in {"Resolve", "Reset"})
  <2>1. \A r \in Sessions :
          \/ basis'[r] = basis[r]
          \/ Home[r] = d /\ basis'[r].entity = e /\ basis'[r].observed = {v}
    <3>1. /\ d = Home[s]
          /\ basis' = [basis EXCEPT ![s] =
                        [entity |-> e, rev |-> v.ctr, kind |-> "Chosen", observed |-> {v},
                         writes |-> writes[d][e] + 1]]
      BY <1>1 DEF Commit
    <3> QED
      BY <3>1, CommitLeavesBasis
  <2>2. Save(d, e, v, WriteObserved(store[d][e].versions, v)) /\ archives' = archives
    BY <1>1 DEF Commit
  <2> QED
    BY <1>1, <1>2, <2>1, <2>2, Zenon DEF Commits
<1> QED
  BY <1>1, <1>3

\* The first version of a note follows nothing.
LEMMA CreateBuilds ==
  ASSUME Typed, NEW s \in Sessions, NEW e \in Notes, NEW value \in Values,
         CreateNote(s, e, value)
  PROVE  \E d \in Devices, v \in Bounded : Commits(d, e, v, {}, value, FALSE)
<1>1. PICK d \in Devices, v \in Bounded :
           /\ d = Home[s]
           /\ store[d][e] = Missing
           /\ \A x \in events : x.entity # e
           /\ v.dev = d
           /\ v.ctr > counter[d]
           /\ Follows(v, {}, {}, value)
           /\ Commit(s, d, e, v, WriteObserved(store[d][e].versions, v))
           /\ Record(d, e, v, FALSE, {})
  BY CreateFollows
<1>2. store[d][e].deleted = NoStamp /\ store[d][e].versions = {}
  BY <1>1 DEF Missing
<1>3. Seen({}, {}, d) = {}
  BY DEF Seen, MergeVersions
<1>4. Commits(d, e, v, {}, value, FALSE)
  <2>1. \A r \in Sessions :
          \/ basis'[r] = basis[r]
          \/ Home[r] = d /\ basis'[r].entity = e /\ basis'[r].observed = {v}
    <3>1. /\ d = Home[s]
          /\ basis' = [basis EXCEPT ![s] =
                        [entity |-> e, rev |-> v.ctr, kind |-> "Chosen", observed |-> {v},
                         writes |-> writes[d][e] + 1]]
      BY <1>1 DEF Commit
    <3> QED
      BY <3>1, CommitLeavesBasis
  <2>2. Save(d, e, v, WriteObserved(store[d][e].versions, v)) /\ archives' = archives
    BY <1>1 DEF Commit
  <2> QED
    BY <1>1, <1>2, <1>3, <2>1, <2>2 DEF Commits
<1> QED
  BY <1>4

\* So does the first position of an imported book.
LEMMA AddBuilds ==
  ASSUME Typed, NEW d \in Devices, AddBook(d)
  PROVE  \E v \in Bounded : Commits(d, Progress, v, {}, Start, FALSE)
<1>1. PICK v \in Bounded :
           /\ store[d][Progress] = Missing
           /\ v.dev = d
           /\ v.ctr > counter[d]
           /\ Follows(v, {}, {}, Start)
           /\ Save(d, Progress, v, WriteObserved(store[d][Progress].versions, v))
           /\ Record(d, Progress, v, FALSE, {})
  BY AddFollows
<1>2. store[d][Progress].deleted = NoStamp /\ store[d][Progress].versions = {}
  BY <1>1 DEF Missing
<1>3. Seen({}, {}, d) = {}
  BY DEF Seen, MergeVersions
<1>4. basis' = basis /\ archives' = archives
  BY DEF AddBook
<1>5. Commits(d, Progress, v, {}, Start, FALSE)
  BY <1>1, <1>2, <1>3, <1>4 DEF Commits
<1> QED
  BY <1>5

\* The step is a commit of some device.
SomeCommit ==
  \E d \in Devices, e \in Entities, v \in Bounded, value \in Values, settles \in BOOLEAN :
    \E observed : Commits(d, e, v, observed, value, settles)

\* Every step keeps the events, or is a commit that adds one.
LEMMA EventsGrow ==
  ASSUME Typed, Settled, [Next]_vars
  PROVE  events' = events \/ SomeCommit
<1> USE DEF durable, history
<1>1. ASSUME NEW d \in Devices,
             \/ Restart(d) \/ AddUnread(d) \/ Purge(d)
             \/ \E f \in Files : Export(d, f) \/ MergeArchive(d, f)
             \/ \E e \in Notes : DeleteNote(d, e)
      PROVE  events' = events
  BY <1>1 DEF Restart, AddUnread, Purge, Export, MergeArchive, DeleteNote
<1>2. ASSUME NEW s \in Sessions, Release(s) \/ \E e \in Entities : Adopt(s, e)
      PROVE  events' = events
  BY <1>2 DEF Release, Adopt
<1>3. ASSUME NEW s \in Sessions, NEW intent \in Intents, NEW value \in Values,
             Write(s, intent, value)
      PROVE  SomeCommit
  <2>1. (intent \in {"Resolve", "Reset"}) \in BOOLEAN
    OBVIOUS
  <2>2. PICK d \in Devices, e \in Entities, v \in Bounded :
           Commits(d, e, v, basis[s].observed, value, intent \in {"Resolve", "Reset"})
    BY <1>3, WriteBuilds
  <2> QED
    BY <2>1, <2>2 DEF SomeCommit
<1>4. ASSUME NEW s \in Sessions, NEW e \in Notes, NEW value \in Values,
             CreateNote(s, e, value)
      PROVE  SomeCommit
  <2>1. e \in Entities /\ FALSE \in BOOLEAN
    BY DEF Notes
  <2>2. PICK d \in Devices, v \in Bounded : Commits(d, e, v, {}, value, FALSE)
    BY <1>4, CreateBuilds
  <2> QED
    BY <2>1, <2>2 DEF SomeCommit
<1>5. CASE UNCHANGED vars
  BY <1>5 DEF vars
<1>6. ASSUME NEW d \in Devices, AddBook(d) PROVE SomeCommit
  <2>1. Progress \in Entities /\ Start \in Values /\ FALSE \in BOOLEAN
    BY ReplicasAssumption
  <2>2. PICK v \in Bounded : Commits(d, Progress, v, {}, Start, FALSE)
    BY <1>6, AddBuilds
  <2> QED
    BY <2>1, <2>2 DEF SomeCommit
<1> QED
  BY <1>1, <1>2, <1>3, <1>4, <1>5, <1>6 DEF Next

\* What a store holds of an entity is part of what it received of it.
LEMMA StoredIsReceived ==
  ASSUME Settled
  PROVE  /\ \A d \in Devices, e \in Entities :
              store[d][e].versions \subseteq received[d][e].versions
         /\ \A f \in Files : archives[f] # NoArchive =>
              \A e \in Entities :
                archives[f].store[e].versions \subseteq archives[f].received[e].versions
BY DEF Settled, Agrees, Frontier

\* The event a commit adds.
LEMMA CommitAdds ==
  ASSUME NEW d, NEW e, NEW v, NEW observed, NEW value, NEW settles,
         Commits(d, e, v, observed, value, settles)
  PROVE  \E y : /\ events' = events \cup {y}
                /\ y.entity = e /\ y.version = v /\ y.settles = settles
                /\ y.saw = PastOf(e, Seen(store[d][e].versions, observed, d))
                /\ y.knew = KnownOf(e, Seen(store[d][e].versions, observed, d)
                                         \cup OwnOf(d, e))
<1> DEFINE seen == Seen(store[d][e].versions, observed, d)
           y == [entity |-> e, version |-> v, settles |-> settles, saw |-> PastOf(e, seen),
                 knew |-> KnownOf(e, seen \cup OwnOf(d, e))]
<1>1. events' = events \cup {y}
  BY Zenon DEF Commits, Record
<1>2. /\ y.entity = e /\ y.version = v /\ y.settles = settles
      /\ y.saw = PastOf(e, seen) /\ y.knew = KnownOf(e, seen \cup OwnOf(d, e))
  OBVIOUS
<1> HIDE DEF y
<1> QED
  BY <1>1, <1>2

\* A commit stores and adopts the version it records.
LEMMA CommitSourced ==
  ASSUME Typed, Sourced, NEW d \in Devices, NEW e \in Entities,
         NEW v \in Bounded, NEW observed, NEW value, NEW settles,
         Commits(d, e, v, observed, value, settles)
  PROVE  Sourced'
<1>1. /\ events \subseteq events'
      /\ \E x \in events' : x.entity = e /\ x.version = v
  <2>1. PICK y : /\ events' = events \cup {y}
                 /\ y.entity = e /\ y.version = v /\ y.settles = settles
                 /\ y.saw = PastOf(e, Seen(store[d][e].versions, observed, d))
                 /\ y.knew = KnownOf(e, Seen(store[d][e].versions, observed, d)
                                         \cup OwnOf(d, e))
    BY CommitAdds
  <2> QED
    BY <2>1
<1>2. /\ received' = [received EXCEPT ![d][e].versions = @ \cup {v}]
      /\ archives' = archives
  BY DEF Commits, Record
<1>4. ASSUME NEW c \in Devices, NEW i \in Entities
      PROVE  WasWritten(i, received[c][i].versions)'
  <2>1. received'[c][i].versions =
          IF c = d /\ i = e THEN received[d][e].versions \cup {v}
          ELSE received[c][i].versions
    <3>1. received[d][e] \in SmallHistories
      BY DEF Typed
    <3> QED
      BY <1>2, <3>1 DEF Typed, SmallHistories
  <2> QED
    BY <1>1, <2>1 DEF Sourced, WasWritten
<1>5. ASSUME NEW r \in Sessions, basis'[r] # NoBasis
      PROVE  WasWritten(basis[r].entity, basis[r].observed)'
  <2>1. CASE basis'[r].entity = e /\ basis'[r].observed = {v}
    BY <1>1, <2>1 DEF WasWritten
  <2>2. CASE basis'[r] = basis[r]
    BY <1>1, <1>5, <2>2 DEF Sourced, WasWritten
  <2> QED
    BY <2>1, <2>2 DEF Commits
<1>6. \A f \in Files : archives'[f] # NoArchive =>
        \A i \in Entities : WasWritten(i, archives[f].received[i].versions)'
  BY <1>1, <1>2 DEF Sourced, WasWritten
<1> QED
  BY <1>4, <1>5, <1>6 DEF Sourced

\* Merging, exporting and adopting move versions about; none is made up.
LEMMA SourcedStep ==
  Typed /\ Settled /\ Sourced /\ [Next]_vars => Sourced'
<1> SUFFICES ASSUME Typed, Settled, Sourced, [Next]_vars PROVE Sourced'
  OBVIOUS
<1> USE DEF durable, history
<1>1. ASSUME UNCHANGED <<events, received, archives>>,
             \A s \in Sessions : basis'[s] \in {basis[s], NoBasis}
      PROVE  Sourced'
  BY <1>1 DEF Sourced, WasWritten
<1>2. ASSUME NEW d \in Devices, Restart(d) PROVE Sourced'
  <2>1. \A s \in Sessions : basis'[s] \in {basis[s], NoBasis}
    BY <1>2 DEF Restart, ReleaseAll
  <2> QED
    BY <1>1, <1>2, <2>1 DEF Restart
<1>3. ASSUME NEW d \in Devices, AddUnread(d) PROVE Sourced'
  BY <1>1, <1>3 DEF AddUnread
<1>4. ASSUME NEW d \in Devices, Purge(d) PROVE Sourced'
  <2>1. \A c \in Devices, e \in Entities :
          received'[c][e] = IF c = d THEN NothingReceived ELSE received[c][e]
    BY <1>4 DEF Purge, Typed
  <2>2. \A s \in Sessions : basis'[s] \in {basis[s], NoBasis}
    BY <1>4 DEF Purge, ReleaseAll
  <2>3. UNCHANGED <<events, archives>>
    BY <1>4 DEF Purge
  <2> QED
    BY <2>1, <2>2, <2>3 DEF Sourced, WasWritten, NothingReceived
<1>5. ASSUME NEW d \in Devices, NEW f \in Files, Export(d, f) PROVE Sourced'
  <2>1. /\ archives'[f].received = received[d]
        /\ \A g \in Files \ {f} : archives'[g] = archives[g]
    BY <1>5 DEF Export, Typed
  <2>2. UNCHANGED <<events, received, basis>>
    BY <1>5 DEF Export
  <2> QED
    BY <2>1, <2>2 DEF Sourced, WasWritten
<1>6. ASSUME NEW d \in Devices, NEW f \in Files, MergeArchive(d, f) PROVE Sourced'
  <2>1. archives[f] # NoArchive /\ UNCHANGED <<events, archives, basis>>
    BY <1>6 DEF MergeArchive
  <2>2. \A e \in Entities :
          received'[d][e].versions = received[d][e].versions \cup archives[f].received[e].versions
    BY <1>6 DEF MergeArchive, Typed
  <2>3. \A c \in Devices \ {d} : received'[c] = received[c]
    BY <1>6 DEF MergeArchive, Typed
  <2>4. ASSUME NEW c \in Devices, NEW e \in Entities
        PROVE  WasWritten(e, received[c][e].versions)'
    BY <2>1, <2>2, <2>3 DEF Sourced, WasWritten
  <2> QED
    BY <2>1, <2>4 DEF Sourced, WasWritten
<1>7. ASSUME NEW d \in Devices, NEW e \in Notes, DeleteNote(d, e) PROVE Sourced'
  <2>1. \A c \in Devices, i \in Entities :
          received'[c][i].versions = received[c][i].versions
    <3>1. \A c \in Devices, i \in Entities : received[c][i] \in SmallHistories
      BY DEF Typed
    <3> QED
      BY <1>7, <3>1 DEF DeleteNote, Typed, SmallHistories
  <2>2. \A s \in Sessions : basis'[s] \in {basis[s], NoBasis}
    BY <1>7 DEF DeleteNote
  <2>3. UNCHANGED <<events, archives>>
    BY <1>7 DEF DeleteNote
  <2> QED
    BY <2>1, <2>2, <2>3 DEF Sourced, WasWritten
<1>8. ASSUME NEW s \in Sessions, Release(s) PROVE Sourced'
  BY <1>1, <1>8 DEF Release, Typed
<1>9. ASSUME NEW s \in Sessions, NEW e \in Entities, Adopt(s, e) PROVE Sourced'
  <2>1. PICK sel \in Selections(MergeVersions(store[Home[s]][e].versions)) :
          basis' = [basis EXCEPT ![s] =
            [entity |-> e, rev |-> revision[Home[s]][e], kind |-> sel.kind,
             observed |-> sel.observed, writes |-> writes[Home[s]][e]]]
    BY <1>9 DEF Adopt
  <2>2. UNCHANGED <<events, received, archives>>
    BY <1>9 DEF Adopt
  <2>3. /\ basis'[s].entity = e
        /\ basis'[s].observed = sel.observed
        /\ \A r \in Sessions : r # s => basis'[r] = basis[r]
    BY <2>1 DEF Typed
  <2>4. sel.observed \subseteq received[Home[s]][e].versions
    <3>1. sel.observed \subseteq store[Home[s]][e].versions
      BY DEF Selections, MergeVersions
    <3> QED
      BY <3>1, StoredIsReceived, ReplicasAssumption
  <2>5. WasWritten(e, sel.observed)
    BY <2>4, ReplicasAssumption DEF Sourced, WasWritten
  <2> QED
    BY <2>2, <2>3, <2>5 DEF Sourced, WasWritten
<1>10. ASSUME NEW s \in Sessions, NEW intent \in Intents, NEW value \in Values,
              Write(s, intent, value)
       PROVE  Sourced'
  BY <1>10, WriteBuilds, CommitSourced
<1>11. ASSUME NEW s \in Sessions, NEW e \in Notes, NEW value \in Values,
              CreateNote(s, e, value)
       PROVE  Sourced'
  <2>1. PICK d \in Devices, v \in Bounded : Commits(d, e, v, {}, value, FALSE)
    BY <1>11, CreateBuilds
  <2>2. e \in Entities
    BY DEF Notes
  <2> QED
    BY <2>1, <2>2, CommitSourced
<1>12. CASE UNCHANGED vars
  BY <1>1, <1>12 DEF vars
<1>13. ASSUME NEW d \in Devices, AddBook(d) PROVE Sourced'
  BY <1>13, AddBuilds, CommitSourced, ReplicasAssumption
<1> QED
  BY <1>2, <1>3, <1>4, <1>5, <1>6, <1>7, <1>8, <1>9, <1>10, <1>11, <1>12, <1>13 DEF Next

-----------------------------------------------------------------------------
\* Clocks stay below counters

Below(d, S) == \A v \in S, c \in Devices : v.clock[c] <= counter[d]

Covered ==
  /\ \A x \in events : /\ ValidClock(x.version)
                        /\ \A c \in Devices : x.version.clock[c] <= counter[c]
  /\ \A d \in Devices, e \in Entities : Below(d, store[d][e].versions)
  /\ \A s \in Sessions : basis[s] # NoBasis => Below(Home[s], basis[s].observed)

\* What is stored was written, and is below the counter of its device.
LEMMA StoredIsKnown ==
  ASSUME Typed, Settled, Sourced, Covered, NEW d \in Devices, NEW e \in Entities
  PROVE  /\ store[d][e].versions \in SUBSET Bounded
         /\ WasWritten(e, store[d][e].versions)
         /\ Below(d, store[d][e].versions)
<1>1. store[d][e].versions \in SUBSET Bounded
  BY DEF Typed, SmallRecords
<1>2. WasWritten(e, store[d][e].versions)
  BY StoredIsReceived DEF Sourced, WasWritten
<1>3. Below(d, store[d][e].versions)
  BY DEF Covered
<1> QED
  BY <1>1, <1>2, <1>3

\* So is what a session adopted.
LEMMA AdoptedIsKnown ==
  ASSUME Typed, Sourced, Covered, NEW s \in Sessions, basis[s] # NoBasis
  PROVE  /\ basis[s].observed \in SUBSET Bounded
         /\ WasWritten(basis[s].entity, basis[s].observed)
         /\ Below(Home[s], basis[s].observed)
<1>1. basis[s] \in SmallBases
  BY DEF Typed
<1>2. basis[s].observed \in SUBSET Bounded
  BY <1>1 DEF SmallBases
<1> QED
  BY <1>2 DEF Sourced, Covered

\* And so is what a commit builds on.
LEMMA ObservedIsKnown ==
  ASSUME Typed, Sourced, Covered, NEW d, NEW e, NEW v, NEW observed,
         NEW value, NEW settles, Commits(d, e, v, observed, value, settles)
  PROVE  observed \in SUBSET Bounded /\ WasWritten(e, observed) /\ Below(d, observed)
<1>1. ASSUME NEW s \in Sessions, Home[s] = d, basis[s] # NoBasis, basis[s].entity = e,
             basis[s].observed = observed
      PROVE  observed \in SUBSET Bounded /\ WasWritten(e, observed) /\ Below(d, observed)
  BY <1>1, AdoptedIsKnown
<1>2. CASE observed = {}
  BY <1>2 DEF WasWritten, Below
<1> QED
  BY <1>1, <1>2 DEF Commits

\* What a commit knows of the version it adds.
LEMMA CommitClock ==
  ASSUME Typed, Settled, Sourced, Covered, NEW d \in Devices,
         NEW e \in Entities, NEW v \in Bounded, NEW observed, NEW value, NEW settles,
         Commits(d, e, v, observed, value, settles)
  PROVE  LET seen == Seen(store[d][e].versions, observed, d)
         IN  /\ seen \in SUBSET Bounded /\ WasWritten(e, seen)
             /\ ValidClock(v) /\ v.dev = d /\ v.ctr \in Nat /\ v.ctr > counter[d]
             /\ Above(v, seen) /\ TellsOf(v, seen)
             /\ \A c \in Devices \ {d} : v.clock[c] <= counter[c]
             /\ Below(d, store[d][e].versions)
<1> DEFINE current == store[d][e].versions
           seen == Seen(current, observed, d)
           stamp == StampOf(v)
<1>1. /\ observed \in SUBSET Bounded /\ current \in SUBSET Bounded
      /\ WasWritten(e, observed) /\ WasWritten(e, current) /\ Below(d, current)
  BY StoredIsKnown, ObservedIsKnown
<1>2. /\ v.dev = d /\ v.ctr > counter[d]
      /\ v = NextVersion(current, observed, stamp, value)
      /\ ClockAdvances(current, observed, stamp)
  BY DEF Commits, Follows
<1>3. /\ stamp.dev = d /\ stamp.ctr = v.ctr
      /\ stamp.ctr \in Nat \ {0} /\ counter \in [Devices -> Nat]
  BY <1>2, ReplicasAssumption DEF StampOf, Bounded, Versions, Typed, Counters
<1>4. Bounded \subseteq Versions
  BY DEF Bounded
<1>5. ValidClock(v) /\ Above(v, seen) /\ TellsOf(v, seen)
  <2>1. current \in SUBSET Versions /\ observed \in SUBSET Versions
    BY <1>1, <1>4
  <2> DEFINE w == NextVersion(current, observed, stamp, value)
  <2>2. /\ ValidClock(w)
        /\ Above(w, Seen(current, observed, stamp.dev))
        /\ TellsOf(w, Seen(current, observed, stamp.dev))
    <3>1. ClockAdvances(current, observed, stamp)
      BY <1>2
    <3>2. stamp.dev \in Devices /\ stamp.ctr \in Nat \ {0}
      BY <1>3
    <3> HIDE DEF current, stamp
    <3> QED
      BY <3>1, <3>2, <2>1, NextVersionClock
  <2>3. v = w
    BY <1>2
  <2> HIDE DEF current, stamp, w
  <2> QED
    BY <1>3, <2>2, <2>3
<1>6. seen \in SUBSET Bounded /\ WasWritten(e, seen)
  BY <1>1 DEF Seen, MergeVersions, WasWritten
<1>7. ASSUME NEW c \in Devices \ {d} PROVE v.clock[c] <= counter[c]
  <2>1. CASE v.clock[c] = 0
    BY <1>3, <2>1
  <2>2. ASSUME NEW w \in seen, v.clock[c] = w.clock[c] PROVE v.clock[c] <= counter[c]
    BY <1>6, <2>2 DEF WasWritten, Covered
  <2> QED
    BY <1>2, <1>5, <2>1, <2>2 DEF TellsOf
<1> QED
  BY <1>1, <1>2, <1>3, <1>5, <1>6, <1>7

\* A new version is below the counter it was given, and says of no other device
\* more than was seen of it.
LEMMA CommitCovered ==
  ASSUME Typed, Settled, Sourced, Covered, NEW d \in Devices,
         NEW e \in Entities, NEW v \in Bounded, NEW observed, NEW value, NEW settles,
         Commits(d, e, v, observed, value, settles)
  PROVE  Covered'
<1>1. /\ ValidClock(v) /\ v.dev = d /\ v.ctr \in Nat /\ v.ctr > counter[d]
      /\ \A c \in Devices \ {d} : v.clock[c] <= counter[c]
      /\ Below(d, store[d][e].versions)
  BY CommitClock
<1>2. /\ counter' = [counter EXCEPT ![d] = v.ctr]
      /\ store' = [store EXCEPT ![d][e].versions = WriteObserved(store[d][e].versions, v)]
  BY DEF Commits, Save
<1>3. /\ counter \in [Devices -> Nat]
      /\ \A w \in Bounded, c \in Devices : w.clock[c] \in Nat
  BY ReplicasAssumption DEF Typed, Counters, Bounded, Versions, Clocks
<1>4. \A c \in Devices : counter'[c] \in Nat /\ counter'[c] >= counter[c]
  BY <1>1, <1>2, <1>3
<1>5. v.clock[d] = v.ctr /\ \A c \in Devices : v.clock[c] <= v.ctr
  BY <1>1, <1>3 DEF ValidClock
<1>6. ASSUME NEW x \in events'
      PROVE  /\ ValidClock(x.version)
             /\ \A c \in Devices : x.version.clock[c] <= counter'[c]
  <2>1. PICK y : /\ events' = events \cup {y}
                 /\ y.entity = e /\ y.version = v /\ y.settles = settles
                 /\ y.saw = PastOf(e, Seen(store[d][e].versions, observed, d))
                 /\ y.knew = KnownOf(e, Seen(store[d][e].versions, observed, d)
                                         \cup OwnOf(d, e))
    BY CommitAdds
  <2>2. CASE x \in events
    <3>1. /\ x.version \in Bounded /\ ValidClock(x.version)
          /\ \A c \in Devices : x.version.clock[c] <= counter[c]
      BY <2>2 DEF Typed, SmallEvents, Covered
    <3> QED
      BY <1>3, <1>4, <3>1
  <2>3. CASE x = y
    BY <1>1, <1>2, <1>3, <1>5, <2>1, <2>3
  <2> QED
    BY <2>1, <2>2, <2>3
<1>7. ASSUME NEW c \in Devices, NEW S \in SUBSET Bounded, Below(c, S)
      PROVE  Below(c, S)'
  BY <1>3, <1>4, <1>7 DEF Below
<1>8. Below(d, {v})'
  BY <1>2, <1>3, <1>5 DEF Below
<1>9. ASSUME NEW c \in Devices, NEW i \in Entities
      PROVE  Below(c, store[c][i].versions)'
  <2>1. store[c][i].versions \in SUBSET Bounded /\ Below(c, store[c][i].versions)
    BY DEF Typed, SmallRecords, Covered
  <2>2. CASE c = d /\ i = e
    <3>1. store[d][e] \in SmallRecords
      BY DEF Typed
    <3>2. store'[d][e].versions = WriteObserved(store[d][e].versions, v)
      BY <1>2, <3>1 DEF Typed, SmallRecords
    <3>3. store'[d][e].versions \subseteq store[d][e].versions \cup {v}
      BY <3>2 DEF WriteObserved, MergeVersions
    <3>4. \A w \in store[d][e].versions, a \in Devices : w.clock[a] <= counter'[d]
      BY <2>1, <2>2, <1>7 DEF Below
    <3>5. \A a \in Devices : v.clock[a] <= counter'[d]
      BY <1>8 DEF Below
    <3> QED
      BY <2>2, <3>3, <3>4, <3>5 DEF Below
  <2>3. CASE c # d \/ i # e
    <3>1. store'[c][i] = store[c][i]
      BY <1>2, <2>3 DEF Typed
    <3> QED
      BY <2>1, <3>1, <1>7
  <2> QED
    BY <2>2, <2>3
<1>10. ASSUME NEW r \in Sessions, basis'[r] # NoBasis
       PROVE  Below(Home[r], basis[r].observed)'
  <2>1. CASE Home[r] = d /\ basis'[r].observed = {v}
    BY <1>8, <2>1
  <2>2. CASE basis'[r] = basis[r]
    <3>1. basis'[r] = basis[r] /\ Home[r] \in Devices
      BY <2>2, ReplicasAssumption
    <3>2. basis[r].observed \in SUBSET Bounded /\ Below(Home[r], basis[r].observed)
      BY <1>10, <3>1 DEF Typed, SmallBases, Covered
    <3> QED
      BY <1>7, <3>1, <3>2
  <2> QED
    BY <2>1, <2>2 DEF Commits
<1> QED
  BY <1>6, <1>9, <1>10 DEF Covered

\* Merging an archive raises the counter above all that the archive brings.
LEMMA CoveredStep ==
  Typed /\ Settled /\ Sourced /\ Covered /\ [Next]_vars => Covered'
<1> SUFFICES ASSUME Typed, Settled, Sourced, Covered, [Next]_vars PROVE Covered'
  OBVIOUS
<1> USE DEF durable, history
<1>1. ASSUME UNCHANGED <<events, counter>>,
             \A d \in Devices, e \in Entities :
               store'[d][e].versions \subseteq store[d][e].versions,
             \A s \in Sessions : basis'[s] \in {basis[s], NoBasis}
      PROVE  Covered'
  BY <1>1 DEF Covered, Below
<1>2. ASSUME NEW d \in Devices, Restart(d) PROVE Covered'
  <2>1. \A s \in Sessions : basis'[s] \in {basis[s], NoBasis}
    BY <1>2 DEF Restart, ReleaseAll
  <2> QED
    BY <1>1, <1>2, <2>1 DEF Restart
<1>3. ASSUME NEW d \in Devices, NEW f \in Files, Export(d, f) PROVE Covered'
  BY <1>1, <1>3 DEF Export
<1>4. ASSUME NEW d \in Devices, Purge(d) PROVE Covered'
  <2>1. \A c \in Devices, e \in Entities :
          store'[c][e].versions \subseteq store[c][e].versions
    BY <1>4 DEF Purge, Typed, Missing
  <2>2. \A s \in Sessions : basis'[s] \in {basis[s], NoBasis}
    BY <1>4 DEF Purge, ReleaseAll
  <2> QED
    BY <1>1, <1>4, <2>1, <2>2 DEF Purge
<1>5. /\ counter \in [Devices -> Nat] /\ Home \in [Sessions -> Devices]
      /\ \A v \in Bounded, c \in Devices : v.clock[c] \in Nat
      /\ \A d \in Devices, e \in Entities : store[d][e].versions \in SUBSET Bounded
      /\ \A x \in events : x.version \in Bounded
      /\ \A s \in Sessions : basis[s] # NoBasis => basis[s].observed \in SUBSET Bounded
  BY ReplicasAssumption
     DEF Typed, Counters, Bounded, Versions, Clocks, SmallRecords, SmallEvents, SmallBases
<1>6. ASSUME NEW d \in Devices, NEW f \in Files, MergeArchive(d, f) PROVE Covered'
  <2> DEFINE bound(e) == CounterBound(archives[f].store[e].versions)
  <2>1. /\ counter' \in [Devices -> Nat]
        /\ \A c \in Devices : counter'[c] >= counter[c]
        /\ \A e \in Entities : counter'[d] >= bound(e)
    <3>1. counter' \in [Devices -> Counters]
      BY <1>6, MergeTyped DEF Typed
    <3>2. /\ counter'[d] >= counter[d]
          /\ \A e \in Entities : counter'[d] >= CounterBound(archives[f].store[e].versions)
          /\ \A c \in Devices \ {d} : counter'[c] = counter[c]
      BY <1>6, MergeTyped
    <3> QED
      BY <1>5, <3>1, <3>2, ReplicasAssumption DEF Counters
  <2>2. UNCHANGED <<basis, events>>
    BY <1>6 DEF MergeArchive
  <2>3. ASSUME NEW e \in Entities
        PROVE  /\ archives[f].store[e].versions \in SUBSET Bounded
               /\ \A v \in archives[f].store[e].versions, c \in Devices :
                    v.clock[c] <= counter'[d]
    <3>1. archives[f].store[e].versions \in SUBSET Bounded
      <4>1. archives[f] \in SmallArchives
        BY <1>6 DEF MergeArchive, Typed
      <4>2. archives[f].store[e] \in SmallRecords
        BY <4>1 DEF SmallArchives
      <4> QED
        BY <4>2 DEF SmallRecords
    <3>2. /\ bound(e) \in Nat
          /\ \A v \in archives[f].store[e].versions, c \in Devices : v.clock[c] <= bound(e)
      BY <3>1, CounterBoundType, ReplicasAssumption DEF Counters
    <3> HIDE DEF bound
    <3> QED
      BY <1>5, <2>1, <3>1, <3>2
  <2>4. ASSUME NEW c \in Devices, NEW e \in Entities
        PROVE  Below(c, store[c][e].versions)'
    <3>1. \A v \in store[c][e].versions, a \in Devices : v.clock[a] <= counter'[c]
      BY <1>5, <2>1 DEF Covered, Below
    <3>2. CASE c = d
      <4>1. store'[d][e] = MergeAnnotation(store[d][e], archives[f].store[e])
        BY <1>6 DEF MergeArchive, MergedStore, Typed
      <4>2. store'[d][e].versions
              \subseteq store[d][e].versions \cup archives[f].store[e].versions
        BY <4>1 DEF MergeAnnotation, MergeVersions
      <4> QED
        BY <2>3, <3>1, <3>2, <4>2 DEF Below
    <3>3. CASE c # d
      <4>1. store'[c] = store[c]
        BY <1>6, <3>3 DEF MergeArchive, Typed
      <4> QED
        BY <3>1, <4>1 DEF Below
    <3> QED
      BY <3>2, <3>3
  <2> QED
    BY <1>5, <2>1, <2>2, <2>4 DEF Covered, Below
<1>7. ASSUME NEW d \in Devices, NEW e \in Notes, DeleteNote(d, e) PROVE Covered'
  <2> DEFINE n == Max2(counter[d], CounterBound(store[d][e].versions)) + 1
  <2>1. e \in Entities
    BY DEF Notes
  <2>2. n \in Nat /\ n >= counter[d]
    <3>1. CounterBound(store[d][e].versions) \in Nat
      BY <1>5, <2>1, CounterBoundType, ReplicasAssumption DEF Counters
    <3> QED
      BY <1>5, <3>1 DEF Max2
  <2>3. counter' = [counter EXCEPT ![d] = n] /\ events' = events
    BY <1>7 DEF DeleteNote
  <2>4. \A c \in Devices, i \in Entities :
          store'[c][i].versions \subseteq store[c][i].versions
    BY <1>7, <2>1 DEF DeleteNote, Typed
  <2>5. \A s \in Sessions : basis'[s] \in {basis[s], NoBasis}
    BY <1>7 DEF DeleteNote
  <2> HIDE DEF n
  <2>6. \A c \in Devices : counter'[c] \in Nat /\ counter'[c] >= counter[c]
    BY <1>5, <2>2, <2>3
  <2>7. ASSUME NEW c \in Devices, NEW S \in SUBSET Bounded, Below(c, S)
        PROVE  \A v \in S, a \in Devices : v.clock[a] <= counter'[c]
    BY <1>5, <2>6, <2>7 DEF Below
  <2>8. \A x \in events, a \in Devices : x.version.clock[a] <= counter'[a]
    BY <1>5, <2>6 DEF Covered
  <2>9. ASSUME NEW c \in Devices, NEW i \in Entities
        PROVE  Below(c, store[c][i].versions)'
    BY <1>5, <2>4, <2>7 DEF Covered, Below
  <2>10. ASSUME NEW s \in Sessions, basis'[s] # NoBasis
         PROVE  Below(Home[s], basis[s].observed)'
    <3>1. basis'[s] = basis[s] /\ Home[s] \in Devices
      BY <1>5, <2>5, <2>10
    <3>2. basis[s].observed \in SUBSET Bounded /\ Below(Home[s], basis[s].observed)
      BY <1>5, <2>10, <3>1 DEF Covered
    <3> QED
      BY <2>7, <3>1, <3>2 DEF Below
  <2> QED
    BY <2>3, <2>8, <2>9, <2>10 DEF Covered
<1>8. ASSUME NEW s \in Sessions, Release(s) PROVE Covered'
  BY <1>1, <1>8 DEF Release, Typed
<1>9. ASSUME NEW s \in Sessions, NEW e \in Entities, Adopt(s, e) PROVE Covered'
  <2>1. PICK sel \in Selections(MergeVersions(store[Home[s]][e].versions)) :
          basis' = [basis EXCEPT ![s] =
            [entity |-> e, rev |-> revision[Home[s]][e], kind |-> sel.kind,
             observed |-> sel.observed, writes |-> writes[Home[s]][e]]]
    BY <1>9 DEF Adopt
  <2>2. UNCHANGED <<events, store, counter>>
    BY <1>9 DEF Adopt
  <2>3. /\ basis'[s].observed = sel.observed
        /\ \A r \in Sessions : r # s => basis'[r] = basis[r]
    BY <2>1 DEF Typed
  <2>4. sel.observed \subseteq store[Home[s]][e].versions
    BY DEF Selections, MergeVersions
  <2>5. Below(Home[s], sel.observed)
    BY <1>5, <2>4 DEF Covered, Below
  <2> QED
    BY <2>2, <2>3, <2>5 DEF Covered, Below
<1>10. ASSUME NEW s \in Sessions, NEW intent \in Intents, NEW value \in Values,
              Write(s, intent, value)
       PROVE  Covered'
  BY <1>10, WriteBuilds, CommitCovered
<1>11. ASSUME NEW s \in Sessions, NEW e \in Notes, NEW value \in Values,
              CreateNote(s, e, value)
       PROVE  Covered'
  <2>1. PICK d \in Devices, v \in Bounded : Commits(d, e, v, {}, value, FALSE)
    BY <1>11, CreateBuilds
  <2>2. e \in Entities
    BY DEF Notes
  <2> QED
    BY <2>1, <2>2, CommitCovered
<1>12. CASE UNCHANGED vars
  BY <1>1, <1>12 DEF vars
<1>13. ASSUME NEW d \in Devices, AddBook(d) PROVE Covered'
  BY <1>13, AddBuilds, CommitCovered, ReplicasAssumption
<1>14. ASSUME NEW d \in Devices, AddUnread(d) PROVE Covered'
  <2>1. /\ counter' = [counter EXCEPT ![d] = @ + 1]
        /\ UNCHANGED <<events, store, basis>>
    BY <1>14 DEF AddUnread
  <2>2. \A c \in Devices : counter'[c] \in Nat /\ counter'[c] >= counter[c]
    BY <1>5, <2>1
  <2>3. \A x \in events, a \in Devices : x.version.clock[a] <= counter'[a]
    BY <1>5, <2>2 DEF Covered
  <2>4. ASSUME NEW c \in Devices, NEW S \in SUBSET Bounded, Below(c, S)
        PROVE  \A v \in S, a \in Devices : v.clock[a] <= counter'[c]
    BY <1>5, <2>2, <2>4 DEF Below
  <2>5. \A c \in Devices, e \in Entities : Below(c, store[c][e].versions)'
    BY <1>5, <2>1, <2>4 DEF Covered, Below
  <2>6. \A s \in Sessions : basis[s] # NoBasis => Below(Home[s], basis[s].observed)'
    BY <1>5, <2>1, <2>4 DEF Covered, Below
  <2> QED
    BY <2>1, <2>3, <2>5, <2>6 DEF Covered
<1> QED
  BY <1>2, <1>3, <1>4, <1>6, <1>7, <1>8, <1>9, <1>10, <1>11, <1>12, <1>13, <1>14 DEF Next

-----------------------------------------------------------------------------
\* The clocks refuse no write

\* No version below the counter of a device supersedes one above it.
LEMMA NewestStays ==
  ASSUME NEW d \in Devices, NEW v, v.clock \in Clocks, v.clock[d] > counter[d],
         counter[d] \in Nat, NEW S \in SUBSET Bounded, Below(d, S)
  PROVE  v \in WriteObserved(S, v)
<1>1. ~Dominates(v.clock, v.clock)
  BY DominatesOrder
<1>2. ASSUME NEW w \in S PROVE ~Dominates(w.clock, v.clock)
  <2>1. w.clock[d] <= counter[d]
    BY DEF Below
  <2>2. w.clock[d] \in Nat /\ v.clock[d] \in Nat
    BY DEF Bounded, Versions, Clocks
  <2>3. ~(w.clock[d] >= v.clock[d])
    BY <2>1, <2>2
  <2> QED
    BY <2>3 DEF Dominates
<1> QED
  BY <1>1, <1>2 DEF WriteObserved, MergeVersions, Superseded

\* Versions that were written collide only when they are the same.
LEMMA WrittenAgree ==
  ASSUME StampsNameOneEvent, NEW e, NEW v, NEW w, WasWritten(e, {v}), WasWritten(e, {w}),
         StampOf(v) = StampOf(w)
  PROVE  v = w
<1>1. PICK x \in events : x.version = v
  BY DEF WasWritten
<1>2. PICK y \in events : y.version = w
  BY DEF WasWritten
<1> QED
  BY <1>1, <1>2 DEF StampsNameOneEvent

\* A stamp above the counter of its device names no event yet.
LEMMA NewStampIsFresh ==
  ASSUME Typed, Allocated, NEW v, v.dev \in Devices, v.ctr \in Nat, v.ctr > counter[v.dev]
  PROVE  \A x \in events : StampOf(x.version) # StampOf(v)
<1> SUFFICES ASSUME NEW x \in events, StampOf(x.version) = StampOf(v) PROVE FALSE
  OBVIOUS
<1>1. x.version.dev = v.dev /\ x.version.ctr = v.ctr
  BY DEF StampOf
<1>2. x.version.ctr <= counter[x.version.dev] /\ counter[v.dev] \in Nat
  BY ReplicasAssumption DEF Allocated, Typed, Counters
<1> QED
  BY <1>1, <1>2

LEMMA NeverRefused ==
  Typed /\ Allocated /\ Settled /\ Sourced /\ Covered => ClocksNeverRefuse
<1> SUFFICES ASSUME Typed, Allocated, Settled, Sourced, Covered,
                    NEW s \in Sessions, basis[s] # NoBasis
             PROVE  LET d == Home[s]
                        b == basis[s]
                        current == store[d][b.entity].versions
                        stamp == [dev |-> d, ctr |-> NextCounter(d, b.entity, b)]
                        next == NextVersion(current, b.observed, stamp, Null)
                    IN  /\ ClockAdvances(current, b.observed, stamp)
                        /\ ValidClock(next)
                        /\ ~Collide(b.observed \cup current \cup {next})
                        /\ next \in WriteObserved(current, next)
  BY DEF ClocksNeverRefuse
<1> DEFINE d == Home[s]
           b == basis[s]
           e == b.entity
           current == store[d][e].versions
           observed == b.observed
           stamp == [dev |-> d, ctr |-> NextCounter(d, e, b)]
           next == NextVersion(current, observed, stamp, Null)
<1>1. d \in Devices /\ e \in Entities /\ b.rev \in Nat /\ counter[d] \in Nat
  <2>1. b \in SmallBases
    BY DEF Typed
  <2> QED
    BY <2>1, ReplicasAssumption DEF SmallBases, Typed, Counters
<1>2. /\ observed \in SUBSET Bounded /\ current \in SUBSET Bounded
      /\ WasWritten(e, observed) /\ WasWritten(e, current)
      /\ Below(d, observed) /\ Below(d, current)
  BY <1>1, StoredIsKnown, AdoptedIsKnown
<1>3. stamp.dev = d /\ stamp.ctr \in Nat \ {0} /\ stamp.ctr > counter[d]
  <2>1. CounterBound(current) \in Nat
    BY <1>2, CounterBoundType, ReplicasAssumption DEF Counters
  <2> HIDE DEF d, e
  <2> QED
    BY <1>1, <2>1 DEF NextCounter, Max2
<1> HIDE DEF d, e, b, observed, current, stamp
<1>4. ClockAdvances(current, observed, stamp)
  <2>1. \A v \in observed \cup current, c \in Devices :
          v.clock[c] \in Nat /\ v.clock[c] <= counter[d]
    BY <1>2 DEF Below, Bounded, Versions, Clocks
  <2>2. \A v \in observed \cup current, c \in Devices : v.clock[c] < stamp.ctr
    BY <1>1, <1>3, <2>1
  <2> QED
    BY <2>2 DEF ClockAdvances, Seen, MergeVersions
<1>5. /\ next.dev = d /\ next.ctr = stamp.ctr /\ next.clock \in Clocks
      /\ ValidClock(next)
  <2>1. observed \in SUBSET Versions /\ current \in SUBSET Versions
    BY <1>2 DEF Bounded
  <2> QED
    BY <1>1, <1>3, <1>4, <2>1, NextVersionClock
<1> HIDE DEF next
<1>6. next \in WriteObserved(current, next)
  <2>1. next.clock[d] > counter[d]
    BY <1>3, <1>5 DEF ValidClock
  <2> QED
    BY <1>1, <1>2, <1>5, <2>1, NewestStays
<1>7. ~Collide(observed \cup current \cup {next})
  <2>1. StampsNameOneEvent
    BY DEF Allocated
  <2>2. \A v \in observed \cup current : WasWritten(e, {v})
    BY <1>2 DEF WasWritten
  <2>3. \A v, w \in observed \cup current : StampOf(v) = StampOf(w) => v = w
    BY <2>1, <2>2, WrittenAgree
  <2>4. \A x \in events : StampOf(x.version) # StampOf(next)
    BY <1>1, <1>3, <1>5, NewStampIsFresh
  <2>5. \A v \in observed \cup current : StampOf(v) # StampOf(next)
    BY <2>2, <2>4 DEF WasWritten
  <2> QED
    BY <2>3, <2>5 DEF Collide
<1> QED
  BY <1>4, <1>5, <1>6, <1>7 DEF d, e, b, observed, current, stamp, next

\* The parts of the invariant together, and that every step keeps them.
Causal == Typed /\ Allocated /\ Settled /\ Sourced /\ Covered

LEMMA CausalInit ==
  Init => Causal
<1> SUFFICES ASSUME Init PROVE Causal
  OBVIOUS
<1>1. Typed
  BY TypedInit
<1>2. Allocated
  BY DEF Init, Allocated, StampsNameOneEvent
<1>3. Settled
  BY NothingAgrees DEF Init, Settled
<1>4. Sourced
  BY DEF Init, Sourced, WasWritten, NothingReceived
<1>5. Covered
  BY DEF Init, Covered, Below, Missing
<1> QED
  BY <1>1, <1>2, <1>3, <1>4, <1>5 DEF Causal

LEMMA CausalStep ==
  Causal /\ [Next]_vars => Causal'
BY TypedStep, AllocatedStep, SettledStep, SourcedStep, CoveredStep DEF Causal

\* No write with a current basis is refused by the clocks: the counter a device
\* allocates is above everything any of its sessions adopted, and the new version
\* survives the merge it is part of.
THEOREM ClocksRefuseNothing ==
  Spec => []ClocksNeverRefuse
<1>1. Causal => ClocksNeverRefuse
  BY NeverRefused DEF Causal
<1> QED
  BY <1>1, CausalInit, CausalStep, PTL DEF Spec

-----------------------------------------------------------------------------
\* What was seen is replaced

Remembered ==
  /\ \A x \in events : \A t \in x.saw : \E y \in events : StampOf(y.version) = t
  /\ SeenIsReplaced

\* A new version is above the frontier its writer adopted, and with it above all
\* that was replaced by that.
LEMMA CommitRemembered ==
  ASSUME Causal, Remembered, NEW d \in Devices,
         NEW e \in Entities, NEW v \in Bounded, NEW observed, NEW value, NEW settles,
         Commits(d, e, v, observed, value, settles)
  PROVE  Remembered'
<1> DEFINE seen == Seen(store[d][e].versions, observed, d)
<1> USE DEF Causal
<1>1. /\ seen \in SUBSET Bounded /\ WasWritten(e, seen) /\ Above(v, seen)
      /\ v.dev = d /\ v.ctr \in Nat /\ v.ctr > counter[d]
  BY CommitClock
<1>2. PICK y : /\ events' = events \cup {y}
               /\ y.entity = e /\ y.version = v /\ y.settles = settles
               /\ y.saw = PastOf(e, seen)
               /\ y.knew = KnownOf(e, seen \cup OwnOf(d, e))
  BY CommitAdds
<1> HIDE DEF seen
<1>3. \A x \in events : StampOf(x.version) # StampOf(v)
  BY <1>1, NewStampIsFresh
<1>4. ASSUME NEW t \in PastOf(e, seen)
      PROVE  \/ \E u \in events : u.entity = e /\ u.version \in seen /\ t = StampOf(u.version)
             \/ \E u \in events : u.entity = e /\ u.version \in seen /\ t \in u.saw
  BY <1>1 DEF PastOf, WasWritten
<1>5. \A t \in PastOf(e, seen) : \E x \in events : StampOf(x.version) = t
  BY <1>4 DEF Remembered
<1>6. ASSUME NEW x \in events', NEW z \in events', x.entity = z.entity,
             StampOf(z.version) \in x.saw
      PROVE  Dominates(x.version.clock, z.version.clock)
  <2>1. z \in events
    BY <1>2, <1>3, <1>5, <1>6 DEF Remembered
  <2>2. CASE x \in events
    BY <1>6, <2>1, <2>2 DEF Remembered, SeenIsReplaced
  <2>3. CASE x = y
    <3>1. z.entity = e /\ StampOf(z.version) \in PastOf(e, seen)
      BY <1>2, <1>6, <2>3
    <3>2. ASSUME NEW u \in events, u.version \in seen, StampOf(z.version) = StampOf(u.version)
          PROVE  Dominates(v.clock, z.version.clock)
      <4>1. z = u
        BY <2>1, <3>2 DEF Allocated, StampsNameOneEvent
      <4> QED
        BY <1>1, <3>2, <4>1 DEF Above
    <3>3. ASSUME NEW u \in events, u.entity = e, u.version \in seen,
                 StampOf(z.version) \in u.saw
          PROVE  Dominates(v.clock, z.version.clock)
      <4>1. Dominates(u.version.clock, z.version.clock) /\ Dominates(v.clock, u.version.clock)
        BY <1>1, <2>1, <3>1, <3>3 DEF Remembered, SeenIsReplaced, Above
      <4>2. v.clock \in Clocks /\ u.version.clock \in Clocks /\ z.version.clock \in Clocks
        BY <2>1 DEF Typed, SmallEvents, Bounded, Versions
      <4> QED
        BY <4>1, <4>2, DominatesOrder
    <3> QED
      BY <1>2, <1>4, <2>3, <3>1, <3>2, <3>3
  <2> QED
    BY <1>2, <2>2, <2>3
<1>7. \A x \in events' : \A t \in x.saw : \E z \in events' : StampOf(z.version) = t
  BY <1>2, <1>5 DEF Remembered
<1> QED
  BY <1>6, <1>7 DEF Remembered, SeenIsReplaced

LEMMA RememberedStep ==
  Causal /\ Remembered /\ [Next]_vars => Remembered'
<1> SUFFICES ASSUME Causal, Remembered, [Next]_vars PROVE Remembered'
  OBVIOUS
<1>1. CASE events' = events
  BY <1>1 DEF Remembered, SeenIsReplaced
<1>2. CASE SomeCommit
  BY <1>2, CommitRemembered DEF SomeCommit
<1> QED
  BY <1>1, <1>2, EventsGrow DEF Causal

\* A version its writer had seen never survives beside the one written from it,
\* so a reader is never asked to choose between a version and its successor.
THEOREM SeenVersionsAreReplaced ==
  Spec => []SeenIsReplaced
<1>1. Init => Remembered
  BY DEF Init, Remembered, SeenIsReplaced
<1>2. Remembered => SeenIsReplaced
  BY DEF Remembered
<1> QED
  BY <1>1, <1>2, CausalInit, CausalStep, RememberedStep, PTL DEF Spec

-----------------------------------------------------------------------------
\* Only what was seen is replaced

\* Whatever the clock of a version tells of a device, the versions of that device
\* up to there are among those its writer knew of.  A device knows its own as
\* long as it keeps what it received.
Informed ==
  /\ \A x \in events : x.version \in received[x.version.dev][x.entity].versions
  /\ \A x, y \in events :
       x.entity = y.entity /\ y.version.ctr <= x.version.clock[y.version.dev]
         => y = x \/ StampOf(y.version) \in x.knew

\* Without removals of the book, nothing that was received is forgotten.
LEMMA ReceivedGrows ==
  ASSUME MaxPurges = 0, Typed, Settled, [Next]_vars, NEW d \in Devices, NEW e \in Entities
  PROVE  received[d][e].versions \subseteq received'[d][e].versions
<1> USE DEF durable, history
<1>1. ASSUME received' = received PROVE received[d][e].versions \subseteq received'[d][e].versions
  BY <1>1
<1>2. \A c \in Devices, i \in Entities : received[c][i] \in SmallHistories
  BY DEF Typed
<1> DEFINE Kept == received[d][e].versions \subseteq received'[d][e].versions
<1>3. ASSUME NEW c \in Devices,
             Restart(c) \/ AddUnread(c) \/ \E f \in Files : Export(c, f)
      PROVE  Kept
  BY <1>1, <1>3 DEF Restart, AddUnread, Export
<1>4. ASSUME NEW c \in Devices, Purge(c) PROVE Kept
  <2>1. purges < 0 /\ purges \in Nat
    BY <1>4 DEF Purge, Typed
  <2> QED
    BY <2>1
<1>5. ASSUME NEW c \in Devices, NEW f \in Files, MergeArchive(c, f) PROVE Kept
  BY <1>5 DEF MergeArchive, Typed
<1>6. ASSUME NEW c \in Devices, NEW i \in Notes, DeleteNote(c, i) PROVE Kept
  BY <1>2, <1>6 DEF DeleteNote, Typed, SmallHistories
<1>7. ASSUME NEW s \in Sessions, Release(s) \/ \E i \in Entities : Adopt(s, i) PROVE Kept
  BY <1>1, <1>7 DEF Release, Adopt
<1>8. ASSUME NEW c \in Devices, NEW i \in Entities, NEW v, NEW observed, NEW value,
             NEW settles, Commits(c, i, v, observed, value, settles)
      PROVE  Kept
  <2>1. received' = [received EXCEPT ![c][i].versions = @ \cup {v}]
    BY <1>8 DEF Commits, Record
  <2> QED
    BY <1>2, <2>1 DEF Typed, SmallHistories
<1>9. ASSUME NEW s \in Sessions, NEW intent \in Intents, NEW value \in Values,
             Write(s, intent, value)
      PROVE  Kept
  BY <1>8, <1>9, WriteBuilds
<1>10. ASSUME NEW s \in Sessions, NEW i \in Notes, NEW value \in Values,
              CreateNote(s, i, value)
       PROVE  Kept
  <2>1. PICK c \in Devices, v \in Bounded : Commits(c, i, v, {}, value, FALSE)
    BY <1>10, CreateBuilds
  <2> QED
    BY <1>8, <2>1 DEF Notes
<1>11. CASE UNCHANGED vars
  BY <1>1, <1>11 DEF vars
<1>12. ASSUME NEW c \in Devices, AddBook(c) PROVE Kept
  <2>1. PICK v \in Bounded : Commits(c, Progress, v, {}, Start, FALSE)
    BY <1>12, AddBuilds
  <2> QED
    BY <1>8, <2>1, ReplicasAssumption
<1> QED
  BY <1>3, <1>4, <1>5, <1>6, <1>7, <1>9, <1>10, <1>11, <1>12 DEF Next

\* What the clock of a new version tells of its own device are versions the store
\* received, and what it tells of others comes from what its writer saw.
LEMMA CommitInformed ==
  ASSUME MaxPurges = 0, Causal, Informed, [Next]_vars, NEW d \in Devices,
         NEW e \in Entities, NEW v \in Bounded, NEW observed, NEW value, NEW settles,
         Commits(d, e, v, observed, value, settles)
  PROVE  Informed'
<1> DEFINE seen == Seen(store[d][e].versions, observed, d)
<1> USE DEF Causal
<1>1. /\ seen \in SUBSET Bounded /\ WasWritten(e, seen) /\ TellsOf(v, seen)
      /\ v.dev = d /\ v.ctr \in Nat /\ v.ctr > counter[d]
  BY CommitClock
<1>2. PICK y : /\ events' = events \cup {y}
               /\ y.entity = e /\ y.version = v /\ y.settles = settles
               /\ y.saw = PastOf(e, seen)
               /\ y.knew = KnownOf(e, seen \cup OwnOf(d, e))
  BY CommitAdds
<1> HIDE DEF seen
<1>3. \A x \in events : /\ x.entity \in Entities /\ x.version \in Bounded
                         /\ x.version.dev \in Devices
                         /\ x.version.ctr \in Nat \ {0} /\ x.version.clock \in Clocks
  BY DEF Typed, SmallEvents, Bounded, Versions
<1>4. ASSUME NEW x \in events'
      PROVE  x.version \in received'[x.version.dev][x.entity].versions
  <2>1. CASE x \in events
    BY <1>3, <2>1, ReceivedGrows DEF Informed
  <2>2. CASE x = y
    <3>1. received' = [received EXCEPT ![d][e].versions = @ \cup {v}]
      BY DEF Commits, Record
    <3>2. received[d][e] \in SmallHistories
      BY DEF Typed
    <3>3. v \in received'[d][e].versions
      BY <3>1, <3>2 DEF Typed, SmallHistories
    <3> QED
      BY <1>1, <1>2, <2>2, <3>3
  <2> QED
    BY <1>2, <2>1, <2>2
<1>5. ASSUME NEW z \in events, z.entity = e, z.version.ctr <= v.clock[z.version.dev]
      PROVE  StampOf(z.version) \in KnownOf(e, seen \cup OwnOf(d, e))
  <2>1. CASE z.version.dev = d
    <3>1. z.version \in OwnOf(d, e)
      BY <1>5, <2>1 DEF OwnOf, Informed
    <3> QED
      BY <3>1 DEF KnownOf
  <2>2. CASE z.version.dev # d
    <3> DEFINE c == z.version.dev
    <3>1. v.clock[c] # 0 /\ c \in Devices \ {v.dev}
      BY <1>1, <1>3, <1>5, <2>2 DEF Bounded, Versions, Clocks
    <3>2. PICK w \in seen : v.clock[c] = w.clock[c]
      BY <1>1, <3>1 DEF TellsOf
    <3>3. PICK u \in events : u.entity = e /\ u.version = w
      BY <1>1 DEF WasWritten
    <3>4. z = u \/ StampOf(z.version) \in u.knew
      BY <1>5, <3>2, <3>3 DEF Informed
    <3> QED
      BY <3>3, <3>4 DEF KnownOf
  <2> QED
    BY <2>1, <2>2
<1>6. ASSUME NEW x \in events', NEW z \in events', x.entity = z.entity,
             z.version.ctr <= x.version.clock[z.version.dev]
      PROVE  z = x \/ StampOf(z.version) \in x.knew
  <2>1. CASE x \in events /\ z \in events
    BY <1>6, <2>1 DEF Informed
  <2>2. CASE x = y /\ z \in events
    BY <1>2, <1>5, <1>6, <2>2
  <2>3. CASE x \in events /\ z = y
    <3>1. x.version.clock[d] <= counter[d] /\ x.version.clock[d] \in Nat
      BY <1>3, <2>3 DEF Covered, Clocks
    <3>2. counter[d] \in Nat
      BY ReplicasAssumption DEF Typed, Counters
    <3>3. v.ctr <= x.version.clock[d]
      BY <1>1, <1>2, <1>6, <2>3
    <3> QED
      BY <1>1, <3>1, <3>2, <3>3
  <2>4. CASE x = y /\ z = y
    BY <2>4
  <2> QED
    BY <1>2, <2>1, <2>2, <2>3, <2>4
<1> QED
  BY <1>4, <1>6 DEF Informed

LEMMA InformedStep ==
  ASSUME MaxPurges = 0
  PROVE  Causal /\ Informed /\ [Next]_vars => Informed'
<1> SUFFICES ASSUME Causal, Informed, [Next]_vars PROVE Informed'
  OBVIOUS
<1>1. CASE events' = events
  <2>1. \A x \in events : x.version.dev \in Devices /\ x.entity \in Entities
    BY DEF Causal, Typed, SmallEvents, Bounded, Versions
  <2>2. \A x \in events : x.version \in received'[x.version.dev][x.entity].versions
    BY <2>1, ReceivedGrows DEF Informed, Causal
  <2> QED
    BY <1>1, <2>2 DEF Informed
<1>2. CASE SomeCommit
  BY <1>2, CommitInformed DEF SomeCommit
<1> QED
  BY <1>1, <1>2, EventsGrow DEF Causal

LEMMA InformedDominates ==
  Causal /\ Informed => DominatesOnlySeen
<1> SUFFICES ASSUME Causal, Informed, NEW x \in events, NEW y \in events,
                    x.entity = y.entity, Dominates(x.version.clock, y.version.clock)
             PROVE  StampOf(y.version) \in x.knew
  BY DEF DominatesOnlySeen, Justified
<1>1. /\ x.version.clock \in Clocks /\ y.version.clock \in Clocks
      /\ y.version.dev \in Devices /\ y.version.ctr \in Nat
  BY DEF Causal, Typed, SmallEvents, Bounded, Versions
<1>2. x.version.clock[y.version.dev] >= y.version.ctr
  BY <1>1 DEF Dominates, Causal, Covered, ValidClock
<1>3. x.version.clock[y.version.dev] \in Nat
  BY <1>1 DEF Clocks
<1>4. x # y
  BY <1>1, DominatesOrder
<1> QED
  BY <1>1, <1>2, <1>3, <1>4 DEF Informed

\* As long as no device removes the book, a version replaces another one only when
\* its writer had seen it or had written it: nothing is dropped unseen.
THEOREM OnlySeenIsReplaced ==
  ASSUME MaxPurges = 0
  PROVE  Spec => []DominatesOnlySeen
<1>1. Init => Informed
  BY DEF Init, Informed
<1> QED
  BY <1>1, CausalInit, CausalStep, InformedStep, InformedDominates, PTL DEF Spec

\* The same of whatever reached an archive.  The assumption is needed: a device
\* that removes the book and adds it again writes above records of its own that
\* it no longer knows of.
THEOREM ExportedIsSuperseded ==
  ASSUME MaxPurges = 0
  PROVE  Spec => []ExportedOnlySupersededWhenSeen
<1>1. Init => Informed
  BY DEF Init, Informed
<1>2. Causal /\ Informed => ExportedOnlySupersededWhenSeen
  <2> SUFFICES ASSUME Causal, Informed, NEW f \in Files, NEW x \in events,
                      archives[f] # NoArchive,
                      NEW v \in archives[f].store[x.entity].versions
               PROVE  Justified(x, v)
    BY DEF ExportedOnlySupersededWhenSeen
  <2>1. x.entity \in Entities
    BY DEF Causal, Typed, SmallEvents
  <2>2. v \in archives[f].received[x.entity].versions
    BY <2>1, StoredIsReceived DEF Causal
  <2>3. PICK y \in events : y.entity = x.entity /\ y.version = v
    BY <2>1, <2>2 DEF Causal, Sourced, WasWritten
  <2> QED
    BY <2>3, InformedDominates DEF DominatesOnlySeen
<1> QED
  BY <1>1, <1>2, CausalInit, CausalStep, InformedStep, PTL DEF Spec

-----------------------------------------------------------------------------
\* A resolution settles

\* A choice that passed its checks was made of all that the store holds, so the
\* version that follows it is above everything there.
LEMMA ResolutionIsAlone ==
  ASSUME Causal, NEW s \in Sessions, NEW d \in Devices, NEW e \in Entities,
         NEW v \in Bounded, NEW intent \in {"Resolve", "Reset"}, NEW observed, NEW value,
         NEW settles, observed = basis[s].observed,
         MayWrite(store[d][e].versions, revision[d][e], basis[s], intent, value),
         Commits(d, e, v, observed, value, settles)
  PROVE  store'[d][e].versions = {v}
<1> DEFINE current == store[d][e].versions
           seen == Seen(current, observed, d)
<1> USE DEF Causal
<1>0. /\ Above(v, seen) /\ ValidClock(v)
      /\ v.dev = d /\ v.ctr \in Nat /\ v.ctr > counter[d]
  BY CommitClock
<1>1. /\ observed \in SUBSET Bounded /\ current \in SUBSET Bounded
      /\ WasWritten(e, observed) /\ WasWritten(e, current) /\ Below(d, current)
  BY StoredIsKnown, ObservedIsKnown
<1> HIDE DEF seen
<1>2. MergeVersions(current) = current
  BY DEF Commits, Settled, Agrees, Frontier, MergeVersions
<1>3. {StampOf(w) : w \in current} = {StampOf(w) : w \in observed}
  BY <1>2 DEF MayWrite
<1>4. \A w, u \in observed \cup current : StampOf(w) = StampOf(u) => w = u
  <2>1. StampsNameOneEvent
    BY DEF Allocated
  <2>2. \A w \in observed \cup current : WasWritten(e, {w})
    BY <1>1 DEF WasWritten
  <2> QED
    BY <2>1, <2>2, WrittenAgree
<1>5. observed = current
  <2>1. ASSUME NEW w \in current PROVE w \in observed
    <3>1. StampOf(w) \in {StampOf(u) : u \in observed}
      BY <1>3
    <3>2. PICK u \in observed : StampOf(w) = StampOf(u)
      BY <3>1
    <3> QED
      BY <1>4, <3>2
  <2>2. ASSUME NEW w \in observed PROVE w \in current
    <3>1. StampOf(w) \in {StampOf(u) : u \in current}
      BY <1>3
    <3>2. PICK u \in current : StampOf(w) = StampOf(u)
      BY <3>1
    <3> QED
      BY <1>4, <3>2
  <2> QED
    BY <2>1, <2>2
<1>6. seen = current
  <2>1. observed \cup {w \in current : w.dev = d} = current
    BY <1>5
  <2> QED
    BY <1>2, <2>1 DEF Seen, seen
<1>7. Above(v, current)
  BY <1>0, <1>6
<1>8. v \in WriteObserved(current, v)
  <2>1. v.clock \in Clocks /\ v.clock[d] > counter[d]
    BY <1>0 DEF ValidClock, Bounded, Versions
  <2>2. counter[d] \in Nat
    BY ReplicasAssumption DEF Typed, Counters
  <2> QED
    BY <1>1, <2>1, <2>2, NewestStays
<1>9. WriteObserved(current, v) = {v}
  BY <1>7, <1>8 DEF Above, WriteObserved, MergeVersions, Superseded
<1>10. store'[d][e].versions = WriteObserved(current, v)
  <2>1. store' = [store EXCEPT ![d][e].versions = WriteObserved(current, v)]
    BY DEF Commits, Save
  <2>2. store[d][e] \in SmallRecords
    BY DEF Typed
  <2> QED
    BY <2>1, <2>2 DEF Typed, SmallRecords
<1> QED
  BY <1>9, <1>10

\* Only a write adds an event that settles something.
LEMMA SettlesStep ==
  ASSUME Causal, [Next]_vars, NEW x \in events' \ events, x.settles
  PROVE  store'[x.version.dev][x.entity].versions = {x.version}
<1> USE DEF durable, history
<1>1. ASSUME NEW d \in Devices,
             \/ Restart(d) \/ AddUnread(d) \/ Purge(d)
             \/ \E f \in Files : Export(d, f) \/ MergeArchive(d, f)
             \/ \E e \in Notes : DeleteNote(d, e)
      PROVE  FALSE
  BY <1>1 DEF Restart, AddUnread, Purge, Export, MergeArchive, DeleteNote
<1>2. ASSUME NEW s \in Sessions, Release(s) \/ \E e \in Entities : Adopt(s, e)
      PROVE  FALSE
  BY <1>2 DEF Release, Adopt
<1>3. ASSUME NEW s \in Sessions, NEW intent \in Intents, NEW value \in Values,
             Write(s, intent, value)
      PROVE  store'[x.version.dev][x.entity].versions = {x.version}
  <2>1. PICK d \in Devices, e \in Entities, v \in Bounded :
           /\ MayWrite(store[d][e].versions, revision[d][e], basis[s], intent, value)
           /\ Commits(d, e, v, basis[s].observed, value, intent \in {"Resolve", "Reset"})
    BY <1>3, WriteBuilds DEF Causal
  <2> DEFINE settles == intent \in {"Resolve", "Reset"}
             observed == basis[s].observed
  <2>2. PICK y : /\ events' = events \cup {y}
                 /\ y.entity = e /\ y.version = v /\ y.settles = settles
                 /\ y.saw = PastOf(e, Seen(store[d][e].versions, observed, d))
                 /\ y.knew = KnownOf(e, Seen(store[d][e].versions, observed, d)
                                         \cup OwnOf(d, e))
    <3>1. Commits(d, e, v, observed, value, settles)
      BY <2>1
    <3> HIDE DEF settles, observed
    <3> QED
      BY <3>1, CommitAdds
  <2>3. x = y /\ intent \in {"Resolve", "Reset"}
    BY <2>2
  <2>4. store'[d][e].versions = {v}
    <3>1. /\ observed = basis[s].observed
          /\ Commits(d, e, v, observed, value, settles)
      BY <2>1
    <3> HIDE DEF settles, observed
    <3> QED
      BY <2>1, <2>3, <3>1, ResolutionIsAlone
  <2>5. v.dev = d
    BY <2>1 DEF Commits
  <2> QED
    BY <2>2, <2>3, <2>4, <2>5
<1>6. ASSUME NEW d, NEW e, NEW v, NEW value, Commits(d, e, v, {}, value, FALSE)
      PROVE  FALSE
  <2> DEFINE settles == FALSE
             observed == {}
  <2>1. PICK y : /\ events' = events \cup {y}
                 /\ y.entity = e /\ y.version = v /\ y.settles = settles
                 /\ y.saw = PastOf(e, Seen(store[d][e].versions, observed, d))
                 /\ y.knew = KnownOf(e, Seen(store[d][e].versions, observed, d)
                                         \cup OwnOf(d, e))
    <3>1. Commits(d, e, v, observed, value, settles)
      BY <1>6
    <3> HIDE DEF settles, observed
    <3> QED
      BY <3>1, CommitAdds
  <2> QED
    BY <2>1
<1>4. ASSUME NEW s \in Sessions, NEW e \in Notes, NEW value \in Values,
             CreateNote(s, e, value)
      PROVE  FALSE
  <2>1. PICK d \in Devices, v \in Bounded : Commits(d, e, v, {}, value, FALSE)
    BY <1>4, CreateBuilds DEF Causal
  <2> QED
    BY <1>6, <2>1
<1>7. ASSUME NEW d \in Devices, AddBook(d) PROVE FALSE
  <2>1. PICK v \in Bounded : Commits(d, Progress, v, {}, Start, FALSE)
    BY <1>7, AddBuilds DEF Causal
  <2> QED
    BY <1>6, <2>1
<1>5. CASE UNCHANGED vars
  BY <1>5 DEF vars
<1> QED
  BY <1>1, <1>2, <1>3, <1>4, <1>5, <1>7 DEF Next

\* Resolving a conflict, and resetting the progress, leaves exactly the chosen
\* value: a branch that arrived after the choice was shown refuses the write, and
\* is neither kept beside it nor dropped unseen.
THEOREM ResolutionsSettle ==
  Spec => ResolveSettles
<1>1. Causal /\ [Next]_vars
        => [\A x \in events' \ events :
             x.settles
               => store'[x.version.dev][x.entity].versions = {x.version}]_vars
  BY SettlesStep
<1> QED
  BY <1>1, CausalInit, CausalStep, PTL DEF Spec, ResolveSettles
=============================================================================
