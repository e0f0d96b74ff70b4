-------------------------- MODULE PortableReplicas --------------------------
(***************************************************************************)
(* The store of portable records on several devices that hold the same     *)
(* book: portable_state/repository.rs, and its twin of the web build,      *)
(* ui/portableState/service.ts.  Importing and removing a book differ      *)
(* between the two and are modelled for both; where they differ otherwise, *)
(* in the bases a deletion releases and in the counter, which also rises   *)
(* above the basis, it is the first that is modelled.  The book has one    *)
(* progress and some notes (bookmarks follow the same code).  A session    *)
(* reads a snapshot, adopts from it the versions it shows the reader, and  *)
(* later writes against what it adopted; meanwhile other sessions of the   *)
(* device write, archives of other devices are merged, and the book is     *)
(* removed from the shelf and added again.  Archives and cloud snapshots   *)
(* are files: they are merged late, repeatedly, in any order, or never.    *)
(***************************************************************************)
EXTENDS CausalMerge

CONSTANTS
  Entities,    \* the progress of the book and the notes that can exist
  Progress,    \* the name of the progress entity
  Null,        \* the value a reset writes
  Start,       \* the start of the book, where an import places the reader
  Web,         \* the devices that run the web build
  Sessions,    \* readers: windows of the app, and its work in the background
  Home,        \* session -> the device it runs on
  Files,       \* places an exported archive can be in
  MaxCounter,  \* MAX_SAFE_COUNTER of the program
  MaxPurges    \* bound: how often the book is removed from a shelf

ASSUME ReplicasAssumption ==
  /\ {Null, Start} \subseteq Values
  /\ Progress \in Entities
  /\ Home \in [Sessions -> Devices]
  /\ MaxCounter \in Nat
  /\ MaxPurges \in Nat

Notes == Entities \ {Progress}

Intents == {"Auto", "Edit", "Resolve", "Reset"}

NoBasis == [rev |-> 0]
NoArchive == [book |-> FALSE]

Missing == [versions |-> {}, deleted |-> NoStamp]

VARIABLES
  counter,     \* device -> the last counter it allocated or received
  present,     \* device -> the book is on the shelf, its file bound
  store,       \* device, entity -> its versions and its tombstone
  revision,    \* device, entity -> counter of the last local write of it
  basis,       \* session -> what it adopted from the store
  archives,    \* file -> an exported state
  purges,      \* times the book was removed from a shelf
  events,      \* history: every version written, and what its writer saw
  received,    \* history: device, entity -> all that went into its store
  writes       \* history: device, entity -> number of local writes

durable == <<counter, present, store, revision>>
history == <<events, received, writes>>
vars == <<durable, basis, archives, purges, history>>

NothingReceived == [versions |-> {}, tombs |-> {}]

Init ==
  /\ counter = [d \in Devices |-> 0]
  /\ present = [d \in Devices |-> FALSE]
  /\ store = [d \in Devices |-> [e \in Entities |-> Missing]]
  /\ revision = [d \in Devices |-> [e \in Entities |-> 0]]
  /\ basis = [s \in Sessions |-> NoBasis]
  /\ archives = [f \in Files |-> NoArchive]
  /\ purges = 0
  /\ events = {}
  /\ received = [d \in Devices |-> [e \in Entities |-> NothingReceived]]
  /\ writes = [d \in Devices |-> [e \in Entities |-> 0]]

-----------------------------------------------------------------------------
\* Reading and adopting

\* Mutant: the kind of choice is kept as it was asked for.
SelectionsAsAsked(frontier) ==
  {[kind |-> "Chosen", observed |-> {v}] : v \in frontier}
    \cup {[kind |-> "ShownAll", observed |-> frontier]}
    \cup (IF frontier = {} THEN {[kind |-> "Empty", observed |-> {}]} ELSE {})

\* The choices capture_read_basis accepts for a frontier: nothing of an empty
\* one, exactly one version, or the whole of it.
Selections(frontier) ==
  {[kind |-> "Chosen", observed |-> {v}] : v \in frontier}
    \cup {[kind |-> "ShownAll", observed |-> frontier]}
    \cup (IF frontier = {} THEN {[kind |-> "Chosen", observed |-> {}]} ELSE {})

\* A session reads a snapshot and adopts from it.  The two calls are one step
\* here: adopting looks at the snapshot alone, so a basis adopted late is the
\* basis adopted at once, and a removal of the book releases either.
Adopt(s, e) ==
  LET d == Home[s]
  IN  /\ present[d]
      /\ basis[s] = NoBasis
      /\ \E sel \in Selections(MergeVersions(store[d][e].versions)) :
           basis' = [basis EXCEPT ![s] =
             [entity |-> e, rev |-> revision[d][e], kind |-> sel.kind,
              observed |-> sel.observed, writes |-> writes[d][e]]]
      /\ UNCHANGED <<durable, archives, purges, history>>

Release(s) ==
  /\ basis[s] # NoBasis
  /\ basis' = [basis EXCEPT ![s] = NoBasis]
  /\ UNCHANGED <<durable, archives, purges, history>>

\* Mutant: removing a book forgets its handles.
ReleaseNone(d) == basis' = basis

ReleaseAll(d) ==
  basis' = [s \in Sessions |-> IF Home[s] = d THEN NoBasis ELSE basis[s]]

-----------------------------------------------------------------------------
\* Writing

Max2(m, n) == IF m >= n THEN m ELSE n

\* Mutant: the counter follows from the records alone.
CounterOfRecords(d, e, b) ==
  Max2(CounterBound(store[d][e].versions), b.rev) + 1

NextCounter(d, e, b) ==
  Max2(Max2(counter[d], CounterBound(store[d][e].versions)), b.rev) + 1

\* Mutant: a choice is accepted whatever has arrived since it was shown.
MayWriteBlindly(current, rev, b, intent, value) ==
  /\ b.rev = rev
  /\ intent = "Auto" => b.entity = Progress
  /\ IF intent \in {"Resolve", "Reset"}
     THEN /\ b.kind = "ShownAll"
          /\ intent = "Reset" => b.entity = Progress /\ value = Null
     ELSE b.kind = "Chosen"

\* The checks of prepare_observed_write that precede the write.
MayWrite(current, rev, b, intent, value) ==
  /\ b.rev = rev
  /\ intent = "Auto" => b.entity = Progress
  /\ IF intent \in {"Resolve", "Reset"}
     THEN /\ b.kind = "ShownAll"
          /\ {StampOf(v) : v \in MergeVersions(current)}
               = {StampOf(v) : v \in b.observed}
          /\ intent = "Reset" => b.entity = Progress /\ value = Null
     ELSE b.kind = "Chosen"

\* An automatic save of the position the session shows already: nothing is
\* stored and the basis stays.
AlreadySaved(b, intent, value) ==
  intent = "Auto" /\ \E v \in b.observed : b.observed = {v} /\ v.val = value

\* What a write of d to e builds on: the versions its session adopted and its
\* own current ones, and all that those were built on.  It also knows of its own
\* earlier writes of e, which it never offers as alternatives to itself.
PastOf(e, S) ==
  {StampOf(v) : v \in S}
    \cup UNION {x.saw : x \in {x \in events : x.entity = e /\ x.version \in S}}

KnownOf(e, S) ==
  {StampOf(v) : v \in S}
    \cup UNION {x.knew : x \in {x \in events : x.entity = e /\ x.version \in S}}

OwnOf(d, e) == {v \in received[d][e].versions : v.dev = d}

Record(d, e, v, settles, seen) ==
  /\ events' = events \cup
       {[entity |-> e, version |-> v, settles |-> settles,
         saw |-> PastOf(e, seen), knew |-> KnownOf(e, seen \cup OwnOf(d, e))]}
  /\ received' = [received EXCEPT ![d][e].versions = @ \cup {v}]

\* The counter of the last local write of an entity guards the bases of it.
Revised(d, e, stamp) == [revision EXCEPT ![d][e] = stamp.ctr]

\* A version of the device is stored, and its counter used up.
Save(d, e, v, versions) ==
  /\ store' = [store EXCEPT ![d][e].versions = versions]
  /\ counter' = [counter EXCEPT ![d] = v.ctr]

\* What a write and a creation by session s have in common.
Commit(s, d, e, v, versions) ==
  /\ Save(d, e, v, versions)
  /\ revision' = Revised(d, e, StampOf(v))
  /\ basis' = [basis EXCEPT ![s] =
       [entity |-> e, rev |-> v.ctr, kind |-> "Chosen", observed |-> {v},
        writes |-> writes[d][e] + 1]]
  /\ writes' = [writes EXCEPT ![d][e] = @ + 1]
  /\ UNCHANGED <<present, archives, purges>>

Write(s, intent, value) ==
  LET d == Home[s]
      b == basis[s]
      e == b.entity
      current == store[d][e].versions
  IN  /\ b # NoBasis
      /\ present[d]
      /\ e \in Notes => store[d][e] # Missing /\ store[d][e].deleted = NoStamp
      /\ MayWrite(current, revision[d][e], b, intent, value)
      /\ ~AlreadySaved(b, intent, value)
      /\ \E stamp \in {[dev |-> d, ctr |-> NextCounter(d, e, b)]} :
           /\ stamp.ctr <= MaxCounter
           /\ ClockAdvances(current, b.observed, stamp)
           /\ \E next \in {NextVersion(current, b.observed, stamp, value)} :
                /\ ~Collide(b.observed \cup current \cup {next})
                /\ next \in WriteObserved(current, next)
                /\ Commit(s, d, e, next, WriteObserved(current, next))
                /\ Record(d, e, next, intent \in {"Resolve", "Reset"},
                          Seen(current, b.observed, d))

\* A new note has an id of its own: ids are random, and the store refuses one
\* it holds, deleted or not.
CreateNote(s, e, value) ==
  LET d == Home[s]
      stamp == [dev |-> d, ctr |-> counter[d] + 1]
      next == NextVersion({}, {}, stamp, value)
  IN  /\ present[d]
      /\ \A x \in events : x.entity # e
      /\ store[d][e] = Missing
      /\ basis[s] = NoBasis
      /\ stamp.ctr <= MaxCounter
      /\ Commit(s, d, e, next, WriteObserved({}, next))
      /\ Record(d, e, next, FALSE, {})

DeleteNote(d, e) ==
  LET current == store[d][e]
      stamp == [dev |-> d, ctr |-> Max2(counter[d], CounterBound(current.versions)) + 1]
  IN  /\ current # Missing
      /\ current.deleted = NoStamp
      /\ stamp.ctr <= MaxCounter
      /\ store' = [store EXCEPT ![d][e] = [versions |-> {}, deleted |-> stamp]]
      /\ revision' = Revised(d, e, stamp)
      /\ counter' = [counter EXCEPT ![d] = stamp.ctr]
      /\ basis' = [s \in Sessions |->
           IF Home[s] = d /\ basis[s] # NoBasis /\ basis[s].entity = e
           THEN NoBasis ELSE basis[s]]
      /\ received' = [received EXCEPT ![d][e].tombs = @ \cup {stamp}]
      /\ writes' = [writes EXCEPT ![d][e] = @ + 1]
      /\ UNCHANGED <<present, archives, purges, events>>

-----------------------------------------------------------------------------
\* The shelf, archives and restarts

\* The import of a file into the native store: a book it does not hold gets
\* metadata and a first position, with a stamp each.  This is no local revision.
AddBook(d) ==
  LET stamp == [dev |-> d, ctr |-> counter[d] + 2]
      first == NextVersion({}, {}, stamp, Start)
  IN  /\ d \notin Web
      /\ ~present[d]
      /\ store[d][Progress] = Missing
      /\ stamp.ctr <= MaxCounter
      /\ present' = [present EXCEPT ![d] = TRUE]
      /\ Save(d, Progress, first, WriteObserved({}, first))
      /\ Record(d, Progress, first, FALSE, {})
      /\ UNCHANGED <<revision, basis, archives, purges, writes>>

\* The web build stamps the metadata alone: a book nobody read has no position.
AddUnread(d) ==
  /\ d \in Web
  /\ ~present[d]
  /\ counter[d] < MaxCounter
  /\ present' = [present EXCEPT ![d] = TRUE]
  /\ counter' = [counter EXCEPT ![d] = @ + 1]
  /\ UNCHANGED <<store, revision, basis, archives, purges, history>>

\* Removing a book drops all its records on this device, tombstones and local
\* revisions included, but not the counter; then its basis are released.  The
\* web build hides a removed book and keeps its records.
Purge(d) ==
  /\ d \notin Web
  /\ present[d]
  /\ purges < MaxPurges
  /\ purges' = purges + 1
  /\ present' = [present EXCEPT ![d] = FALSE]
  /\ store' = [store EXCEPT ![d] = [e \in Entities |-> Missing]]
  /\ revision' = [revision EXCEPT ![d] = [e \in Entities |-> 0]]
  /\ ReleaseAll(d)
  /\ received' = [received EXCEPT ![d] = [e \in Entities |-> NothingReceived]]
  /\ UNCHANGED <<counter, archives, events, writes>>

\* A later export to the same place replaces the earlier one.
Export(d, f) ==
  /\ present[d]
  /\ archives' = [archives EXCEPT ![f] =
       [book |-> TRUE, store |-> store[d], received |-> received[d]]]
  /\ UNCHANGED <<durable, basis, purges, history>>

StoredCounters(records) ==
  UNION {{CounterBound(records[e].versions), records[e].deleted.ctr} : e \in Entities}

MergedStore(l, r) == [e \in Entities |-> MergeAnnotation(l[e], r[e])]

\* One transaction: records of the archive join the store, the counter rises to
\* all of them, local revisions stay.  The book is on the shelf already, or the
\* import brings its file.
MergeArchive(d, f) ==
  LET a == archives[f]
  IN  /\ a # NoArchive
      /\ \A e \in Entities : ~Collide(store[d][e].versions \cup a.store[e].versions)
      /\ \E merged \in {MergedStore(store[d], a.store)} :
           /\ store' = [store EXCEPT ![d] = merged]
           /\ counter' = [counter EXCEPT ![d] =
                Highest({@} \cup StoredCounters(store[d]) \cup StoredCounters(a.store)
                          \cup StoredCounters(merged))]
      /\ present' = [present EXCEPT ![d] = TRUE]
      /\ received' = [received EXCEPT ![d] = [e \in Entities |->
           [versions |-> @[e].versions \cup a.received[e].versions,
            tombs |-> @[e].tombs \cup a.received[e].tombs]]]
      /\ UNCHANGED <<revision, basis, archives, purges, events, writes>>

\* Reads and bases live in the process; everything else is in the database.
Restart(d) ==
  /\ ReleaseAll(d)
  /\ UNCHANGED <<durable, archives, purges, history>>

Next ==
  \/ \E d \in Devices :
       \/ Restart(d) \/ AddBook(d) \/ AddUnread(d) \/ Purge(d)
       \/ \E f \in Files : Export(d, f) \/ MergeArchive(d, f)
       \/ \E e \in Notes : DeleteNote(d, e)
  \/ \E s \in Sessions :
       \/ Release(s)
       \/ \E e \in Entities : Adopt(s, e)
       \/ \E intent \in Intents, value \in Values : Write(s, intent, value)
       \/ \E e \in Notes, value \in Values : CreateNote(s, e, value)

Spec == Init /\ [][Next]_vars

-----------------------------------------------------------------------------
\* Properties

Records == [versions : SUBSET Versions, deleted : Stamps \cup {NoStamp}]
Histories == [versions : SUBSET Versions, tombs : SUBSET Stamps]

Bases ==
  [entity : Entities, rev : Nat, kind : {"Chosen", "ShownAll"},
   observed : SUBSET Versions, writes : Nat]

Archives ==
  [book : {TRUE}, store : [Entities -> Records], received : [Entities -> Histories]]

Events ==
  [entity : Entities, version : Versions, settles : BOOLEAN,
   saw : SUBSET Stamps, knew : SUBSET Stamps]

\* Every variable keeps its shape: counters are numbers, stores hold versions
\* and tombstones, basis hold snapshots and bases or nothing.
TypeOK ==
  /\ counter \in [Devices -> Nat]
  /\ present \in [Devices -> BOOLEAN]
  /\ store \in [Devices -> [Entities -> Records]]
  /\ revision \in [Devices -> [Entities -> Nat]]
  /\ basis \in [Sessions -> Bases \cup {NoBasis}]
  /\ archives \in [Files -> Archives \cup {NoArchive}]
  /\ purges \in Nat
  /\ events \subseteq Events
  /\ received \in [Devices -> [Entities -> Histories]]
  /\ writes \in [Devices -> [Entities -> Nat]]

\* Replicas converge: what a device stores of an entity is a function of the
\* set of events that ever reached it, whatever the order, the repetition and
\* the grouping of the archives that carried them, and whatever those archives
\* had already dropped.  Two devices that received the same events agree.
Convergence ==
  \A d \in Devices, e \in Entities :
    LET kept == store[d][e]
        got == received[d][e]
    IN  /\ kept.deleted \in got.tombs \cup {NoStamp}
        /\ \A t \in got.tombs : kept.deleted = t \/ StampBelow(t, kept.deleted)
        /\ kept.versions = IF kept.deleted = NoStamp THEN MergeVersions(got.versions)
                           ELSE {}

\* A stamp names one event for ever, across restarts, merges, removals of the
\* book and entities of a device: the merge never meets an event collision.
StampsNameOneEvent ==
  \A x, y \in events : StampOf(x.version) = StampOf(y.version) => x = y

\* A version replaces another one only when its writer had seen it: the other
\* was in the frontier its session adopted, or in the causal past of that, or
\* was a record of its own that the device still knew of.  "True only if left
\* has seen all of right" (dominates, merge.rs).
Justified(x, v) == Dominates(x.version.clock, v.clock) => StampOf(v) \in x.knew

DominatesOnlySeen ==
  \A x, y \in events : x.entity = y.entity => Justified(x, y.version)

\* The same of the versions that were exported: a record that reached an archive
\* or the cloud is replaced only by a writer that had seen it, also when its
\* device removed the book and added it again.
ExportedOnlySupersededWhenSeen ==
  \A f \in Files, x \in events :
    archives[f] # NoArchive =>
      \A v \in archives[f].store[x.entity].versions : Justified(x, v)

\* The converse: a version that its writer had seen never survives beside the
\* one written from it, so a reader is never asked to choose between a version
\* and its own successor.
SeenIsReplaced ==
  \A x, y \in events :
    (x.entity = y.entity /\ StampOf(y.version) \in x.saw)
      => Dominates(x.version.clock, y.version.clock)

\* A basis that still passes the revision check was captured after the last
\* write of the entity on this device, so two sessions of a device never
\* overwrite each other unseen; removing and adding the book again, which
\* starts the revisions at zero, does not revive an old basis.
NoStaleLocalWrite ==
  \A s \in Sessions :
    LET d == Home[s]
        b == basis[s]
    IN  b # NoBasis /\ b.rev = revision[d][b.entity]
          => b.writes = writes[d][b.entity]

\* No write with a current basis is refused by the clocks (clock-not-advanced,
\* event-collision): the counter a device allocates is above everything any of
\* its sessions adopted, and the new version survives the merge it is part of.
ClocksNeverRefuse ==
  \A s \in Sessions :
    LET d == Home[s]
        b == basis[s]
        current == store[d][b.entity].versions
    IN  b # NoBasis /\ b.rev = revision[d][b.entity] =>
          \A stamp \in {[dev |-> d, ctr |-> NextCounter(d, b.entity, b)]} :
            /\ ClockAdvances(current, b.observed, stamp)
            /\ \A next \in {NextVersion(current, b.observed, stamp, Null)} :
                 /\ ValidClock(next)
                 /\ ~Collide(b.observed \cup current \cup {next})
                 /\ next \in WriteObserved(current, next)

\* Resolving a conflict, and resetting the progress, leaves exactly the chosen
\* value: a branch that arrived after the choice was shown refuses the write
\* and is never kept beside it or dropped unseen.
ResolveSettles ==
  [][\A x \in events' \ events :
       x.settles
         => store'[x.version.dev][x.entity].versions = {x.version}]_vars

\* A deleted note stays deleted on the device, with no text left, whatever is
\* merged, written or restarted, as long as the book is not removed.
TombstoneFinal ==
  [][\A d \in Devices, e \in Entities :
       store[d][e].deleted # NoStamp /\ present'[d]
         => store'[d][e].deleted # NoStamp /\ store'[d][e].versions = {}]_vars
=============================================================================
