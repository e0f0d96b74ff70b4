# SeLis EPUB reader: verification project

TLA+ modules of the parts of SeLis in which several actors meet: the positions a reader
leaves in a book on their way to the store, the opening and leaving of books around
them, the records and the organization that devices exchange, the cloud directory they
exchange them in, and the service that decides when. Modules are checked by TLC on small
instances; the theorems are checked by TLAPS for every value of the constants.

SeLis is a Tauri program: a Rust backend (`src/src-tauri/src`, about 67 000 lines)
and a TypeScript/React frontend (`src/src`, about 104 000). Paths below are relative to
those two directories where the context is clear.

## 1. Inventory

### Modelled

| Part | State | Operations | What must hold |
|---|---|---|---|
| **Causal merge** `portable_state/merge.rs`, `dto.rs`; `core/portableState/portable-register-core.ts`, `portable-write-core.ts` | none: pure functions over versions (stamp, version clock, value) and tombstones | dominance, merge of registers and annotations, the version a writer makes from what it observed, collision and clock checks | the result does not depend on order, grouping or repetition; a version replaces another one only when its writer had seen it |
| **Portable store** `portable_state/repository.rs`, `local_books.rs`, `import_selection.rs`; `ui/portableState/service.ts` | records, tombstones, local revision and last counter; in memory: snapshots read and bases adopted | read, adopt, write with an intent (auto, edit, resolve, reset), create, delete, release, remove a book, export, merge an archive | sessions of one device never overwrite each other unseen; stamps are never reused; deletions are final; devices converge |
| **Reading progress writer** `ui/progressWriter.ts`, `localProgressCheckpoint.ts`, `checkpointProgressRepair.ts` | a lane per session: waiting and failed sample, the one write under way, a timer; in local storage: one recovery record per book | register, enqueue, flush, retire, hand off; timers and answers | the last position is never lost nor overtaken by an older one; "saved" is said only of what arrived; a flush returns |
| **Book opening** `ui/useBookOpen.ts`, `portableState/ownedProgressSessions.ts`, `shelfStoreAdapter.ts`, `progressOpenOrder.ts`, `useShelfProgressCommit.ts`, `saveFailureExit.ts`, `App.tsx` (visibility and closing) | sessions with a basis in the store, the active one of a book, the displayed book and its lease, the busy flag | open, decide where, take over, give up, leave, leave unsaved, hide, show, close | what is displayed can be saved; a silent opening finds the last position; another device's version is replaced only when it was shown; nothing waits for ever |
| **Library organization** `ui/libraryOrganization.ts`, `library_organization.rs` | latest-write registers: name and deletion of folders, mark and folder of books; a clock | create, rename, delete, favorite, move, merge | devices converge; a dissolved folder stays dissolved; stamps are never reused |
| **Placement by imports** `ui/folderImport/*`, `core/folderImport/planner.ts`, `importIntoFolder.ts`, `useBookImport.ts` | the organization the job saw, books that wait for their batch | start, take a book, commit a batch, fail, end; plan and apply an import into a folder | a book that was filed meanwhile stays where it was filed |
| **Cloud round engine** `cloud_sync/engine.rs`, `remote.rs`, `storage.rs`, `mod.rs` | on disk: `connection.json.gz` (the view of the cloud, markers of generations seen, pending flag); in the cloud: immutable generations and one staging file per installation; in memory: the round | list, recover a staged upload, read, save the view, apply, publish (PUT, MOVE, read back), collect | nothing that reached the cloud is lost by a crash, a failure or another device; devices converge and then stop publishing |
| **Cloud service** `cloud_sync/commands.rs`, `scheduler.rs`, `model.rs` | `Control` under a mutex: schedule, timer task, epoch, `round_cancel`, `admin_busy`; the `round_gate` queue | trigger, set_context, cancel, test, connect, disconnect, reset; timer and round tasks | a wanted round always has a timer; a stopped round cannot act for a newer one; nobody waits for ever |

How they interact: a page turn stages a recovery record, then queues a sample in
the lane of the displayed book; the lane writes it through the session
of that book, whose basis the portable store checks; openings and leavings flush lanes,
retire them or hand them off, and exchange sessions. Archives, and the rounds of the cloud
engine, read and merge whole states of the same store, records and organization alike; the
service starts one round task at a time, hands it a `Cancel`, and reads its outcome.

Which parts are not modelled, and why, is section 6. `PROJECT.json` lists all parts with
their sources, and the hazards of the code line by line with the property that covers each one.

## 2. Modules

```
CausalMerge              merge.rs and its twin as operators over sets of versions
  PortableReplicas       the store on several devices, sessions, archives
    MCPortableReplicas, PortableReplicasProofs, PortableCausalityProofs
    (with CausalMergeProofs: lemmas on the algebra)
LatestChannel            what the writer promises: a channel that never goes back
ProgressWriter           lanes, timers, flushes, recovery records; implements LatestChannel
  MCProgressWriter, ProgressWriterProofs
  ReadingSession         openings, leavings, windows and the store around the same writer
    MCReadingSession, ReadingSessionProofs
LibraryOrganization      folders and placements on several devices, and the imports
  MCLibraryOrganization, LibraryOrganizationProofs
SharedHistory            what the cloud promises: a history that only grows
CloudSync                rounds of engine.rs against one directory; implements SharedHistory
  MCCloudSync, CloudSyncProofs
CloudSyncControl         schedule, timer, gate and operations of the service
  MCCloudSyncControl, CloudSyncControlProofs
```

### CausalMerge and PortableReplicas

The program has this algebra and this store twice: in Rust for the applications and in
TypeScript for the web build. Where writing differs, the Rust store
is modelled: deleting a note releases the bases of other sessions, and the counter also rises
above what a basis observed. Where adding and removing a book differs, `Web` says which devices
run the web build: the native store gives a new book's metadata and first position (`Start`) a stamp each
(`AddBook`) and drops the records of a removed book (`Purge`); the web build stamps the
metadata alone (`AddUnread`) and only hides a removed book. `PROJECT.json` maps a definition to the
TypeScript code where the two are the same.

A version is a record of its device, counter,
clock and value. A clock is a total function, 0 standing for a device absent from the
program's map, as every reader of the map assumes. The program keeps sorted vectors
without duplicates; the model keeps sets. Wall-clock times decide nothing in these
merges and are left out. `Devices` are numbers, because ties between
deletions are decided by the order of device ids.

In `PortableReplicas` the book has one progress register and some notes. Bookmarks
are not modelled apart: they are stored by the code that stores notes. `store`,
`revision`, `counter` and `present` are the database; `basis` is the in-memory
registry of bases; `archives` are exported files, which the cloud snapshots share
code with. Reading a snapshot and adopting from it are one action, because
adopting only looks at the snapshot and the revision taken with it. `MayWrite`,
`ClockAdvances` and `Collide` are the checks of `prepare_observed_write` in their
order; a write that fails one of them changes nothing and so is no step.
`events`, `received` and `writes` are history variables: all versions written and
what their writers had seen, all that ever went into a store, and the number of
local writes. No guard reads them, with one exception: `CreateNote` picks an id that
was never used, which stands for the random ids of the program.

### ProgressWriter

`held` is the writer's map from books to lanes, `lane` the lane objects, `checkpoint` the
recovery records, which survive `Crash`. The code between two awaits is one action. Flushes that await the
write of a lane are the queue `waits`: when the write ends (`EndFlight`) they resume in the
order in which they awaited it, in the same step, as promise jobs do; the first one with
something left to write starts the next write, and the ones behind it find that write and wait on. A write is
`sent`, then `stored` (`Deliver`), then confirmed; `Reject` may come in either stage, so
an answer can be lost after the store has taken the sample. `stored`, `position` and
`turn` are history: what the store has taken last, what was recorded last, and how often. A
sample's `at` is `lane.sequence`, numbered per book instead of per lane. A debounce of zero, `disposeTimers`, and the
older `ShelfProgressWriter` with its wrappers are left out. `CloseUnsaved` is a window that closes although
a position is not saved: the handoff of its lane, then the end of the process. `Next` lets any caller do anything
the interface admits; `ReadingSession` restricts it to what the code does.

`LatestChannel` is the abstract specification: positions are offered one after the other,
some are delivered, never an older one after a newer one, and a caller is told "saved" of
a session only when its last position, or a newer one, is delivered.

### ReadingSession

It extends `ProgressWriter` by the code around it and uses its actions as they
are: `PageTurn`, what the store makes of a write (`Commit`, `Answered`, `StaleBasis`, `Refused`,
`ProjectionFails`, `RequestFails`), another device's version (`Merge`), the store starting again
under the window (`Restart`), `Shown` and `Hidden`, the end of the process, the phases of an opening and
those of a leaving. An action goes from one await of the
source to the next. `Resumes` has priority over everything else: a flush that has a verdict
resumes its caller as the next promise job, before any event.

The store of this module is the part of `PortableReplicas` that a session meets: versions
of the book's position, own ones numbered by the local revision, and another device's version
that takes the place of the others or stands beside the own one. A
session keeps what it observed, the revision and run of the store it was bound in, and what
it shows; `opened`, a history field, is what the reader was shown at opening.

Merged steps: the readiness check before an opening is part of `OpenBegin`; the explicit
persist at the start of an opening or leaving is a `PageTurn` that may come before. A local storage that
refuses a record is a page turn that did not happen.

A window that is asked to close flushes its lanes and ends (`closeWindow` in `App.tsx`). In the model it
flushes lanes by `Hidden`, one after the other, because lanes do not
meet; then the process ends with everything saved (`CrashSession`, which stands for any other end as well), or it
stays open, or the choice to close anyway hands a lane off and ends (`CloseAnyway`). That choice hands off one failed lane in
a step; the others keep the records of their last positions, as in a crash. The guard `closing` and the prompt are no
state: they suppress repeated requests and lead to another flush or to `CloseAnyway`. A `destroy` that
fails is left out: the window would stay with the lanes handed off, which is the state of finding 3.

`leaveReader` does not ask whether a leaving is under way, and the Android Back key can start a second
one. `LeaveAgain` is what it comes to: it shares the flush of the first leaving, or finds no lane, and in
either case fails and resets the busy flag; or it finds no lease and goes to the shelf. A second leaving whose
flush is for a session that took over meanwhile is left out. Tabs, search targets and parsing are left out: they fail (`OpenAborts`) or they do not.

### LibraryOrganization

`store` is a function from register names to registers (value, counter, device). Every command
writes its registers under one new stamp in one transaction; `MergeArchive` merges registers one by
one and raises the clock. `job` is a directory import with the snapshot of places it took;
`CommitBatch` decides each waiting book in the transaction, creates the planned folder when it is
needed, and takes a new snapshot. `plan` is an import into a folder, which reads the organization (`PlanPlacement`) and moves
books (`ApplyPlacement`) in two transactions. Commands, removals and archives may come in between: nothing in the code
holds them off on Android, and a command already under way on the desktop. The move is decided by what was
read; its transaction only checks that the folder lives and the books are known (`CanPlace`). Two
imports into folders at once are one `plan` and a `MoveBooks`. Books are not removed during a directory import, which
`handleShelfDelete` checks. `events`, `received`, `disturbed` and a plan's `seen` are history: all writes, those that
reached a device, the books whose folder register changed since the directory job looked, and the registers
that an import into a folder saw.

### CloudSync

A generation in the cloud is a file named by the installation and by the digest of
its contents. The model represents a portable state by the set of events merged into
it, with union for merge: `Convergence` of `PortableReplicas` (model-checked, and
proved as `ReplicasConverge`) is what justifies that. Each request
of a round is an action, so that rounds of other devices, local edits, failures and
crashes can come between any two: `List`, `Gather` (staging recovery and
loading), `FoldSeen`, `FoldRead`, `FoldWithout`, `FoldDamaged` (one generation each),
`SaveView`, `Apply`, `SavePending`, `Put`, `Move`, `Cleanup`, `Validate`, `Tidy`,
`Collect` (one deletion each), `Finish`.

`PutFails` and `MoveFails` are requests that report a failure after having been
carried out, in part, or not at all; with `LateRequests` the server may carry
them out later (`Land`). `Abort` is every other failure, a cancelled round and a crash:
the round lives in memory only. `Vanish` is somebody else deleting a generation.
`Reconnect` is disconnecting and connecting again, or connecting again to the same
directory.

Left out of the engine: the progress-source declarations, the size budget of
a generation, and a change of the writer identity, each a feature of its own. Which of
several old generations survives a collection depends on their publication times, and
clocks can be wrong; `Collect` may keep any one of them.

`SharedHistory` is the abstract specification: devices write events, share some of what
they know and learn some of what is shared; nothing shared is withdrawn, and nothing is
learned that was not shared. `CloudSync` refines it with
`shared <- Readable`, the union of the intact generations.

### CloudSyncControl

One action per lock section of `commands.rs`: commands, the timer task, the start and
end of round tasks, and the steps of the one administrative operation that
`admin_busy` admits (it asks for the gate, takes it and with it `round_cancel`, ends).
`queue` is the fair mutex `round_gate`. Times are the time left: `Tick` lowers them
all, `0` is due. `token` is whose `Cancel` `round_cancel` holds. Asking for a round
and arming the timer take the lock twice in `trigger`; they are one step, because only a
timer armed before can come between, and it decides by the schedule it finds. Releasing
the gate and clearing `admin_busy` are one step as well. Wall-clock time does not
step back in the model. What `connect` and `disconnect` do to files is
in `CloudSync`.

`test_connection` is the operation that does not end the running round: it waits for the gate like the others, and
takes `round_cancel` with it. The service admits it at any time and so does the model; the window offers it only while it
knows of no connection (`CloudSyncPanel.tsx:398`). `lost` is a history variable: the rounds whose `Cancel` a
test has taken while they had not been told to stop.

## 3. Runs

| Run | Instance | Shows |
|---|---|---|
| `MCProgress` | progress; two devices with a session each, one of them the web build; counters to 4, at most four versions | `TypeOK`, `Convergence`, `ClocksNeverRefuse`, `DominatesOnlySeen`, `SeenIsReplaced`, `ResolveSettles` |
| `MCRecords` | progress and one note; two devices, the first with two sessions, the other the web build; counters to 4, one removal of the book, at most three versions | `NoStaleLocalWrite`, `StampsNameOneEvent`, `TombstoneFinal` |
| `MCRemovalSeen` | progress; two native devices, counters to 4, one removal | finding 1 |
| `MCWriter` | one book, two sessions, two callers, four page turns, any number of failures and crashes, fair | `TypeOK`, `NothingLost`, `NoStarvedSample`, `RefinesLatestChannel`, `FlushReturns` |
| `MCReading` | two books, three leases; two page turns, one remote version, one fault, within `Explored` | `SessionTypeOK`, `ReaderIsWritable`, `PositionIsKept`, `ReplacesOnlyShown`, `SilentOpenFindsPosition` |
| `MCReadingLive` | one book, two leases, one page turn, one fault (releasing a basis too), fair | `ShelfIsReleased` |
| `MCLeaving` | one book, one fault in releasing a basis | finding 3 |
| `MCLibrary` | two devices, one importing; two folders, one book; counters to 3, at most three writes | `TypeOK`, `Convergence`, `StampsNameOneValue`, `DissolvedForever`, `BatchRespectsChanges`, `ReimportKeepsFiled` |
| `MCCloudLate` | two devices, one event, two disturbances, late requests, vanishing generations | `TypeOK`, `ViewCoversSeen` |
| `MCCloudLateDurable` | one device, two events, late requests, two disturbances | finding 2 |
| `MCCloudLive` | two devices; one event and two disturbances, or two events and none; fair | `PublishedIsDurable`, `UploadsRecovered`, `CloudNeverForgets`, `RefinesSharedHistory`, `EventuallyConverged`, `EventuallyQuiet` |
| `MCControl` | test, connect, disconnect, reset at any time; five commands, fair | `TypeOK`, `NoLostTimer`, `RunningIsCurrent`, `ManualIsDue`, `OvertakenIsStopped`, `RequestsServed` |

Bounds, and why they are enough:

* `MaxCounter` stands for `MAX_SAFE_COUNTER`: the program refuses a write beyond it and so
  does the model. Adding a book takes two counters of a native device and one of a web build, so
  that two devices and counters to 4 give
  a first position, concurrent writes, a choice between them and an edit made without knowing
  of the choice, which is the shortest history in which a merge of merges differs
  from a merge of events. Without a value but `Null` versions differ by their stamps alone. `FewEvents` and `OneKind` are state constraints of the runs in which
  counters alone leave too many histories: at most four versions of a progress, long histories of the
  progress or of the note and not of both, of folders and not of marks. One file
  place is enough for archives to be merged late and twice, as it is only replaced by
  another export.
* `MaxPurges` bounds removals. A removal starts revisions at zero again, where a basis
  adopted before the first write has them. In `MCRecords` the second device has no session: it merges, exports and
  removes, and so gives the first one its own archives back at any time.
* `MaxTurns` bounds page turns. Four give a sample under way, one that waits, one that replaces it and one
  after a handoff, in the old session or the next. Leases are session objects: two are a session and
  its successor, used again once nothing refers to the first. In `MCReading` `Explored` bounds
  page turns, arrivals and failures together: one when both books are used; with one book three,
  of which two page turns beside an arrival are followed only while the book is displayed and
  nobody opens or leaves. The openings and leavings between them are not bounded.
* `MaxRemote` and `MaxFaults` bound versions of other devices, and failures and restarts of the
  store. Crashes and refused writes are not bounded. `MaxWrites` bounds local writes of a book, so that
  versions can be enumerated by the types; the runs never come to it.
* In `MCLibrary` a counter of 3 is a folder, a placement in it and a change of either, or two folders
  and a move between them; the third policy, `preserveAll`, only withholds moves and is
  covered by the proofs.
* `MaxDisturbances` counts failures, crashes, removals and lost connections together. Two allow
  a failed upload and a lost connection or a second failure during the recovery; one can
  come between any two requests, with another device's round in between. A device collects a generation
  only after two events, which `OneDisturbed` has without disturbances; the two together are
  left to the proofs of section 5. Writes and disturbances are no fair steps, so the bound cuts off no
  step that the liveness properties rest on.
* `MaxCalls` bounds commands. Five is a trigger, a hide and a return while its round runs,
  an operation that overtakes it, and one more trigger. Delays are 1 or 2 ticks with the orders that
  the program's constants have.
* Symmetry is used in safety runs only, where no operator depends on the identity
  of what is permuted. `CHOOSE` picks the one element with a property wherever it is used there.
* Deadlock checking is off in `MCControl` only: when the window makes no more calls and
  nothing is pending the service rests.

Fairness. `ProgressWriter`: timers fire, and a write that was sent is answered in some way.
`ReadingSession`: requests are answered, timers fire, dialogs of an opening are answered in some way, and what can go
on without failing goes on; strong fairness, because the priority of resuming callers
disables these steps again and again, and weak fairness for the callers. Nothing is assumed of page turns, openings, leavings,
closing windows, merges and failures. `CloudSync`: `WF(Step(d))`. The scheduler starts a round at start-up,
on return to the foreground and for every change, and retries a failed one
(`scheduler.rs`, `finish`); within a round the engine runs on. A failure that is not worth a retry blocks the schedule until
a round is asked for by hand or the app is started again (`scheduler.rs:106-111`), and a closed app makes
no rounds. So this assumes of the users of every device that the app is opened again, or a round asked for by
hand, also after such a failure; without it nothing could converge. Nothing is
assumed of writes, removals or disturbances, which are bounded and may never happen.
`CloudSyncControl`: time passes, spawned tasks run, the gate is fair, and requests
end because each one has a deadline (`remote.rs`). A round that was not stopped waits
while the window is hidden or the reader is being touched, so its end is
fair only when neither is the case; commands of the window are never assumed.

Every property of a passing run has a mutant in `PROJECT.json`: an operator beside the
definition it changes, with a plausible bug, for which TLC reports the property violated.

## 4. What the runs found

1. **A removed book makes a device forget what it had exported** (`MCRemovalSeen`).
   `merge.rs:116` says that a version dominates another one only if it has seen all of it.
   `purge` drops the records of a book and keeps the device's counter. When the
   book is added again, its first position is made against an empty frontier but with
   a clock entry for its own device that is above the exported version's; so merging the
   two drops the exported position although nobody at the device saw it, and nobody has to turn a
   page for that. As long as no book is removed, `DominatesOnlySeen` and its converse `SeenIsReplaced` hold (`MCProgress`).
2. **A timed-out PUT that is carried out later can be published under another digest**
   (`MCCloudLateDurable`). The staging path is one per installation. If the server carries
   out an earlier round's PUT between the next round's PUT and MOVE, then the MOVE gives
   old contents the new name, and collection goes on although `engine.rs:574` says that the
   new file is durable. Readers reject the file by its digest, so nothing wrong is merged;
   what is at stake is that the older generations are deleted meanwhile, and that the
   damaged generation is never replaced while its owner has nothing new to say: this is why
   `MCCloudLive` has no late requests. `ViewCoversSeen` holds regardless (`MCCloudLate`, and proved).
3. **Leaving anyway can be refused for ever** (`MCLeaving`). A leaving that saved the last position retires its lane
   and then releases the session's basis. If that request fails, the leaving ends in the prompt, with
   `activeProgressLeaseRef` still naming a session without a lane. "Leave anyway" begins with a flush of that session,
   which throws because the lane is gone, and ends in the same prompt, although `useBookOpen.ts:850` says
   "never block leaving". Only opening the same book again replaces the lease. The position is safe throughout;
   `MCReading`, whose `ReaderIsWritable` speaks of that lease, has no such failure (`CloseFaults`).

Three more disagreements have no run of their own: the model takes the step, and a property states what
remains of the rule, or names the exception.

* **An import into a folder can pull a filed book out of another one.** `importIntoFolder.ts:27` says
  that a book filed elsewhere is never pulled out by a re-import. `placeIntoFolder` reads the organization and moves
  in a later transaction without looking again, so a book that is filed in between is moved all the same. On Android
  the import has cleared `nativeImportRef` before it places the books (`useBookImport.ts:430`, `:639`, `:491`) and never sets
  `shelfBusyRef`, so that a command of the user is admitted in that window (`useShelfLibrary.ts:216`); elsewhere
  a command that was under way already, or an archive, can come into it. In `LibraryOrganization` commands, removals
  and archives all come between `PlanPlacement` and `ApplyPlacement`.
  `ReimportKeepsFiled` (`MCLibrary`, and proved) is what remains: what the import saw filed stays filed. A directory
  import decides in the transaction and keeps the rule (`BatchRespectsChanges`).
* **A tested connection takes the stop button from a round.** `scheduler.rs:1` speaks of a
  single-flight policy. A test stops no round. If it comes to the gate after a round was started and before that
  round does, then `round_cancel` is the test's from there on (`commands.rs:230`), and the round
  cannot be stopped by the stop button or by hiding the window. After the stop button the next round
  starts beside it; the two still take the gate in turn. A test must have been asked for with an old status for that.
  `OvertakenIsStopped` (`MCControl`, and proved) excepts just these rounds, `lost`; without
  the exception TLC finds the history above.
* **Changes put off a retry.** `scheduler.rs:49` says that quiet-window updates extend only other
  delayed change requests; the code extends every pending request that is not manual and not due yet, the delayed round of
  start-up and the retry of a failed one among them. `DueWith` does the same. That the round is served in the end
  is `RequestsServed`.

## 5. Proofs

`CausalMergeProofs` has lemmas on the algebra: dominance is a strict partial order, joins of
bounded clocks are clocks, the clock of a new version is above all its writer saw and tells
of other devices nothing else, the frontier of a union is the merge of the frontiers of its
parts, and the later of two stamps is the last of both.

`PortableReplicasProofs`, for any devices, sessions, entities, values, files and bounds:

* `ReplicasTypes`: `Spec => []TypeOK`.
* `StampsAreUnique`: `Spec => []StampsNameOneEvent`.
* `ReplicasConverge`: `Spec => []Convergence`.
* `TombstonesAreFinal`: `Spec => TombstoneFinal`.

They share the inductive invariant `Typed /\ Allocated /\ Settled`. `Typed` is `TypeOK` with
every counter, clock entry and stamp within `MaxCounter`, in stores, archives and
bases alike: `JoinClocks` and `CounterBound` choose the largest of a set of numbers, and only a bounded
set has one. `Allocated` says that no event of a device has a counter above the
device's, and that stamps are unique; it speaks of all events ever written and not
of the records, since a removal drops records while their stamps live on in archives.
`Settled` states that a store is the frontier of all it received, for stores *and*
archives and with frontiers in place of `MergeVersions`: a frontier lies in the received set,
has no superseded member, and everything received is in it or superseded by a member *of
it*. In that form merging two settled states is settled for the union of what
both had received (`FrontiersMerge`), whatever either had already dropped, without any
appeal to finiteness; that a frontier is what `MergeVersions` returns is `FrontierIsMerge`.

`PortableCausalityProofs`, for the same constants:

* `NoWriteIsStale`: `Spec => []NoStaleLocalWrite`.
* `ClocksRefuseNothing`: `Spec => []ClocksNeverRefuse`.
* `SeenVersionsAreReplaced`: `Spec => []SeenIsReplaced`.
* `ResolutionsSettle`: `Spec => ResolveSettles`.
* `OnlySeenIsReplaced`, `ExportedIsSuperseded`: `Spec => []DominatesOnlySeen` and
  `Spec => []ExportedOnlySupersededWhenSeen`, when `MaxPurges = 0`: no device removes the book. Finding 1
  shows that the second needs this.

The first one rests on `Guarded`: a revision never exceeds its device's counter, and a basis has no
later revision than its entity, and the same number of writes if it has the same one. So a
write outdates all other bases, because its counter is above the device's, and a removal
that resets the revisions has to release every basis. The others share the invariant above
and two parts more. `Sourced` says that all that is stored, exported or adopted is a version of some event of that
entity. `Covered` says that the clocks of versions are valid, name no device beyond its own counter, and stay below
the counter of every device that stores the version or whose session adopted it. A
new version is then above everything its writer could meet, collides with nothing and survives its
own merge, and after a choice that passed its checks it is above everything in the store. `Remembered` adds
that what a writer saw are events, `Informed` that whatever a clock tells of a device was
known to the writer; the latter needs that a device keeps what it wrote.

`CloudSyncProofs`, for any devices, events and number of disturbances, with late requests and
vanishing generations allowed:

* `CloudTypes`: `Spec => []TypeOK`.
* `SkippedIsCovered`: `Spec => []ViewCoversSeen`, by the invariant
  `ViewCoversSeen /\ GatherCovered`; the second part is about a round that has listed and
  not yet loaded its view, while its connection cannot change under it.

The same module, for any devices, events and number of disturbances, under
`~LateRequests` and `~MayVanish` (finding 2 shows why the first is needed; a directory from
which others delete keeps nothing):

* `RoundsShareHistory`: `Spec => RefinesSharedHistory`.
* `NothingIsForgotten`: `Spec => CloudNeverForgets`.
* `NewGenerationIsDurable`: `Spec => []PublishedIsDurable`.
* `UploadsAreRecovered`: `Spec => []UploadsRecovered`.

The inductive invariant is `Sound` beside `TypeOK` and the one above. `PublishedIsDurable` alone
is not inductive: a round that publishes nothing relies on a generation it only listed. `Sound` says
that own names in a round's listing, and the own digests it gathers from them, are of
generations that still exist (only their owner collects them, and not before `collect`);
that an upload about to be named is the round's whole state, so every generation is
what its name says; that an upload is part of the view its round saved before; and that all
a device holds anywhere it has had (`known`). Collection then deletes only what the durable
generation contains, because markers are covered, and MOVE shares only what its device knows.

`CloudSyncControlProofs`, for any delays, operations and number of calls:

* `ControlTypes`, `NoWakeupIsLost`, `OneRoundHasTheTurn`, `ManualComesFirst`:
  `Spec => []TypeOK`, `[]NoLostTimer`, `[]RunningIsCurrent`, `[]ManualIsDue`.
* `StoppingReachesRounds`: `Spec => []OvertakenIsStopped`.

Here too `Sound` strengthens them. `RunningIsCurrent` needs that an operation which replaces
the schedule has ended the round when it began, and that only an operation under way is in
the gate; epochs and owed rounds are bounded by the calls that paid for them. `NoLostTimer`
is kept because `Arm` arms exactly when a round is waiting *after* the step, and because a
timer that fires without starting a round contradicts the invariant. For stopping, one
more part: the only round that was neither stopped nor lost is the one whose `Cancel` the service holds. An operation that is no
test has overtaken every round before it takes `round_cancel`, so only a test takes it from one.

`ProgressWriterProofs`, for any books, sessions, callers, positions and number of page turns:

* `WriterTypes`, `NothingIsLost`, `NoSampleStarves`: `Spec => []TypeOK`, `[]NothingLost`, `[]NoStarvedSample`.
* `WriterRefinesChannel`: `Spec => RefinesLatestChannel`.

`NothingLost` is about the store and the recovery record and says nothing of the lanes, which decide what is
written next; a late acknowledgement could remove a record that a lane still needs. `Sound` adds
what lanes, writes, records and waiting flushes owe each other: the sample that waits, or failed, is the last recorded position; the write under
way is that one or an older one, and then its record's id is not the current record's, so
that confirming it removes nothing; a lane in the map belongs to its own book and the others are gone; the
flushes that wait do so only on a lane with a write under way. The
refinement follows because a write under way never has a smaller number than the last delivered one, and a
flush says "saved" only of a lane that holds nothing.

`ReadingSessionProofs`, for any books, leases, openings, callers, positions and bounds, with any number of openings
at once:

* `SessionTypes`: `SessionSpec => []SessionTypeOK`.
* `SessionsUseWriter`: `SessionSpec => Spec`, the specification of `ProgressWriter`. So what is proved of the writer
  holds of it in the application: `SessionsLoseNothing` (`[]NothingLost`), `SessionsRefineChannel` (`RefinesLatestChannel`).
* `OnlyShownReplaced`: `SessionSpec => []ReplacesOnlyShown`.
* `SilentOpenFinds`: `SessionSpec => SilentOpenFindsPosition`.
* `HeldLanesAreLive`: `SessionSpec => []LanesAreLive`, the first two parts of `ReaderIsWritable`.
* `DisplayedIsWritable`: `SessionSpec /\ []Alone => [](~CloseFaults => ReaderIsWritable)`.
* `LastPositionIsKept`: `SessionSpec /\ []Alone => []PositionIsKept`.
* `OpeningsAreAlone`: `SessionSpec /\ [][LeavesBetween]_vars => []Alone`.

`Alone` says that one book at a time is being opened. The shelf's busy flag sees to that, but the end of a leaving
resets the flag too, and so does a second leaving beside the first; `LeavesBetween` says that no leaving begins while a book is
opened and no opening while a book is left. Without it a second
opening can register its lane while the first one still holds a decision from before. `CloseFaults` is finding 3: with
it the displayed book can be without a lane.

All of them rest on `Linked`: the writer's `Sound`, the types, and `Links`, which says who may hold a
lease: the candidate of an opening is known to it alone; a lane in the map has a session that is open and active; an
active session has the book's lane or is being released by the opening or leaving that dropped it; and what an
opening needs in a phase it has. A lane is retired and its session closed two steps apart, so neither half of this
is inductive alone. The other invariants are added to it:

* `ShownIsOpened`: a session shows what was opened or an own version, and observed nothing else of other devices. This
  is why binding a basis again to what is shown cannot let it replace a version that arrived later.
* `Finds`: a decision without a question, made at the last turn, leads to the last position, *or* the store took that one
  and every write under way carries it (`LatestOnly`); a late write of an older sample would otherwise put the
  store back behind the decision.
* `Laneless`, `WritableOrBetween`: an opening that found no lane, or dropped it, keeps the book without one until it
  takes over; the displayed book has its lane, or the opening is between dropping it and taking over.
* `Kept`: a basis that no local write overtook is part of the store (`Based`); what the store took last is there
  (`Lasting`); and a record that an opening decided to acknowledge is in the store as long as it is the book's record
  (`Acknowledges`), *or* the book's lane has taken a newer position and not delivered it (`Undelivered`). In that case
  the lane cannot be retired, so the opening fails before it would acknowledge anything.

`LibraryOrganizationProofs`, for any devices, folders, books, names, files, policies and bounds:

* `LibraryTypes`, `Converges`, `StampsAgree`: `Spec => []TypeOK`, `[]Convergence`, `[]StampsNameOneValue`.
* `DissolvedStays`, `BatchesRespectChanges`, `ReimportsKeepFiled`:
  `Spec => DissolvedForever`, `BatchRespectsChanges`, `ReimportKeepsFiled`.

The invariant says that each register tops the writes its device, or archive, has received; that clocks are not below
anything written or received by a device, also when a removal has dropped the registers; and that every folder a book is
filed in has a name wherever that is known, so what a batch moves shows. For the imports it says that what waits was seen as
the job saw it and that the register of an undisturbed book is the one seen, so that a batch that finds the
same place finds an undisturbed one: changed registers have strictly later stamps, and never return to an old one. An
import into a folder needs only that what it moves of the shelf was in no folder when it looked, and that a book in no
folder, whose register has not changed since, is still in none: folders that were dissolved stay so.

Assumptions are those of the modules (`DevicesAssumption`, `ReplicasAssumption`, `BookOfAssumption`, `TurnsAssumption`,
`OpensAssumption`, `BoundsAssumption`, `StampsAssumption`, `PoliciesAssumption`, `CounterAssumption`, `CloudSyncAssumption`,
`ControlAssumption`): devices are numbers where they are ordered,
bounds are natural numbers, `Null` is a value, `Home` and `BookOf` are functions, `Events`
is finite, openings are among the callers of flushes, `Stamps` has the stamps of the versions that bounded writes and arrivals can
make, and `None` is none of the records it stands beside (`NoneAssumption`, `RecordsAssumption`). TLC evaluates them in every run.

Only model-checked: all liveness properties and everything with fairness or ENABLED
(outside the prover's reach). Every invariant and every other action property of the passing runs is
proved. No recursive operators are used; nothing here needs induction over data.

## 6. Not modelled

* **Rendering and the interface** (`render/paginator.ts`, `ReaderView.tsx`, `ContinuousReaderView.tsx`, `ShelfView.tsx` and
  most of `App.tsx`), the larger part of the TypeScript code: geometry, DOM measurement and views. Their
  correctness is about pixels and text ranges, which have no small instances. What they do to shared state goes through the
  writer, the sessions and the organization, which are modelled.
* **Adapters and projection** (`portable_state_commands.rs`, `tauriService.ts`, `indexedDbStorage.ts`, `shelf.ts`, `libraryLoad.ts`):
  one transaction or one derivation per call. Two refreshes may race and the older one show for a moment; the
  next one corrects it.
* **Data conversions** (archive format, DAV XML, gzip, legacy records, schema): what they compute is data, and each
  conversion is one transaction.
* **Cloud progress sources, generation size budget, change of writer identity**: features of a round beside its history.
* **LAN session, library relocation, import gate, external open inbox, model locks**: small protocols of their own that TLC could check, with
  no state in common with the modules here. Reading, organization and cloud were taken first; the hazards
  of the first two and of the inbox are listed with their lines.
* **Private shelf, bridges, updates, fonts**: cryptography and calls of the operating system.
