----------------------------- MODULE CloudSync -----------------------------
(***************************************************************************)
(* Rounds of cloud synchronisation, cloud_sync/engine.rs: every device     *)
(* keeps immutable generations of all it knows in one WebDAV directory,    *)
(* named by their content, reads the generations of the others, merges     *)
(* them into its library, publishes a new generation when what it knows    *)
(* is not in the cloud yet, and collects its own old ones.  There is no    *)
(* lock and no server logic: a round is a sequence of requests, each of    *)
(* which other rounds, local edits, failures and crashes can separate from *)
(* the next.                                                               *)
(*                                                                         *)
(* A state is the set of events merged into it, and merging is union: what *)
(* PortableReplicas shows of the store (its Convergence) is what makes the *)
(* set of received events a faithful stand-in for the stored frontier.     *)
(* Two equal sets have the same digest, and only those.                    *)
(***************************************************************************)
EXTENDS Naturals, FiniteSets

CONSTANTS
  Devices,
  Events,             \* what can be written, each once
  MaxDisturbances,    \* bound: failures, crashes, removals and lost caches
  MayVanish,          \* something else may delete a generation
  LateRequests        \* a request that timed out may be carried out later

ASSUME CloudSyncAssumption ==
  /\ MaxDisturbances \in Nat
  /\ {MayVanish, LateRequests} \subseteq BOOLEAN
  /\ IsFiniteSet(Events)

VARIABLES
  local,         \* device -> events in its library
  bound,         \* device -> the book is on its shelf
  conn,          \* device -> connection.json.gz: its view of the cloud
  round,         \* device -> the running round, in memory only
  generations,   \* the generations in the cloud
  staged,        \* device -> its upload that no MOVE has named yet
  late,          \* device -> requests it gave up that the server still holds
  disturbances,
  written,       \* history: the events written so far
  known          \* history: device -> events it ever had

disk == <<local, bound, conn>>
cloud == <<generations, staged, late>>
history == <<written, known>>
vars == <<disk, round, cloud, disturbances, history>>

NoView == [has |-> FALSE, events |-> {}]
View(S) == [has |-> TRUE, events |-> S]

NoUpload == [kind |-> "none", events |-> {}]
Partial == [kind |-> "partial", events |-> {}]
Upload(S) == [kind |-> "complete", events |-> S]

Names == [owner : Devices, digest : SUBSET Events]
NameOf(g) == [owner |-> g.owner, digest |-> g.digest]
Listing == {NameOf(g) : g \in generations}

\* A reader accepts a generation when its content has the digest it is named by.
Intact(g) == g.upload = Upload(g.digest)

Readable == UNION {g.digest : g \in {g \in generations : Intact(g)}}

Resting ==
  [pc |-> "rest", todo |-> {}, full |-> {}, seen |-> {}, digests |-> {},
   pending |-> FALSE]

NewConnection == [view |-> NoView, seen |-> {}, pending |-> FALSE]

Init ==
  /\ local = [d \in Devices |-> {}]
  /\ bound = [d \in Devices |-> TRUE]
  /\ conn = [d \in Devices |-> NewConnection]
  /\ round = [d \in Devices |-> Resting]
  /\ generations = {}
  /\ staged = [d \in Devices |-> NoUpload]
  /\ late = [d \in Devices |-> {}]
  /\ disturbances = 0
  /\ written = {}
  /\ known = [d \in Devices |-> {}]

At(d, pc) == round[d].pc = pc

Disturb ==
  /\ disturbances < MaxDisturbances
  /\ disturbances' = disturbances + 1

-----------------------------------------------------------------------------
\* The library of a device, outside of any round

WriteLocal(d, e) ==
  /\ bound[d]
  /\ e \notin written
  /\ local' = [local EXCEPT ![d] = @ \cup {e}]
  /\ written' = written \cup {e}
  /\ known' = [known EXCEPT ![d] = @ \cup {e}]
  /\ UNCHANGED <<bound, conn, round, cloud, disturbances>>

RemoveBook(d) ==
  /\ bound[d]
  /\ Disturb
  /\ bound' = [bound EXCEPT ![d] = FALSE]
  /\ local' = [local EXCEPT ![d] = {}]
  /\ UNCHANGED <<conn, round, cloud, history>>

AddBook(d) ==
  /\ ~bound[d]
  /\ bound' = [bound EXCEPT ![d] = TRUE]
  /\ UNCHANGED <<local, conn, round, cloud, disturbances, history>>

\* Disconnecting deletes the connection file, so that connecting again starts
\* afresh; connecting to the same directory without disconnecting keeps the view
\* and its markers but not the upload under way.  Both wait for the running round.
Reconnect(d) ==
  /\ At(d, "rest")
  /\ Disturb
  /\ \E c \in {NewConnection, [conn[d] EXCEPT !.pending = FALSE]} :
       conn' = [conn EXCEPT ![d] = c]
  /\ UNCHANGED <<local, bound, round, cloud, history>>

-----------------------------------------------------------------------------
\* A round: reading

List(d) ==
  /\ At(d, "rest")
  /\ round' = [round EXCEPT ![d] =
       [Resting EXCEPT !.pc = "gather", !.todo = Listing, !.seen = conn[d].seen,
                       !.pending = conn[d].pending]]
  /\ UNCHANGED <<disk, cloud, disturbances, history>>

FoundUpload(d) == IF conn[d].view.has THEN NoUpload ELSE staged[d]

\* Mutant: without a view only the directory counts.
StartingAfresh(d) == IF conn[d].view.has THEN conn[d].view.events \cup local[d] ELSE {}

StartingState(d) == conn[d].view.events \cup local[d] \cup FoundUpload(d).events

\* Without a view the markers of generations seen mean nothing, and an upload
\* that was never named may hold what only this device had.
Gather(d) ==
  /\ At(d, "gather")
  /\ round' = [round EXCEPT ![d] =
       [round[d] EXCEPT !.pc = "fold", !.full = StartingState(d),
                        !.seen = IF conn[d].view.has THEN @ \cap round[d].todo ELSE {},
                        !.pending = @ \/ FoundUpload(d) # NoUpload]]
  /\ UNCHANGED <<disk, cloud, disturbances, history>>

NextName(d, n) ==
  /\ n \in round[d].todo
  /\ n.owner # d => \A m \in round[d].todo : m.owner # d

OwnDigest(d, n) == IF n.owner = d THEN {n.digest} ELSE {}

FoldSeen(d, n) ==
  /\ At(d, "fold")
  /\ NextName(d, n)
  /\ n \in round[d].seen
  /\ round' = [round EXCEPT ![d] =
       [round[d] EXCEPT !.todo = @ \ {n}, !.digests = @ \cup OwnDigest(d, n)]]
  /\ UNCHANGED <<disk, cloud, disturbances, history>>

FoldRead(d, n) ==
  /\ At(d, "fold")
  /\ NextName(d, n)
  /\ n \notin round[d].seen
  /\ \E g \in generations :
       /\ NameOf(g) = n
       /\ Intact(g)
       /\ round' = [round EXCEPT ![d] =
            [round[d] EXCEPT !.todo = @ \ {n}, !.digests = @ \cup OwnDigest(d, n),
                             !.full = @ \cup g.digest, !.seen = @ \cup {n}]]
       /\ known' = [known EXCEPT ![d] = @ \cup g.digest]
  /\ UNCHANGED <<disk, cloud, disturbances, written>>

\* Mutant: what could not be read is not asked for again.
SkippedAsSeen(d, n) ==
  [round EXCEPT ![d] = [round[d] EXCEPT !.todo = @ \ {n}, !.seen = @ \cup {n}]]

Skipped(d, n) == [round EXCEPT ![d].todo = @ \ {n}]

\* The generation was collected after the listing, or it is damaged and not
\* this device's own: the round goes on without it.
FoldWithout(d, n) ==
  /\ At(d, "fold")
  /\ NextName(d, n)
  /\ n \notin round[d].seen
  /\ \A g \in generations : NameOf(g) = n => ~Intact(g) /\ n.owner # d
  /\ round' = Skipped(d, n)
  /\ UNCHANGED <<disk, cloud, disturbances, history>>

\* A damaged generation of its own ends the round.
FoldDamaged(d, n) ==
  /\ At(d, "fold")
  /\ NextName(d, n)
  /\ n.owner = d
  /\ n \notin round[d].seen
  /\ \E g \in generations : NameOf(g) = n /\ ~Intact(g)
  /\ round' = [round EXCEPT ![d] = Resting]
  /\ UNCHANGED <<disk, cloud, disturbances, history>>

\* Mutant: a view is saved as if there were none.
SavedUnmarked(d) ==
  [view |-> [NoView EXCEPT !.events = round[d].full], seen |-> round[d].seen,
   pending |-> round[d].pending]

SavedConnection(d) ==
  [view |-> View(round[d].full), seen |-> round[d].seen, pending |-> round[d].pending]

\* What was read is saved before the library changes.
SaveView(d) ==
  /\ At(d, "fold")
  /\ round[d].todo = {}
  /\ conn' = [conn EXCEPT ![d] = SavedConnection(d)]
  /\ round' = [round EXCEPT ![d].pc = "apply"]
  /\ UNCHANGED <<local, bound, cloud, disturbances, history>>

-----------------------------------------------------------------------------
\* A round: applying and publishing

\* Mutants: only a view that changed is published; every view is.
ViewGrew(d, full) == full # conn[d].view.events
Always(d, full) == TRUE

NeedsPublication(d, full) == full \notin round[d].digests

\* The books on the shelf take in the view in one transaction, whose result is
\* part of what is published: edits made while the round was reading are in it.
Apply(d) ==
  LET merged == IF bound[d] THEN local[d] \cup round[d].full ELSE local[d]
      full == round[d].full \cup merged
  IN  /\ At(d, "apply")
      /\ local' = [local EXCEPT ![d] = merged]
      /\ round' = [round EXCEPT ![d] =
           [round[d] EXCEPT !.full = full,
                            !.pc = IF NeedsPublication(d, full) THEN "publish" ELSE "tidy"]]
      /\ UNCHANGED <<bound, conn, cloud, disturbances, history>>

SavePending(d) ==
  /\ At(d, "publish")
  /\ conn' = [conn EXCEPT ![d] = [SavedConnection(d) EXCEPT !.pending = TRUE]]
  /\ round' = [round EXCEPT ![d] = [round[d] EXCEPT !.pc = "put", !.pending = TRUE]]
  /\ UNCHANGED <<local, bound, cloud, disturbances, history>>

CurrentName(d) == [owner |-> d, digest |-> round[d].full]

Put(d) ==
  /\ At(d, "put")
  /\ staged' = [staged EXCEPT ![d] = Upload(round[d].full)]
  /\ round' = [round EXCEPT ![d].pc = "move"]
  /\ UNCHANGED <<disk, generations, late, disturbances, history>>

LateRequest(d, op) ==
  /\ LateRequests
  /\ late' = [late EXCEPT ![d] = @ \cup {[op |-> op, events |-> round[d].full]}]

\* A PUT that reports a failure may have stored all, part or nothing, or still
\* be on its way.
PutFails(d) ==
  /\ At(d, "put")
  /\ Disturb
  /\ \/ /\ \E u \in {staged[d], Partial, Upload(round[d].full)} :
             staged' = [staged EXCEPT ![d] = u]
        /\ UNCHANGED late
     \/ /\ LateRequest(d, "put")
        /\ UNCHANGED staged
  /\ round' = [round EXCEPT ![d].pc = "cleanup"]
  /\ UNCHANGED <<disk, generations, history>>

\* MOVE without overwrite: it names the upload unless the name is taken.
Named(d, n) ==
  generations' = generations \cup
    {[owner |-> n.owner, digest |-> n.digest, upload |-> staged[d]]}

MoveSource(d) == staged[d] # NoUpload /\ staged' = [staged EXCEPT ![d] = NoUpload]

Published(d) ==
  round' = [round EXCEPT ![d] =
    [round[d] EXCEPT !.pc = "collect", !.pending = FALSE, !.seen = @ \cup {CurrentName(d)}]]

Move(d) ==
  /\ At(d, "move")
  /\ CurrentName(d) \notin Listing
  /\ MoveSource(d)
  /\ Named(d, CurrentName(d))
  /\ Published(d)
  /\ UNCHANGED <<disk, late, disturbances, history>>

MoveConflicts(d) ==
  /\ At(d, "move")
  /\ CurrentName(d) \in Listing
  /\ round' = [round EXCEPT ![d].pc = "cleanup taken"]
  /\ UNCHANGED <<disk, cloud, disturbances, history>>

\* The upload is gone: only a request of an earlier round can have taken it.
MoveMisses(d) ==
  /\ At(d, "move")
  /\ CurrentName(d) \notin Listing
  /\ staged[d] = NoUpload
  /\ round' = [round EXCEPT ![d].pc = "cleanup"]
  /\ UNCHANGED <<disk, cloud, disturbances, history>>

MoveFails(d) ==
  /\ At(d, "move")
  /\ Disturb
  /\ \/ UNCHANGED <<generations, staged, late>>
     \/ /\ CurrentName(d) \notin Listing
        /\ MoveSource(d)
        /\ Named(d, CurrentName(d))
        /\ UNCHANGED late
     \/ /\ LateRequest(d, "move")
        /\ UNCHANGED <<generations, staged>>
  /\ round' = [round EXCEPT ![d].pc = "cleanup"]
  /\ UNCHANGED <<disk, history>>

\* The upload is deleted after any failure; the target never is.
Cleanup(d) ==
  /\ staged' = [staged EXCEPT ![d] = NoUpload]
  /\ \/ At(d, "cleanup") /\ round' = [round EXCEPT ![d] = Resting]
     \/ At(d, "cleanup taken") /\ round' = [round EXCEPT ![d].pc = "validate"]
  /\ UNCHANGED <<disk, generations, late, disturbances, history>>

\* A name that was taken is read: the same generation published before, or
\* something else, which ends the round.
Validate(d) ==
  /\ At(d, "validate")
  /\ IF \E g \in generations : NameOf(g) = CurrentName(d) /\ Intact(g)
     THEN Published(d)
     ELSE round' = [round EXCEPT ![d] = Resting]
  /\ UNCHANGED <<disk, cloud, disturbances, history>>

-----------------------------------------------------------------------------
\* A round: tidying up

Tidy(d) ==
  /\ At(d, "tidy")
  /\ staged' = [staged EXCEPT ![d] = IF round[d].pending THEN NoUpload ELSE @]
  /\ round' = [round EXCEPT ![d] = [round[d] EXCEPT !.pc = "collect", !.pending = FALSE]]
  /\ UNCHANGED <<disk, generations, late, disturbances, history>>

\* Mutants: any own generation counts as old; any but its own current one does.
AnyOwn(d) == {n \in round[d].seen : n.owner = d}
AnyOther(d) == round[d].seen \ {CurrentName(d)}

OldOwn(d) == {n \in round[d].seen : n.owner = d} \ {CurrentName(d)}

\* All but one of the old generations go, one request each.  Publication times
\* pick the one that stays; clocks can be wrong, so it can be any.
Collect(d) ==
  /\ At(d, "collect")
  /\ Cardinality(OldOwn(d)) > 1
  /\ \E n \in OldOwn(d) :
       /\ generations' = {g \in generations : NameOf(g) # n}
       /\ round' = [round EXCEPT ![d].seen = @ \ {n}]
  /\ UNCHANGED <<disk, staged, late, disturbances, history>>

Finish(d) ==
  /\ At(d, "collect")
  /\ Cardinality(OldOwn(d)) <= 1
  /\ conn' = [conn EXCEPT ![d] = SavedConnection(d)]
  /\ round' = [round EXCEPT ![d] = Resting]
  /\ UNCHANGED <<local, bound, cloud, disturbances, history>>

-----------------------------------------------------------------------------
\* Disturbances

\* A failed read, save or deletion, a cancelled round, a crash.
Abort(d) ==
  /\ ~At(d, "rest")
  /\ Disturb
  /\ round' = [round EXCEPT ![d] = Resting]
  /\ UNCHANGED <<disk, cloud, history>>

\* The server carries out a request after the device gave it up.
Land(d) ==
  /\ \E r \in late[d] :
       /\ late' = [late EXCEPT ![d] = @ \ {r}]
       /\ \/ /\ r.op = "put"
             /\ staged' = [staged EXCEPT ![d] = Upload(r.events)]
             /\ UNCHANGED generations
          \/ /\ r.op = "move"
             /\ LET n == [owner |-> d, digest |-> r.events]
                IN  IF n \notin Listing /\ staged[d] # NoUpload
                    THEN MoveSource(d) /\ Named(d, n)
                    ELSE UNCHANGED <<generations, staged>>
  /\ UNCHANGED <<disk, round, disturbances, history>>

Vanish ==
  /\ MayVanish
  /\ Disturb
  /\ \E g \in generations : generations' = generations \ {g}
  /\ UNCHANGED <<disk, round, staged, late, history>>

-----------------------------------------------------------------------------

Fold(d) ==
  \E n \in round[d].todo :
    FoldSeen(d, n) \/ FoldRead(d, n) \/ FoldWithout(d, n) \/ FoldDamaged(d, n)

Step(d) ==
  \/ List(d) \/ Gather(d) \/ Fold(d) \/ SaveView(d) \/ Apply(d) \/ SavePending(d)
  \/ Put(d) \/ Move(d) \/ MoveConflicts(d) \/ MoveMisses(d) \/ Cleanup(d)
  \/ Validate(d) \/ Tidy(d) \/ Collect(d) \/ Finish(d)

Next ==
  \/ Vanish
  \/ \E d \in Devices :
       \/ Step(d)
       \/ \E e \in Events : WriteLocal(d, e)
       \/ RemoveBook(d) \/ AddBook(d) \/ Reconnect(d)
       \/ PutFails(d) \/ MoveFails(d) \/ Abort(d) \/ Land(d)

Spec == Init /\ [][Next]_vars

\* The scheduler starts a round when the app starts, comes to the foreground or
\* has something to send, and retries one that failed for a passing reason; in a
\* round the engine runs on.  Assumed besides: every device's app is opened again,
\* or a round of it asked for by hand, also after a failure that is not retried
\* (one that blocks the schedule until then).
Fairness == \A d \in Devices : WF_vars(Step(d))

FairSpec == Spec /\ Fairness

-----------------------------------------------------------------------------
\* Properties

Uploads == {NoUpload, Partial} \cup {Upload(S) : S \in SUBSET Events}
Views == {NoView} \cup {View(S) : S \in SUBSET Events}
Steps ==
  {"rest", "gather", "fold", "apply", "publish", "put", "move", "cleanup",
   "cleanup taken", "validate", "tidy", "collect"}

\* Every variable keeps its shape; only a view has events, and only an upload
\* that is complete.
TypeOK ==
  /\ local \in [Devices -> SUBSET Events]
  /\ bound \in [Devices -> BOOLEAN]
  /\ conn \in [Devices -> [view : Views, seen : SUBSET Names, pending : BOOLEAN]]
  /\ round \in [Devices ->
       [pc : Steps, todo : SUBSET Names, full : SUBSET Events, seen : SUBSET Names,
        digests : SUBSET SUBSET Events, pending : BOOLEAN]]
  /\ generations \subseteq
       [owner : Devices, digest : SUBSET Events, upload : Uploads]
  /\ staged \in [Devices -> Uploads]
  /\ late \in [Devices -> SUBSET [op : {"put", "move"}, events : SUBSET Events]]
  /\ disturbances \in 0 .. MaxDisturbances
  /\ written \subseteq Events
  /\ known \in [Devices -> SUBSET Events]

\* A generation that a round skips without downloading it is contained in what
\* the round starts from: the markers and the view are saved together, and the
\* markers are dropped when the view is lost.
ViewCoversSeen ==
  \A d \in Devices :
    /\ \A n \in conn[d].seen : n.digest \subseteq conn[d].view.events
    /\ ~At(d, "rest") /\ ~At(d, "gather") =>
         \A n \in round[d].seen : n.digest \subseteq round[d].full

\* The cloud never forgets: no step of any device, whatever failed before it,
\* makes an event unreadable that could be read; collecting a generation leaves
\* one that contains it.
CloudNeverForgets == [][Readable \subseteq Readable']_vars

\* "The new complete file is durable remotely" (engine.rs, after publishing):
\* when a round goes on to delete old generations, the generation it counts on
\* is in the cloud and is what its name says.
PublishedIsDurable ==
  \A d \in Devices :
    At(d, "collect") => \E g \in generations : NameOf(g) = CurrentName(d) /\ Intact(g)

\* An upload that was stored and never named is not lost with the cache: a
\* device with a view has in it all that its upload holds.
UploadsRecovered ==
  \A d \in Devices : conn[d].view.has => staged[d].events \subseteq conn[d].view.events

\* Every device that has the book ends up with all that the cloud has, and the
\* cloud with all that the devices have, each device publishing it: removing the
\* book on one device takes nothing from the others, and gives it back in full
\* when the book returns.
Converged ==
  \A d \in Devices :
    /\ local[d] \subseteq Readable
    /\ bound[d] => local[d] = Readable
    /\ \E g \in generations : NameOf(g) = [owner |-> d, digest |-> Readable] /\ Intact(g)

EventuallyConverged == <>[]Converged

\* Rounds go on for ever; uploads do not.  Two devices never answer each other's
\* generations with new ones without end, no unnamed upload is left behind, and
\* each device keeps at most its current generation and one backup.
Quiet ==
  /\ \A d \in Devices :
       /\ round[d].pc \notin {"publish", "put", "move", "cleanup", "validate"}
       /\ staged[d] = NoUpload
       /\ Cardinality({g \in generations : g.owner = d}) <= 2

EventuallyQuiet == <>[]Quiet

\* The cloud as its devices use it: a history they share, which only grows.
Shared == INSTANCE SharedHistory WITH shared <- Readable

RefinesSharedHistory == Shared!Spec
=============================================================================
