------------------------ MODULE LibraryOrganization ------------------------
(***************************************************************************)
(* Favorites and folders of the shelf (src/ui/libraryOrganization.ts, and  *)
(* the same in library_organization.rs) on several devices, and the two    *)
(* imports that file books into folders: a directory import, which commits *)
(* its placements in short batches (folderImport/webDirectoryImport.ts,    *)
(* placementBatch.ts), and an import into one folder (importIntoFolder.ts, *)
(* useBookImport.ts).                                                      *)
(*                                                                         *)
(* All of it is kept in registers of which the latest write wins: the name *)
(* and the deletion of a folder, the mark and the folder of a book.        *)
(* Archives carry the registers of a device, late, repeatedly or never.    *)
(***************************************************************************)
EXTENDS Naturals

CONSTANTS
  Devices,     \* numbers, for the order of the device ids
  Importers,   \* the devices that file books by imports
  Folders, Books, Names,
  Root,        \* where a book is that is in no folder
  Files,       \* places an exported archive can be in
  None,
  Policies,    \* what an import may do to the books of the shelf
  MaxCounter   \* MAX_SAFE_COUNTER of the program

ASSUME DevicesAssumption == Devices \subseteq Nat
ASSUME PoliciesAssumption == Policies \subseteq {"fillUnclassified", "preserveAll", "replace"}
ASSUME CounterAssumption == MaxCounter \in Nat

VARIABLES
  counter,     \* device -> its logical clock
  store,       \* device -> its registers
  known,       \* device -> books it has the records of
  job,         \* device -> the directory import under way
  plan,        \* device -> the move an import into a folder has decided on
  archives,    \* file -> an exported state
  events,      \* history: every write of a register
  received,    \* history: device -> all the writes that went into its store
  disturbed    \* history: device -> books whose folder changed since its
               \* directory import looked

library == <<counter, store, known>>
imports == <<job, plan>>
history == <<events, received, disturbed>>
vars == <<library, imports, archives, history>>

-----------------------------------------------------------------------------
\* Registers

Name(f) == [field |-> "name", of |-> f]
Deleted(f) == [field |-> "deleted", of |-> f]
Favorite(b) == [field |-> "favorite", of |-> b]
Place(b) == [field |-> "folderId", of |-> b]

Keys == [field : {"name", "deleted"}, of : Folders]
          \cup [field : {"favorite", "folderId"}, of : Books]

ValuesOf(k) ==
  CASE k.field = "name" -> Names
    [] k.field = "deleted" -> {TRUE}
    [] k.field = "favorite" -> BOOLEAN
    [] k.field = "folderId" -> Folders \cup {Root}

\* Mutant: devices do not break ties.
StampBelowByCounter(r, s) == r.ctr < s.ctr

StampBelow(r, s) == r.ctr < s.ctr \/ (r.ctr = s.ctr /\ r.dev < s.dev)

SameStamp(r, s) == r.ctr = s.ctr /\ r.dev = s.dev

\* Mutant: what arrives takes the place of what is there.
MergeToIncoming(r, s) == s

MergeRegister(r, s) ==
  IF r = None THEN s
  ELSE IF s = None \/ ~StampBelow(r, s) THEN r
  ELSE s

\* Two values under one stamp: the merge is refused.
Collides(r, s) == r # None /\ s # None /\ SameStamp(r, s) /\ r.val # s.val

MergeOrganization(x, y) == [k \in Keys |-> MergeRegister(x[k], y[k])]

\* Mutant: the clock follows from the registers alone.
NextCounterOfState(d) ==
  CHOOSE n \in 1 .. MaxCounter + 1 :
    /\ \A k \in Keys : store[d][k] # None => store[d][k].ctr < n
    /\ n = 1 \/ \E k \in Keys : store[d][k] # None /\ store[d][k].ctr = n - 1

\* The least counter above all that a device has used or observed.
Observed(d) ==
  {0, counter[d]} \cup {store[d][k].ctr : k \in {k \in Keys : store[d][k] # None}}

MaximumOf(S) == CHOOSE n \in S : \A i \in S : i <= n

NextCounter(d) == MaximumOf(Observed(d)) + 1

Live(S, f) == S[Name(f)] # None /\ S[Deleted(f)] = None

\* Mutant: a book that was never filed has no folder.
EffectiveFolderAsStored(S, b) == IF S[Place(b)] = None THEN None ELSE S[Place(b)].val

\* Unknown and dissolved folders show at the root; the register stays.
EffectiveFolder(S, b) ==
  IF S[Place(b)] # None /\ S[Place(b)].val # Root /\ Live(S, S[Place(b)].val)
  THEN S[Place(b)].val ELSE Root

-----------------------------------------------------------------------------

NoRegisters == [k \in Keys |-> None]

Init ==
  /\ counter = [d \in Devices |-> 0]
  /\ store = [d \in Devices |-> NoRegisters]
  /\ known = [d \in Devices |-> {}]
  /\ job = [d \in Devices |-> None]
  /\ plan = [d \in Devices |-> None]
  /\ archives = [f \in Files |-> None]
  /\ events = {}
  /\ received = [d \in Devices |-> {}]
  /\ disturbed = [d \in Devices |-> {}]

Importing(d) == job[d] # None

Disturb(d, S) ==
  disturbed' = [disturbed EXCEPT ![d] =
    @ \cup {b \in Books : Importing(d) /\ S[Place(b)] # store[d][Place(b)]}]

Undisturbed(d) == disturbed' = [disturbed EXCEPT ![d] = {}]

\* The keys get their values under one stamp, in one transaction.
Stamped(val, n, d) == [val |-> val, ctr |-> n, dev |-> d]

Written(d, changes, n) ==
  [k \in Keys |-> IF k \in DOMAIN changes THEN Stamped(changes[k], n, d)
                  ELSE store[d][k]]

WritesOf(d, changes, n) ==
  {[key |-> k, val |-> changes[k], ctr |-> n, dev |-> d] : k \in DOMAIN changes}

Write(d, changes, n) ==
  /\ n <= MaxCounter
  /\ counter' = [counter EXCEPT ![d] = n]
  /\ store' = [store EXCEPT ![d] = Written(d, changes, n)]
  /\ events' = events \cup WritesOf(d, changes, n)
  /\ received' = [received EXCEPT ![d] = @ \cup WritesOf(d, changes, n)]

-----------------------------------------------------------------------------
\* Commands (applyCommand).  No import keeps the shelf from giving one: the flag
\* of the native import is cleared before its books are placed, a command does not
\* ask for the flag of a directory import, and one sent earlier may land late.

Command(d, changes) ==
  /\ Write(d, changes, NextCounter(d))
  /\ Disturb(d, store'[d])
  /\ UNCHANGED <<known, imports, archives>>

\* A new folder has an id of its own: ids are random.
FreshFolder(f) ==
  /\ \A e \in events : e.key # Name(f)
  /\ \A d \in Devices : job[d] # None => job[d].target # f

CreateFolder(d, f, name) ==
  /\ FreshFolder(f)
  /\ Command(d, [k \in {Name(f)} |-> name])

RenameFolder(d, f, name) ==
  /\ Live(store[d], f)
  /\ Command(d, [k \in {Name(f)} |-> name])

DeleteFolder(d, f) ==
  /\ Live(store[d], f)
  /\ Command(d, [k \in {Deleted(f)} |-> TRUE])

SetFavorite(d, S, val) ==
  /\ S # {} /\ S \subseteq known[d]
  /\ Command(d, [k \in {Favorite(b) : b \in S} |-> val])

MoveBooks(d, S, f) ==
  /\ S # {} /\ S \subseteq known[d]
  /\ f # Root => Live(store[d], f)
  /\ Command(d, [k \in {Place(b) : b \in S} |-> f])

-----------------------------------------------------------------------------
\* The shelf and archives

\* A book joins the shelf by an import that files it nowhere.
AddBook(d, b) ==
  /\ b \notin known[d]
  /\ known' = [known EXCEPT ![d] = @ \cup {b}]
  /\ UNCHANGED <<counter, store, imports, archives, history>>

\* Removing a book drops its registers on this device; folders and the clock
\* stay.  No book is removed during a directory import.
RemoveBook(d, b) ==
  /\ b \in known[d]
  /\ ~Importing(d)
  /\ known' = [known EXCEPT ![d] = @ \ {b}]
  /\ store' = [store EXCEPT ![d][Place(b)] = None, ![d][Favorite(b)] = None]
  /\ received' = [received EXCEPT ![d] =
       {e \in @ : e.key \notin {Place(b), Favorite(b)}}]
  /\ UNCHANGED <<counter, imports, archives, events, disturbed>>

Export(d, f) ==
  /\ archives' = [archives EXCEPT ![f] =
       [store |-> store[d], known |-> known[d], received |-> received[d]]]
  /\ UNCHANGED <<library, imports, history>>

\* Merging makes no event, and raises the clock to all it brings.
MergeArchive(d, f) ==
  LET a == archives[f]
  IN  /\ a # None
      /\ \A k \in Keys : ~Collides(store[d][k], a.store[k])
      /\ \E merged \in {MergeOrganization(store[d], a.store)} :
           /\ store' = [store EXCEPT ![d] = merged]
           /\ counter' = [counter EXCEPT ![d] =
                MaximumOf({@} \cup {merged[k].ctr : k \in {k \in Keys : merged[k] # None}})]
           /\ Disturb(d, merged)
      /\ known' = [known EXCEPT ![d] = @ \cup a.known]
      /\ received' = [received EXCEPT ![d] = @ \cup a.received]
      /\ UNCHANGED <<imports, archives, events>>

-----------------------------------------------------------------------------
\* The directory import

Snapshot(S, b) == [place |-> S[Place(b)], effective |-> EffectiveFolder(S, b)]

\* The job keeps the organization it read; it never authorizes a move.
StartImport(d, f, create, policy) ==
  /\ d \in Importers /\ ~Importing(d)
  /\ IF create THEN FreshFolder(f) ELSE Live(store[d], f)
  /\ job' = [job EXCEPT ![d] =
       [target |-> f, create |-> create, policy |-> policy,
        seen |-> [b \in Books |-> Snapshot(store[d], b)], taken |-> {}, pending |-> {}]]
  /\ UNCHANGED <<library, plan, archives, history>>

\* A file of the directory is imported, or found on the shelf, and waits for
\* its placement.
TakeBook(d, b) ==
  /\ job[d] # None /\ b \notin job[d].taken
  /\ job' = [job EXCEPT
       ![d].taken = @ \cup {b},
       ![d].pending = @ \cup
         {[book |-> b, existing |-> b \in known[d], observed |-> job[d].seen[b]]}]
  /\ known' = [known EXCEPT ![d] = @ \cup {b}]
  /\ UNCHANGED <<counter, store, plan, archives, history>>

\* Mutant: the decision relies on what the job saw.
DecideMoveUnseen(d, item) ==
  /\ item.existing => job[d].policy # "preserveAll"
  /\ item.observed.effective # job[d].target
  /\ item.existing /\ job[d].policy = "fillUnclassified" => item.observed.effective = Root

\* decidePlacement: a book is moved if its folder is still what the job saw, and
\* the policy lets a book of the shelf be moved.
DecideMove(d, item) ==
  LET now == Snapshot(store[d], item.book)
  IN  /\ item.existing => job[d].policy # "preserveAll"
      /\ item.observed = now
      /\ now.effective # job[d].target
      /\ item.existing /\ job[d].policy = "fillUnclassified" => now.effective = Root

\* A planned folder is alive until it is deleted; a reused one must exist.
TargetAlive(d) ==
  LET f == job[d].target
  IN  IF job[d].create THEN store[d][Deleted(f)] = None ELSE Live(store[d], f)

Moved(d) ==
  IF TargetAlive(d) THEN {i.book : i \in {i \in job[d].pending : DecideMove(d, i)}} ELSE {}

NeedsFolder(d) == job[d].create /\ store[d][Name(job[d].target)] = None

Committed(d) ==
  /\ job' = [job EXCEPT ![d].pending = {},
                        ![d].seen = [b \in Books |-> Snapshot(store'[d], b)]]
  /\ Undisturbed(d)
  /\ UNCHANGED <<known, plan, archives>>

\* One transaction: the folder is created if a book goes in, then the books are
\* moved; the job goes on with the organization this leaves.
CommitBatch(d, name) ==
  LET f == job[d].target
      n == NextCounter(d)
      places == [k \in {Place(b) : b \in Moved(d)} |-> f]
      folder == [k \in {Name(f)} |-> name]
      m == IF NeedsFolder(d) THEN n + 1 ELSE n
  IN  /\ job[d] # None /\ job[d].pending # {}
      /\ \/ /\ Moved(d) = {}
            /\ UNCHANGED <<counter, store, events, received>>
         \/ /\ Moved(d) # {}
            /\ m <= MaxCounter
            /\ counter' = [counter EXCEPT ![d] = m]
            /\ store' = [store EXCEPT ![d] = [k \in Keys |->
                 IF k \in DOMAIN places THEN Stamped(f, m, d)
                 ELSE IF NeedsFolder(d) /\ k = Name(f) THEN Stamped(name, n, d)
                 ELSE store[d][k]]]
            /\ LET writes == WritesOf(d, places, m)
                       \cup (IF NeedsFolder(d) THEN WritesOf(d, folder, n) ELSE {})
               IN  /\ events' = events \cup writes
                   /\ received' = [received EXCEPT ![d] = @ \cup writes]
      /\ Committed(d)

\* The transaction fails: its books stay where they are.
BatchFails(d) ==
  /\ job[d] # None /\ job[d].pending # {}
  /\ job' = [job EXCEPT ![d].pending = {}]
  /\ UNCHANGED <<library, plan, archives, history>>

\* The import has committed its last batch, or is cancelled.
EndImport(d) ==
  /\ job[d] # None
  /\ job' = [job EXCEPT ![d] = None]
  /\ Undisturbed(d)
  /\ UNCHANGED <<library, plan, archives, events, received>>

-----------------------------------------------------------------------------
\* The import into a folder: the organization is read, then one move is made.
\* Anything may happen in between.  Two such imports at a time are one of them and
\* a MoveBooks, so that one per device is enough.

\* Mutant: books that are filed elsewhere are moved too.
PlannedAll(d, f, S, new) == {b \in S : EffectiveFolder(store[d], b) # f}

Planned(d, f, S, new) ==
  {b \in S : LET now == EffectiveFolder(store[d], b)
             IN  now # f /\ (b \in new \/ now = Root)}

PlanPlacement(d, f, S) ==
  LET new == S \ known[d]
  IN  /\ d \in Importers /\ plan[d] = None
      /\ Live(store[d], f) /\ S # {}
      /\ known' = [known EXCEPT ![d] = @ \cup S]
      /\ plan' = [plan EXCEPT ![d] =
           [folder |-> f, books |-> Planned(d, f, S, new), new |-> new,
            seen |-> [b \in Books |-> store[d][Place(b)]]]]
      /\ UNCHANGED <<counter, store, job, archives, history>>

\* The move is refused when the folder was dissolved, or a book of it removed.
CanPlace(d) ==
  plan[d].books # {} /\ plan[d].books \subseteq known[d] /\ Live(store[d], plan[d].folder)

ApplyPlacement(d) ==
  /\ plan[d] # None
  /\ plan' = [plan EXCEPT ![d] = None]
  /\ IF CanPlace(d)
     THEN Write(d, [k \in {Place(b) : b \in plan[d].books} |-> plan[d].folder], NextCounter(d))
     ELSE UNCHANGED <<counter, store, events, received>>
  /\ Disturb(d, store'[d])
  /\ UNCHANGED <<known, job, archives>>

-----------------------------------------------------------------------------

Next ==
  \E d \in Devices :
    \/ \E f \in Folders, name \in Names : CreateFolder(d, f, name) \/ RenameFolder(d, f, name)
    \/ \E f \in Folders : DeleteFolder(d, f)
    \/ \E S \in SUBSET Books :
         \/ \E val \in BOOLEAN : SetFavorite(d, S, val)
         \/ \E f \in Folders \cup {Root} : MoveBooks(d, S, f)
         \/ \E f \in Folders : PlanPlacement(d, f, S)
    \/ \E b \in Books : AddBook(d, b) \/ RemoveBook(d, b) \/ TakeBook(d, b)
    \/ \E f \in Files : Export(d, f) \/ MergeArchive(d, f)
    \/ \E f \in Folders, create \in BOOLEAN, policy \in Policies :
         StartImport(d, f, create, policy)
    \/ \E name \in Names : CommitBatch(d, name)
    \/ BatchFails(d) \/ EndImport(d) \/ ApplyPlacement(d)

Spec == Init /\ [][Next]_vars

-----------------------------------------------------------------------------
\* Properties

Vals == Names \cup BOOLEAN \cup Folders \cup {Root}
Registers == [val : Vals, ctr : Nat, dev : Devices]
Stores == [Keys -> Registers \cup {None}]
Writes == [key : Keys, val : Vals, ctr : Nat, dev : Devices]
Snapshots == [place : Registers \cup {None}, effective : Folders \cup {Root}]
Items == [book : Books, existing : BOOLEAN, observed : Snapshots]
Jobs ==
  [target : Folders, create : BOOLEAN, policy : Policies,
   seen : [Books -> Snapshots], taken : SUBSET Books, pending : SUBSET Items]
Plans ==
  [folder : Folders, books : SUBSET Books, new : SUBSET Books,
   seen : [Books -> Registers \cup {None}]]
Archives == [store : Stores, known : SUBSET Books, received : SUBSET Writes]

ASSUME NoneAssumption == None \notin Registers \cup Jobs \cup Plans \cup Archives

\* Every variable keeps its shape.
TypeOK ==
  /\ counter \in [Devices -> Nat]
  /\ store \in [Devices -> Stores]
  /\ known \in [Devices -> SUBSET Books]
  /\ job \in [Devices -> Jobs \cup {None}]
  /\ plan \in [Devices -> Plans \cup {None}]
  /\ archives \in [Files -> Archives \cup {None}]
  /\ events \subseteq Writes
  /\ received \in [Devices -> SUBSET Writes]
  /\ disturbed \in [Devices -> SUBSET Books]

\* Each register of a device is the latest of all the writes of it that ever
\* reached the device, whatever archives brought them, in whatever order, and
\* however often; a command is later than all the device had received.  Devices
\* that received the same writes show the same folders and favorites.
Convergence ==
  \A d \in Devices, k \in Keys :
    LET got == {e \in received[d] : e.key = k}
        r == store[d][k]
    IN  IF got = {} THEN r = None
        ELSE /\ r # None
             /\ \E e \in got : SameStamp(e, r) /\ e.val = r.val
             /\ \A e \in got : SameStamp(e, r) \/ StampBelow(e, r)

\* A stamp names one value of a register for ever: no archive is refused for
\* holding another value under the same stamp, also after books were removed.
StampsNameOneValue ==
  \A x, y \in events : x.key = y.key /\ SameStamp(x, y) => x.val = y.val

\* A dissolved folder stays dissolved, whatever is renamed, merged or imported
\* after it.
DissolvedForever ==
  [][\A d \in Devices, f \in Folders :
       store[d][Deleted(f)] # None => store'[d][Deleted(f)] # None]_vars

\* A batch of the directory import never moves a book whose folder changed since
\* the job looked, by a command or by an archive, and what it moves shows in its
\* folder.
BatchRespectsChanges ==
  [][\A d \in Devices, b \in Books :
       job[d] # None /\ job'[d] # None /\ job[d].pending # {} /\ job'[d].pending = {}
         /\ store'[d][Place(b)] # store[d][Place(b)]
       => b \notin disturbed[d] /\ EffectiveFolder(store'[d], b) = job[d].target]_vars

\* An import into a folder takes a book of the shelf out of another folder only
\* when the book's folder was written, by a command or an archive, after the import
\* had looked: what it saw filed stays filed.  The rule "an existing book already filed
\* elsewhere is never pulled out" (importIntoFolder.ts) asks for more than the program
\* keeps: what is filed between the reading and the move is pulled out.
ReimportKeepsFiled ==
  [][\A d \in Devices, b \in Books :
       plan[d] # None /\ plan'[d] = None /\ b \notin plan[d].new
         /\ EffectiveFolder(store[d], b) # Root
         /\ EffectiveFolder(store'[d], b) # EffectiveFolder(store[d], b)
       => store[d][Place(b)] # plan[d].seen[b]]_vars
=============================================================================
