-------------------------- MODULE CloudSyncProofs --------------------------
(***************************************************************************)
(* Rounds of cloud synchronisation, for any devices, events and number of  *)
(* failures: their types, and that what they skip is covered by what they  *)
(* know, whatever is carried out late or deleted by others.                *)
(*                                                                         *)
(* The second half is about what the cloud keeps when no request is        *)
(* carried out after its device gave it up and nothing else deletes from   *)
(* the directory: rounds implement the shared history of SharedHistory,    *)
(* never make an event unreadable, and lose no upload.  Its inductive      *)
(* invariant Sound has one part per device.  It ties what a round holds to *)
(* what its device ever had, to its upload, and to its own generations,    *)
(* which nobody else deletes.                                              *)
(***************************************************************************)
EXTENDS CloudSync, TLAPS

Rounds ==
  [pc : Steps, todo : SUBSET Names, full : SUBSET Events, seen : SUBSET Names,
   digests : SUBSET SUBSET Events, pending : BOOLEAN]

Connections == [view : Views, seen : SUBSET Names, pending : BOOLEAN]

Generations == [owner : Devices, digest : SUBSET Events, upload : Uploads]

-----------------------------------------------------------------------------
\* The shape of the variables

LEMMA TypesOfParts ==
  /\ Resting \in Rounds
  /\ NewConnection \in Connections
  /\ {NoUpload, Partial} \subseteq Uploads
  /\ \A S \in SUBSET Events : Upload(S) \in Uploads /\ View(S) \in Views
  /\ \A u \in Uploads : u.events \in SUBSET Events
  /\ \A v \in Views : v.events \in SUBSET Events
<1>1. Resting \in Rounds
  BY DEF Resting, Rounds, Steps
<1>2. NoView \in Views /\ \A S \in SUBSET Events : View(S) \in Views
  BY DEF Views
<1>3. NewConnection \in Connections
  BY <1>2 DEF NewConnection, Connections
<1>4. {NoUpload, Partial} \subseteq Uploads /\ \A S \in SUBSET Events : Upload(S) \in Uploads
  BY DEF Uploads
<1>5. \A u \in Uploads : u.events \in SUBSET Events
  BY DEF Uploads, NoUpload, Partial, Upload
<1>6. \A v \in Views : v.events \in SUBSET Events
  BY DEF Views, NoView, View
<1> QED
  BY <1>1, <1>2, <1>3, <1>4, <1>5, <1>6

\* Names in the cloud are names.
LEMMA NamesType ==
  ASSUME TypeOK
  PROVE  /\ Listing \in SUBSET Names
         /\ \A g \in generations : g \in Generations /\ NameOf(g) \in Names
         /\ \A d \in Devices : CurrentName(d) \in Names
BY DEF TypeOK, Listing, NameOf, Names, Generations, CurrentName

\* What a round saves is a connection.
LEMMA SavedType ==
  ASSUME TypeOK, NEW d \in Devices
  PROVE  SavedConnection(d) \in Connections /\ SavedConnection(d).view = View(round[d].full)
<1>1. round[d] \in Rounds
  BY DEF TypeOK, Rounds
<1>2. View(round[d].full) \in Views
  BY <1>1, TypesOfParts DEF Rounds
<1> QED
  BY <1>1, <1>2 DEF SavedConnection, Connections, Rounds

\* A step of a round that changes only the round keeps the shape.
LEMMA RoundTyped ==
  ASSUME TypeOK, NEW d \in Devices, NEW r \in Rounds, round' = [round EXCEPT ![d] = r]
  PROVE  round' \in [Devices -> Rounds]
BY DEF TypeOK, Rounds

LEMMA TypeInit ==
  Init => TypeOK
<1> SUFFICES ASSUME Init PROVE TypeOK
  OBVIOUS
<1>1. 0 \in 0 .. MaxDisturbances
  BY CloudSyncAssumption
<1> QED
  BY <1>1, TypesOfParts DEF Init, TypeOK, Rounds, Connections

-----------------------------------------------------------------------------
\* Steps of a round

LEMMA ReadingTyped ==
  ASSUME TypeOK, NEW d \in Devices, List(d) \/ Gather(d) \/ Fold(d) \/ SaveView(d)
  PROVE  TypeOK'
<1> USE DEF disk, cloud, history
<1>1. round[d] \in Rounds /\ conn[d] \in Connections
  BY DEF TypeOK, Rounds, Connections
<1>2. \A r \in Rounds : round' = [round EXCEPT ![d] = r] => round' \in [Devices -> Rounds]
  BY RoundTyped
<1>3. CASE List(d)
  <2>1. [Resting EXCEPT !.pc = "gather", !.todo = Listing, !.seen = conn[d].seen,
                        !.pending = conn[d].pending] \in Rounds
    BY <1>1, NamesType, TypesOfParts DEF Rounds, Connections, Steps
  <2>2. round' \in [Devices -> Rounds]
    BY <1>2, <1>3, <2>1 DEF List
  <2> QED
    BY <1>3, <2>2 DEF List, TypeOK, Rounds
<1>4. CASE Gather(d)
  <2>1. StartingState(d) \in SUBSET Events
    BY <1>1, TypesOfParts DEF StartingState, FoundUpload, Connections, TypeOK
  <2> DEFINE r == [round[d] EXCEPT !.pc = "fold", !.full = StartingState(d),
                     !.seen = IF conn[d].view.has THEN @ \cap round[d].todo ELSE {},
                     !.pending = @ \/ FoundUpload(d) # NoUpload]
  <2>2. r \in Rounds
    BY <1>1, <2>1 DEF Rounds, Steps
  <2>4. round' = [round EXCEPT ![d] = r]
    BY <1>4 DEF Gather
  <2> HIDE DEF r
  <2>3. round' \in [Devices -> Rounds]
    BY <1>2, <2>2, <2>4
  <2> QED
    BY <1>4, <2>3 DEF Gather, TypeOK, Rounds
<1>5. ASSUME NEW n \in round[d].todo, FoldSeen(d, n) PROVE TypeOK'
  <2>1. OwnDigest(d, n) \in SUBSET SUBSET Events
    BY <1>1 DEF OwnDigest, Rounds, Names
  <2> DEFINE r == [round[d] EXCEPT !.todo = @ \ {n}, !.digests = @ \cup OwnDigest(d, n)]
  <2>2. r \in Rounds
    BY <1>1, <2>1 DEF Rounds
  <2>4. round' = [round EXCEPT ![d] = r]
    BY <1>5 DEF FoldSeen
  <2> HIDE DEF r
  <2>3. round' \in [Devices -> Rounds]
    BY <1>2, <2>2, <2>4
  <2> QED
    BY <1>5, <2>3 DEF FoldSeen, TypeOK, Rounds
<1>6. ASSUME NEW n \in round[d].todo, FoldRead(d, n) PROVE TypeOK'
  <2>1. OwnDigest(d, n) \in SUBSET SUBSET Events /\ n \in Names
    BY <1>1 DEF OwnDigest, Rounds, Names
  <2>2. PICK g \in generations :
          /\ round' = [round EXCEPT ![d] =
               [round[d] EXCEPT !.todo = @ \ {n}, !.digests = @ \cup OwnDigest(d, n),
                                !.full = @ \cup g.digest, !.seen = @ \cup {n}]]
          /\ known' = [known EXCEPT ![d] = @ \cup g.digest]
    BY <1>6 DEF FoldRead
  <2>3. g.digest \in SUBSET Events
    BY DEF TypeOK
  <2> DEFINE r == [round[d] EXCEPT !.todo = @ \ {n}, !.digests = @ \cup OwnDigest(d, n),
                                   !.full = @ \cup g.digest, !.seen = @ \cup {n}]
  <2>4. r \in Rounds
    BY <1>1, <2>1, <2>3 DEF Rounds
  <2>7. round' = [round EXCEPT ![d] = r]
    BY <2>2
  <2> HIDE DEF r
  <2>5. round' \in [Devices -> Rounds]
    BY <1>2, <2>4, <2>7
  <2>6. known' \in [Devices -> SUBSET Events]
    BY <2>2, <2>3 DEF TypeOK
  <2> QED
    BY <1>6, <2>5, <2>6 DEF FoldRead, TypeOK, Rounds
<1>7. ASSUME NEW n \in round[d].todo, FoldWithout(d, n) PROVE TypeOK'
  <2> DEFINE r == [round[d] EXCEPT !.todo = @ \ {n}]
  <2>1. r \in Rounds
    BY <1>1 DEF Rounds
  <2>3. round' = [round EXCEPT ![d] = r]
    BY <1>7 DEF FoldWithout, Skipped
  <2> HIDE DEF r
  <2>2. round' \in [Devices -> Rounds]
    BY <1>2, <2>1, <2>3
  <2> QED
    BY <1>7, <2>2 DEF FoldWithout, TypeOK, Rounds
<1>8. ASSUME NEW n \in round[d].todo, FoldDamaged(d, n) PROVE TypeOK'
  <2>1. round' \in [Devices -> Rounds]
    BY <1>2, <1>8, TypesOfParts DEF FoldDamaged
  <2> QED
    BY <1>8, <2>1 DEF FoldDamaged, TypeOK, Rounds
<1>9. CASE SaveView(d)
  <2>1. [round[d] EXCEPT !.pc = "apply"] \in Rounds
    BY <1>1 DEF Rounds, Steps
  <2>2. round' \in [Devices -> Rounds]
    BY <1>2, <1>9, <2>1 DEF SaveView
  <2>3. conn' \in [Devices -> Connections]
    BY <1>9, SavedType DEF SaveView, TypeOK, Connections
  <2> QED
    BY <1>9, <2>2, <2>3 DEF SaveView, TypeOK, Rounds, Connections
<1> QED
  BY <1>3, <1>4, <1>5, <1>6, <1>7, <1>8, <1>9 DEF Fold

LEMMA PublishingTyped ==
  ASSUME TypeOK, NEW d \in Devices,
         \/ Apply(d) \/ SavePending(d) \/ Put(d) \/ PutFails(d) \/ Move(d)
         \/ MoveConflicts(d) \/ MoveMisses(d) \/ MoveFails(d) \/ Cleanup(d) \/ Validate(d)
  PROVE  TypeOK'
<1> USE DEF disk, cloud, history
<1>1. round[d] \in Rounds /\ conn[d] \in Connections /\ staged[d] \in Uploads
  BY DEF TypeOK, Rounds, Connections
<1>2. round[d].full \in SUBSET Events /\ Upload(round[d].full) \in Uploads
  BY <1>1, TypesOfParts DEF Rounds
<1>3. ASSUME NEW pc \in Steps, round' = [round EXCEPT ![d].pc = pc]
      PROVE  round' \in [Devices -> Rounds]
  <2>1. [round[d] EXCEPT !.pc = pc] \in Rounds
    BY <1>1 DEF Rounds
  <2> QED
    BY <1>3, <2>1 DEF TypeOK, Rounds
<1>4. Resting \in Rounds /\ NoUpload \in Uploads /\ Partial \in Uploads
  BY TypesOfParts
<1>5. ASSUME Published(d) PROVE round' \in [Devices -> Rounds]
  <2> DEFINE r == [round[d] EXCEPT !.pc = "collect", !.pending = FALSE,
                                   !.seen = @ \cup {CurrentName(d)}]
  <2>1. r \in Rounds
    BY <1>1, NamesType DEF Rounds, Steps
  <2>2. round' = [round EXCEPT ![d] = r]
    BY <1>5 DEF Published
  <2> HIDE DEF r
  <2> QED
    BY <2>1, <2>2, RoundTyped
<1>6. ASSUME Named(d, CurrentName(d)) PROVE generations' \subseteq Generations
  <2>1. CurrentName(d) \in Names
    BY NamesType
  <2> QED
    BY <1>1, <1>6, <2>1 DEF Named, TypeOK, Names, Generations
<1>7. ASSUME MoveSource(d) PROVE staged' \in [Devices -> Uploads]
  BY <1>4, <1>7 DEF MoveSource, TypeOK
<1>8. ASSUME NEW op \in {"put", "move"}, LateRequest(d, op)
      PROVE  late' \in [Devices -> SUBSET [op : {"put", "move"}, events : SUBSET Events]]
  BY <1>2, <1>8 DEF LateRequest, TypeOK
<1>9. ASSUME Disturb PROVE disturbances' \in 0 .. MaxDisturbances
  BY <1>9, CloudSyncAssumption DEF Disturb, TypeOK
<1>11. CASE Apply(d)
  <2> DEFINE merged == IF bound[d] THEN local[d] \cup round[d].full ELSE local[d]
             full == round[d].full \cup merged
             pc == IF NeedsPublication(d, full) THEN "publish" ELSE "tidy"
             r == [round[d] EXCEPT !.full = full, !.pc = pc]
  <2>1. merged \in SUBSET Events /\ full \in SUBSET Events /\ pc \in Steps
    BY <1>2 DEF TypeOK, Steps
  <2>2. r \in Rounds
    BY <1>1, <2>1 DEF Rounds
  <2>3. round' = [round EXCEPT ![d] = r] /\ local' = [local EXCEPT ![d] = merged]
    BY <1>11 DEF Apply
  <2> HIDE DEF r, merged
  <2>4. round' \in [Devices -> Rounds] /\ local' \in [Devices -> SUBSET Events]
    BY <2>1, <2>2, <2>3, RoundTyped DEF TypeOK
  <2> QED
    BY <1>11, <2>4 DEF Apply, TypeOK, Rounds
<1>12. CASE SavePending(d)
  <2> DEFINE r == [round[d] EXCEPT !.pc = "put", !.pending = TRUE]
             c == [SavedConnection(d) EXCEPT !.pending = TRUE]
  <2>1. r \in Rounds /\ c \in Connections
    BY <1>1, SavedType DEF Rounds, Connections, Steps
  <2>2. round' = [round EXCEPT ![d] = r] /\ conn' = [conn EXCEPT ![d] = c]
    BY <1>12 DEF SavePending
  <2> HIDE DEF r, c
  <2>3. round' \in [Devices -> Rounds] /\ conn' \in [Devices -> Connections]
    BY <2>1, <2>2, RoundTyped DEF TypeOK, Connections
  <2> QED
    BY <1>12, <2>3 DEF SavePending, TypeOK, Rounds, Connections
<1>13. CASE Put(d)
  <2>1. round' \in [Devices -> Rounds]
    BY <1>3, <1>13 DEF Put, Steps
  <2>2. staged' \in [Devices -> Uploads]
    BY <1>2, <1>13 DEF Put, TypeOK
  <2> QED
    BY <1>13, <2>1, <2>2 DEF Put, TypeOK, Rounds
<1>14. CASE PutFails(d)
  <2>1. round' \in [Devices -> Rounds] /\ disturbances' \in 0 .. MaxDisturbances
    BY <1>3, <1>9, <1>14 DEF PutFails, Steps
  <2>2. /\ staged' \in [Devices -> Uploads]
        /\ late' \in [Devices -> SUBSET [op : {"put", "move"}, events : SUBSET Events]]
    BY <1>1, <1>2, <1>4, <1>8, <1>14 DEF PutFails, TypeOK
  <2> QED
    BY <1>14, <2>1, <2>2 DEF PutFails, TypeOK, Rounds
<1>15. CASE Move(d)
  BY <1>5, <1>6, <1>7, <1>15 DEF Move, TypeOK, Rounds, Generations
<1>16. CASE MoveConflicts(d) \/ MoveMisses(d)
  <2>1. round' \in [Devices -> Rounds]
    BY <1>3, <1>16 DEF MoveConflicts, MoveMisses, Steps
  <2> QED
    BY <1>16, <2>1 DEF MoveConflicts, MoveMisses, TypeOK, Rounds
<1>17. CASE MoveFails(d)
  <2>1. round' \in [Devices -> Rounds] /\ disturbances' \in 0 .. MaxDisturbances
    BY <1>3, <1>9, <1>17 DEF MoveFails, Steps
  <2>2. /\ generations' \subseteq Generations
        /\ staged' \in [Devices -> Uploads]
        /\ late' \in [Devices -> SUBSET [op : {"put", "move"}, events : SUBSET Events]]
    BY <1>6, <1>7, <1>8, <1>17 DEF MoveFails, TypeOK, Generations
  <2> QED
    BY <1>17, <2>1, <2>2 DEF MoveFails, TypeOK, Rounds, Generations
<1>18. CASE Cleanup(d)
  <2>1. round' \in [Devices -> Rounds]
    BY <1>3, <1>4, <1>18, RoundTyped DEF Cleanup, Steps
  <2>2. staged' \in [Devices -> Uploads]
    BY <1>4, <1>18 DEF Cleanup, TypeOK
  <2> QED
    BY <1>18, <2>1, <2>2 DEF Cleanup, TypeOK, Rounds
<1>19. CASE Validate(d)
  <2>1. round' \in [Devices -> Rounds]
    BY <1>4, <1>5, <1>19, RoundTyped DEF Validate
  <2> QED
    BY <1>19, <2>1 DEF Validate, TypeOK, Rounds
<1> QED
  BY <1>11, <1>12, <1>13, <1>14, <1>15, <1>16, <1>17, <1>18, <1>19

LEMMA TidyingTyped ==
  ASSUME TypeOK, NEW d \in Devices, Tidy(d) \/ Collect(d) \/ Finish(d) \/ Abort(d)
  PROVE  TypeOK'
<1> USE DEF disk, cloud, history
<1>1. round[d] \in Rounds /\ Resting \in Rounds /\ NoUpload \in Uploads
  BY TypesOfParts DEF TypeOK, Rounds
<1>2. CASE Tidy(d)
  <2> DEFINE r == [round[d] EXCEPT !.pc = "collect", !.pending = FALSE]
  <2>1. r \in Rounds
    BY <1>1 DEF Rounds, Steps
  <2>2. round' = [round EXCEPT ![d] = r]
    BY <1>2 DEF Tidy
  <2> HIDE DEF r
  <2>3. round' \in [Devices -> Rounds] /\ staged' \in [Devices -> Uploads]
    BY <1>1, <1>2, <2>1, <2>2, RoundTyped DEF Tidy, TypeOK
  <2> QED
    BY <1>2, <2>3 DEF Tidy, TypeOK, Rounds
<1>3. CASE Collect(d)
  <2>1. PICK n \in OldOwn(d) : /\ generations' = {g \in generations : NameOf(g) # n}
                               /\ round' = [round EXCEPT ![d].seen = @ \ {n}]
    BY <1>3 DEF Collect
  <2> DEFINE r == [round[d] EXCEPT !.seen = @ \ {n}]
  <2>2. r \in Rounds
    BY <1>1 DEF Rounds
  <2>3. round' = [round EXCEPT ![d] = r]
    BY <2>1
  <2> HIDE DEF r
  <2>4. round' \in [Devices -> Rounds]
    BY <2>2, <2>3, RoundTyped
  <2> QED
    BY <1>3, <2>1, <2>4 DEF Collect, TypeOK, Rounds
<1>4. CASE Finish(d)
  <2>1. round' \in [Devices -> Rounds]
    BY <1>1, <1>4, RoundTyped DEF Finish
  <2>2. conn' \in [Devices -> Connections]
    BY <1>4, SavedType DEF Finish, TypeOK, Connections
  <2> QED
    BY <1>4, <2>1, <2>2 DEF Finish, TypeOK, Rounds, Connections
<1>5. CASE Abort(d)
  <2>1. round' \in [Devices -> Rounds]
    BY <1>1, <1>5, RoundTyped DEF Abort
  <2> QED
    BY <1>5, <2>1, CloudSyncAssumption DEF Abort, Disturb, TypeOK, Rounds
<1> QED
  BY <1>2, <1>3, <1>4, <1>5

LEMMA OutsideTyped ==
  ASSUME TypeOK, NEW d \in Devices,
         \/ \E e \in Events : WriteLocal(d, e)
         \/ RemoveBook(d) \/ AddBook(d) \/ Reconnect(d) \/ Land(d) \/ Vanish
  PROVE  TypeOK'
<1> USE DEF disk, cloud, history
<1>1. ASSUME Disturb PROVE disturbances' \in 0 .. MaxDisturbances
  BY <1>1, CloudSyncAssumption DEF Disturb, TypeOK
<1>2. ASSUME NEW e \in Events, WriteLocal(d, e) PROVE TypeOK'
  BY <1>2 DEF WriteLocal, TypeOK
<1>3. CASE RemoveBook(d) \/ AddBook(d)
  BY <1>1, <1>3 DEF RemoveBook, AddBook, TypeOK
<1>4. CASE Reconnect(d)
  BY <1>1, <1>4, TypesOfParts DEF Reconnect, TypeOK, Connections
<1>5. CASE Land(d)
  <2>1. PICK r \in late[d] :
          /\ late' = [late EXCEPT ![d] = @ \ {r}]
          /\ \/ /\ staged' = [staged EXCEPT ![d] = Upload(r.events)]
                /\ UNCHANGED generations
             \/ MoveSource(d) /\ Named(d, [owner |-> d, digest |-> r.events])
             \/ UNCHANGED <<generations, staged>>
    BY <1>5 DEF Land
  <2>2. r.events \in SUBSET Events /\ NoUpload \in Uploads
    BY TypesOfParts DEF TypeOK
  <2>3. late' \in [Devices -> SUBSET [op : {"put", "move"}, events : SUBSET Events]]
    BY <2>1 DEF TypeOK
  <2>4. staged' \in [Devices -> Uploads]
    BY <2>1, <2>2, TypesOfParts DEF MoveSource, TypeOK
  <2>5. generations' \subseteq Generations
    <3>1. staged[d] \in Uploads
      BY DEF TypeOK
    <3> QED
      BY <2>1, <2>2, <3>1 DEF Named, TypeOK, Generations
  <2> QED
    BY <1>5, <2>3, <2>4, <2>5 DEF Land, TypeOK, Generations
<1>6. CASE Vanish
  BY <1>1, <1>6 DEF Vanish, TypeOK
<1> QED
  BY <1>2, <1>3, <1>4, <1>5, <1>6

LEMMA TypeStep ==
  TypeOK /\ [Next]_vars => TypeOK'
<1> SUFFICES ASSUME TypeOK, [Next]_vars PROVE TypeOK'
  OBVIOUS
<1>1. CASE UNCHANGED vars
  BY <1>1 DEF vars, disk, cloud, history, TypeOK
<1>2. CASE Vanish /\ Devices = {}
  BY <1>2, CloudSyncAssumption DEF Vanish, Disturb, TypeOK, disk, cloud, history
<1> QED
  BY <1>1, <1>2, ReadingTyped, PublishingTyped, TidyingTyped, OutsideTyped DEF Next, Step

\* Every variable keeps its shape, whatever fails and whichever requests are
\* carried out late.
THEOREM CloudTypes ==
  Spec => []TypeOK
BY TypeInit, TypeStep, PTL DEF Spec

-----------------------------------------------------------------------------
\* What a round skips

\* Between the listing and the gathering of what it starts from, a round's
\* markers are those of the connection file, which nothing else writes then.
GatherCovered ==
  \A d \in Devices : At(d, "gather") =>
    \A n \in round[d].seen : n.digest \subseteq conn[d].view.events

Covered == ViewCoversSeen /\ GatherCovered

\* The parts of Covered that are about one device.
CoveredAt(c, r) ==
  /\ \A n \in c.seen : n.digest \subseteq c.view.events
  /\ r.pc \notin {"rest", "gather"} => \A n \in r.seen : n.digest \subseteq r.full
  /\ r.pc = "gather" => \A n \in r.seen : n.digest \subseteq c.view.events

LEMMA CoveredByDevice ==
  Covered <=> \A d \in Devices : CoveredAt(conn[d], round[d])
BY DEF Covered, ViewCoversSeen, GatherCovered, CoveredAt, At

\* Whatever is saved of a round that is past gathering is covered, and so is the
\* round.
LEMMA SavedCovered ==
  ASSUME NEW d \in Devices, CoveredAt(conn[d], round[d]),
         round[d].pc \notin {"rest", "gather"}
  PROVE  \A n \in SavedConnection(d).seen : n.digest \subseteq SavedConnection(d).view.events
BY DEF CoveredAt, SavedConnection, View

LEMMA CoveredStep ==
  TypeOK /\ Covered /\ [Next]_vars => Covered'
<1> SUFFICES ASSUME TypeOK, Covered, [Next]_vars, NEW c \in Devices
             PROVE  CoveredAt(conn'[c], round'[c])
  BY CoveredByDevice DEF Covered, ViewCoversSeen, GatherCovered, CoveredAt, At
<1> USE DEF disk, cloud, history
<1>1. CoveredAt(conn[c], round[c]) /\ round[c] \in Rounds
  BY CoveredByDevice DEF TypeOK, Rounds
<1>2. ASSUME conn'[c] = conn[c], round'[c] = round[c]
      PROVE  CoveredAt(conn'[c], round'[c])
  BY <1>1, <1>2
<1>3. ASSUME conn'[c] = conn[c], round'[c] = Resting
      PROVE  CoveredAt(conn'[c], round'[c])
  BY <1>1, <1>3 DEF CoveredAt, Resting
<1>4. ASSUME NEW d \in Devices, d # c,
             \/ Step(d) \/ RemoveBook(d) \/ AddBook(d) \/ Reconnect(d) \/ PutFails(d)
             \/ MoveFails(d) \/ Abort(d) \/ Land(d) \/ \E e \in Events : WriteLocal(d, e)
      PROVE  conn'[c] = conn[c] /\ round'[c] = round[c]
  BY <1>4 DEF Step, List, Gather, Fold, FoldSeen, FoldRead, FoldWithout, Skipped, FoldDamaged,
              SaveView, Apply, SavePending, Put, Move, MoveConflicts, MoveMisses, Cleanup,
              Validate, Published, Tidy, Collect, Finish, RemoveBook, AddBook, Reconnect,
              PutFails, MoveFails, Abort, Land, WriteLocal, TypeOK
<1>5. ASSUME UNCHANGED conn, NEW pc \in Steps \ {"rest", "gather"},
             round' = [round EXCEPT ![c].pc = pc], round[c].pc \notin {"rest", "gather"}
      PROVE  CoveredAt(conn'[c], round'[c])
  BY <1>1, <1>5 DEF CoveredAt, TypeOK, Rounds
<1>6. CASE List(c)
  <2>1. round'[c].seen = conn[c].seen /\ round'[c].pc = "gather" /\ conn' = conn
    BY <1>6 DEF List, Resting, TypeOK
  <2> QED
    BY <1>1, <2>1 DEF CoveredAt
<1>7. CASE Gather(c)
  <2>1. /\ round'[c].pc = "fold" /\ conn' = conn
        /\ round'[c].full = StartingState(c)
        /\ round'[c].seen \subseteq round[c].seen
        /\ round[c].pc = "gather"
    BY <1>1, <1>7 DEF Gather, At, TypeOK, Rounds
  <2>2. conn[c].view.events \subseteq StartingState(c)
    BY DEF StartingState
  <2> QED
    BY <1>1, <2>1, <2>2 DEF CoveredAt
<1>8. ASSUME NEW n \in round[c].todo, FoldSeen(c, n) \/ FoldWithout(c, n)
      PROVE  CoveredAt(conn'[c], round'[c])
  <2>1. /\ round'[c].pc = round[c].pc /\ conn' = conn /\ round[c].pc = "fold"
        /\ round'[c].full = round[c].full
        /\ round'[c].seen = round[c].seen
    <3>1. CASE FoldSeen(c, n)
      BY <1>1, <3>1 DEF FoldSeen, At, TypeOK, Rounds
    <3>2. CASE FoldWithout(c, n)
      BY <1>1, <3>2 DEF FoldWithout, Skipped, At, TypeOK, Rounds
    <3> QED
      BY <1>8, <3>1, <3>2
  <2> QED
    BY <1>1, <2>1 DEF CoveredAt
<1>9. ASSUME NEW n \in round[c].todo, FoldRead(c, n) PROVE CoveredAt(conn'[c], round'[c])
  <2>1. PICK g \in generations :
          /\ NameOf(g) = n
          /\ round' = [round EXCEPT ![c] =
               [round[c] EXCEPT !.todo = @ \ {n}, !.digests = @ \cup OwnDigest(c, n),
                                !.full = @ \cup g.digest, !.seen = @ \cup {n}]]
    BY <1>9 DEF FoldRead
  <2>2. /\ round'[c].pc = round[c].pc /\ conn' = conn /\ round[c].pc = "fold"
        /\ round'[c].full = round[c].full \cup n.digest
        /\ round'[c].seen = round[c].seen \cup {n}
    BY <1>1, <1>9, <2>1 DEF FoldRead, NameOf, At, TypeOK, Rounds
  <2> QED
    BY <1>1, <2>2 DEF CoveredAt
<1>10. ASSUME NEW n \in round[c].todo, FoldDamaged(c, n) PROVE CoveredAt(conn'[c], round'[c])
  BY <1>3, <1>10 DEF FoldDamaged, TypeOK
<1>11. CASE SaveView(c)
  <2>1. /\ conn'[c] = SavedConnection(c) /\ round[c].pc = "fold"
        /\ round'[c].pc = "apply" /\ round'[c].seen = round[c].seen
        /\ round'[c].full = round[c].full
    BY <1>1, <1>11 DEF SaveView, At, TypeOK, Rounds
  <2> QED
    BY <1>1, <2>1, SavedCovered DEF CoveredAt
<1>12. CASE Apply(c)
  <2>1. /\ conn' = conn /\ round[c].pc = "apply"
        /\ round'[c].pc \in {"publish", "tidy"}
        /\ round[c].full \subseteq round'[c].full
        /\ round'[c].seen = round[c].seen
    BY <1>1, <1>12 DEF Apply, At, TypeOK, Rounds
  <2> QED
    BY <1>1, <2>1 DEF CoveredAt
<1>13. CASE SavePending(c)
  <2>1. /\ conn'[c] = [SavedConnection(c) EXCEPT !.pending = TRUE] /\ round[c].pc = "publish"
        /\ round'[c].pc = "put" /\ round'[c].seen = round[c].seen
        /\ round'[c].full = round[c].full
    BY <1>1, <1>13 DEF SavePending, At, TypeOK, Rounds
  <2>2. /\ conn'[c].seen = SavedConnection(c).seen
        /\ conn'[c].view = SavedConnection(c).view
    BY <2>1 DEF SavedConnection
  <2> QED
    BY <1>1, <2>1, <2>2, SavedCovered DEF CoveredAt
<1>14. CASE Put(c) \/ PutFails(c) \/ MoveConflicts(c) \/ MoveMisses(c) \/ MoveFails(c)
  BY <1>5, <1>14
     DEF Put, PutFails, MoveConflicts, MoveMisses, MoveFails, At, Steps
<1>15. ASSUME Published(c), UNCHANGED conn, round[c].pc \notin {"rest", "gather"}
       PROVE  CoveredAt(conn'[c], round'[c])
  <2>1. /\ round'[c].pc = "collect" /\ round'[c].full = round[c].full
        /\ round'[c].seen = round[c].seen \cup {CurrentName(c)}
    BY <1>1, <1>15 DEF Published, TypeOK, Rounds
  <2>2. CurrentName(c).digest = round[c].full
    BY DEF CurrentName
  <2> QED
    BY <1>1, <1>15, <2>1, <2>2 DEF CoveredAt
<1>16. CASE Move(c)
  BY <1>15, <1>16 DEF Move, At
<1>17. CASE Cleanup(c)
  <2>1. CASE At(c, "cleanup")
    BY <1>3, <1>17, <2>1 DEF Cleanup, At, TypeOK
  <2>2. CASE ~At(c, "cleanup")
    BY <1>5, <1>17, <2>2 DEF Cleanup, At, Steps
  <2> QED
    BY <2>1, <2>2
<1>18. CASE Validate(c)
  BY <1>3, <1>15, <1>18 DEF Validate, At, TypeOK
<1>19. CASE Tidy(c)
  <2>1. /\ conn' = conn /\ round[c].pc = "tidy" /\ round'[c].pc = "collect"
        /\ round'[c].full = round[c].full /\ round'[c].seen = round[c].seen
    BY <1>1, <1>19 DEF Tidy, At, TypeOK, Rounds
  <2> QED
    BY <1>1, <2>1 DEF CoveredAt
<1>20. CASE Collect(c)
  <2>1. /\ conn' = conn /\ round[c].pc = "collect" /\ round'[c].pc = "collect"
        /\ round'[c].full = round[c].full /\ round'[c].seen \subseteq round[c].seen
    BY <1>1, <1>20 DEF Collect, At, TypeOK, Rounds
  <2> QED
    BY <1>1, <2>1 DEF CoveredAt
<1>21. CASE Finish(c)
  <2>1. conn'[c] = SavedConnection(c) /\ round'[c] = Resting /\ round[c].pc = "collect"
    BY <1>21 DEF Finish, At, TypeOK
  <2> QED
    BY <1>1, <2>1, SavedCovered DEF CoveredAt, Resting
<1>22. CASE Abort(c)
  BY <1>3, <1>22 DEF Abort, TypeOK
<1>23. CASE Reconnect(c)
  <2>1. PICK k \in {NewConnection, [conn[c] EXCEPT !.pending = FALSE]} :
          conn' = [conn EXCEPT ![c] = k]
    BY <1>23 DEF Reconnect
  <2>2. conn'[c] = k /\ round' = round /\ round[c].pc = "rest"
    BY <1>23, <2>1 DEF Reconnect, At, TypeOK
  <2>3. k = NewConnection \/ (k.seen = conn[c].seen /\ k.view = conn[c].view)
    BY <2>1 DEF TypeOK
  <2> QED
    BY <1>1, <2>2, <2>3 DEF CoveredAt, NewConnection
<1>24. CASE RemoveBook(c) \/ AddBook(c) \/ Land(c) \/ Vanish \/ \E e \in Events : WriteLocal(c, e)
  BY <1>2, <1>24 DEF RemoveBook, AddBook, Land, Vanish, WriteLocal
<1>25. CASE UNCHANGED vars
  BY <1>2, <1>25 DEF vars
<1>26. CASE Step(c)
  BY <1>6, <1>7, <1>8, <1>9, <1>10, <1>11, <1>12, <1>13, <1>14, <1>16, <1>17, <1>18, <1>19,
     <1>20, <1>21, <1>26 DEF Step, Fold
<1> QED
  BY <1>2, <1>4, <1>14, <1>22, <1>23, <1>24, <1>25, <1>26 DEF Next

LEMMA CoveredInit ==
  Init => Covered
BY DEF Init, Covered, ViewCoversSeen, GatherCovered, At, Resting, NewConnection

\* A generation that a round skips without downloading it is contained in what
\* the round starts from, whatever failed, crashed or was carried out late.
THEOREM SkippedIsCovered ==
  Spec => []ViewCoversSeen
<1>1. Covered => ViewCoversSeen
  BY DEF Covered
<1> QED
  BY <1>1, CoveredInit, TypeInit, TypeStep, CoveredStep, PTL DEF Spec

-----------------------------------------------------------------------------
\* What the cloud keeps

\* What a device has published and not collected.
Own(d) == {g.digest : g \in {g \in generations : g.owner = d}}

\* The parts of Sound that are about device d: what it had, its library, its
\* connection, its round, its upload, and its own generations.
SoundAt(d, had, library, c, r, upload, own) ==
  /\ library \subseteq had
  /\ c.view.events \subseteq had
  /\ r.full \subseteq had
  /\ upload.events \subseteq had
  /\ c.view.has => upload.events \subseteq c.view.events
  /\ r.pc \notin {"rest", "gather"} => upload.events \subseteq r.full
  /\ r.pc = "put" => r.full \subseteq c.view.events
  /\ r.pc = "move" => upload = Upload(r.full)
  /\ r.pc \in {"gather", "fold"} => \A n \in r.todo : n.owner = d => n.digest \in own
  /\ r.pc \in {"gather", "fold", "apply"} => r.digests \subseteq own
  /\ r.pc \in {"tidy", "collect"} => r.full \in own

DeviceSound(d) ==
  SoundAt(d, known[d], local[d], conn[d], round[d], staged[d], Own(d))

Sound ==
  /\ \A d \in Devices : DeviceSound(d)
  /\ \A d \in Devices : late[d] = {}
  /\ \A g \in generations : Intact(g)

-----------------------------------------------------------------------------
\* Generations

\* A name in the listing is one of a generation, and an own digest is one of an
\* own name.
LEMMA OwnNames ==
  ASSUME NEW d \in Devices, NEW S
  PROVE  /\ [owner |-> d, digest |-> S] \in Listing => S \in Own(d)
         /\ S \in Own(d) =>
              \E g \in generations : NameOf(g) = [owner |-> d, digest |-> S]
         /\ \A n \in Listing : n.owner = d => n.digest \in Own(d)
<1>1. ASSUME NEW g \in generations
      PROVE  /\ NameOf(g).owner = g.owner /\ NameOf(g).digest = g.digest
             /\ g.owner = d => g.digest \in Own(d)
  BY DEF NameOf, Own
<1>2. ASSUME [owner |-> d, digest |-> S] \in Listing PROVE S \in Own(d)
  <2>1. PICK g \in generations : NameOf(g) = [owner |-> d, digest |-> S]
    BY <1>2 DEF Listing
  <2> QED
    BY <2>1, <1>1
<1>3. ASSUME S \in Own(d)
      PROVE  \E g \in generations : NameOf(g) = [owner |-> d, digest |-> S]
  BY <1>3 DEF Own, NameOf
<1>4. ASSUME NEW n \in Listing, n.owner = d PROVE n.digest \in Own(d)
  BY <1>1, <1>4 DEF Listing
<1> QED
  BY <1>2, <1>3, <1>4

\* Naming the upload of d adds one generation and takes the upload away.
LEMMA NamingAdds ==
  ASSUME NEW d \in Devices, TypeOK, Named(d, CurrentName(d)), MoveSource(d)
  PROVE  /\ generations \subseteq generations'
         /\ round[d].full \in Own(d)'
         /\ \A c \in Devices : Own(c) \subseteq Own(c)'
         /\ staged' = [staged EXCEPT ![d] = NoUpload]
         /\ generations' = generations \cup
              {[owner |-> d, digest |-> round[d].full, upload |-> staged[d]]}
<1>1. generations' = generations \cup
        {[owner |-> d, digest |-> round[d].full, upload |-> staged[d]]}
  BY DEF Named, CurrentName
<1>2. \A c \in Devices : Own(c) \subseteq Own(c)'
  BY <1>1 DEF Own
<1>3. round[d].full \in Own(d)'
  <2>1. [owner |-> d, digest |-> round[d].full, upload |-> staged[d]] \in generations'
    BY <1>1
  <2> QED
    BY <2>1 DEF Own
<1> QED
  BY <1>1, <1>2, <1>3 DEF MoveSource

\* Collecting deletes nothing that other devices own, and not the generation the
\* round counts on.
LEMMA CollectKeeps ==
  ASSUME NEW d \in Devices, TypeOK, Collect(d)
  PROVE  /\ generations' \subseteq generations
         /\ \A c \in Devices \ {d} : Own(c) \subseteq Own(c)'
         /\ round[d].full \in Own(d) => round[d].full \in Own(d)'
<1>1. PICK n \in OldOwn(d) : generations' = {g \in generations : NameOf(g) # n}
  BY DEF Collect
<1>2. n.owner = d /\ n # CurrentName(d)
  BY DEF OldOwn
<1>3. \A g \in generations : g.owner # d => g \in generations'
  BY <1>1, <1>2 DEF NameOf
<1>4. \A g \in generations : g.owner = d /\ g.digest = round[d].full => g \in generations'
  BY <1>1, <1>2 DEF NameOf, CurrentName
<1> QED
  BY <1>1, <1>3, <1>4 DEF Own

-----------------------------------------------------------------------------
\* The steps of one device

\* More to have had and more own generations change nothing about a device.
LEMMA SoundGrows ==
  ASSUME NEW d, NEW h1, NEW h2, h1 \subseteq h2, NEW o1, NEW o2, o1 \subseteq o2,
         NEW l, NEW c, NEW r, NEW u, SoundAt(d, h1, l, c, r, u, o1)
  PROVE  SoundAt(d, h2, l, c, r, u, o2)
BY DEF SoundAt

\* A round that ends holds nothing.
LEMMA SoundRests ==
  ASSUME NEW d, NEW h, NEW l, NEW c, NEW r, NEW u, NEW o, SoundAt(d, h, l, c, r, u, o)
  PROVE  SoundAt(d, h, l, c, Resting, u, o)
BY DEF SoundAt, Resting

\* Reading: what a round starts from and takes in, its device has had.
LEMMA ReadingSound ==
  ASSUME NEW d \in Devices, TypeOK, Sound, List(d) \/ Gather(d) \/ Fold(d)
  PROVE  DeviceSound(d)'
<1> USE DEF disk, cloud, history
<1>1. /\ SoundAt(d, known[d], local[d], conn[d], round[d], staged[d], Own(d))
      /\ round[d] \in Rounds
  BY DEF Sound, DeviceSound, TypeOK, Rounds
<1>2. /\ UNCHANGED <<local, conn, staged, generations>>
      /\ Own(d)' = Own(d)
  BY DEF List, Gather, Fold, FoldSeen, FoldRead, FoldWithout, FoldDamaged, Own
<1>3. CASE List(d)
  <2>1. /\ round'[d].pc = "gather" /\ round'[d].full = {} /\ round'[d].digests = {}
        /\ round'[d].todo = Listing /\ known' = known
    BY <1>3 DEF List, Resting, TypeOK
  <2>2. \A n \in Listing : n.owner = d => n.digest \in Own(d)
    BY OwnNames
  <2> QED
    BY <1>1, <1>2, <2>1, <2>2 DEF DeviceSound, SoundAt
<1>4. CASE Gather(d)
  <2>1. /\ round[d].pc = "gather" /\ round'[d].pc = "fold"
        /\ round'[d].full = StartingState(d) /\ round'[d].digests = round[d].digests
        /\ round'[d].todo = round[d].todo /\ known' = known
    BY <1>1, <1>4 DEF Gather, At, TypeOK, Rounds
  <2>2. staged[d].events \subseteq StartingState(d) /\ StartingState(d) \subseteq known[d]
    BY <1>1 DEF SoundAt, StartingState, FoundUpload, NoUpload
  <2> QED
    BY <1>1, <1>2, <2>1, <2>2 DEF DeviceSound, SoundAt
<1>5. ASSUME NEW n \in round[d].todo, FoldSeen(d, n) PROVE DeviceSound(d)'
  <2>1. /\ round[d].pc = "fold" /\ round'[d].pc = "fold"
        /\ round'[d].full = round[d].full /\ known' = known
        /\ round'[d].digests = round[d].digests \cup OwnDigest(d, n)
        /\ round'[d].todo = round[d].todo \ {n}
    BY <1>1, <1>5 DEF FoldSeen, At, TypeOK, Rounds
  <2>2. OwnDigest(d, n) \subseteq Own(d)
    BY <1>1, <1>5, <2>1 DEF OwnDigest, SoundAt
  <2> QED
    BY <1>1, <1>2, <2>1, <2>2 DEF DeviceSound, SoundAt
<1>6. ASSUME NEW n \in round[d].todo, FoldRead(d, n) PROVE DeviceSound(d)'
  <2>1. PICK g \in generations :
          /\ round' = [round EXCEPT ![d] =
               [round[d] EXCEPT !.todo = @ \ {n}, !.digests = @ \cup OwnDigest(d, n),
                                !.full = @ \cup g.digest, !.seen = @ \cup {n}]]
          /\ known' = [known EXCEPT ![d] = @ \cup g.digest]
    BY <1>6 DEF FoldRead
  <2>2. /\ round[d].pc = "fold" /\ round'[d].pc = "fold"
        /\ round'[d].full = round[d].full \cup g.digest
        /\ known'[d] = known[d] \cup g.digest
        /\ round'[d].digests = round[d].digests \cup OwnDigest(d, n)
        /\ round'[d].todo = round[d].todo \ {n}
    BY <1>1, <1>6, <2>1 DEF FoldRead, At, TypeOK, Rounds
  <2>3. OwnDigest(d, n) \subseteq Own(d)
    BY <1>1, <1>6, <2>2 DEF OwnDigest, SoundAt
  <2> QED
    BY <1>1, <1>2, <2>2, <2>3 DEF DeviceSound, SoundAt
<1>7. ASSUME NEW n \in round[d].todo, FoldWithout(d, n) PROVE DeviceSound(d)'
  <2>1. /\ round[d].pc = "fold" /\ round'[d].pc = "fold"
        /\ round'[d].full = round[d].full /\ known' = known
        /\ round'[d].digests = round[d].digests
        /\ round'[d].todo = round[d].todo \ {n}
    BY <1>1, <1>7 DEF FoldWithout, Skipped, At, TypeOK, Rounds
  <2> QED
    BY <1>1, <1>2, <2>1 DEF DeviceSound, SoundAt
<1>8. ASSUME NEW n \in round[d].todo, FoldDamaged(d, n) PROVE DeviceSound(d)'
  <2>1. round'[d] = Resting /\ known' = known
    BY <1>8 DEF FoldDamaged, TypeOK
  <2> QED
    BY <1>1, <1>2, <2>1, SoundRests DEF DeviceSound
<1> QED
  BY <1>3, <1>4, <1>5, <1>6, <1>7, <1>8 DEF Fold

\* Saving, applying and publishing: the upload is part of what the round saved,
\* and what the round goes on to count on is an own generation.
LEMMA PublishingSound ==
  ASSUME NEW d \in Devices, TypeOK, Sound,
         \/ SaveView(d) \/ Apply(d) \/ SavePending(d) \/ Put(d) \/ PutFails(d)
         \/ Move(d) \/ MoveConflicts(d) \/ MoveMisses(d) \/ MoveFails(d)
  PROVE  DeviceSound(d)'
<1> USE DEF disk, cloud, history
<1>1. /\ SoundAt(d, known[d], local[d], conn[d], round[d], staged[d], Own(d))
      /\ round[d] \in Rounds
  BY DEF Sound, DeviceSound, TypeOK, Rounds
<1>2. ASSUME UNCHANGED generations PROVE Own(d)' = Own(d)
  BY <1>2 DEF Own
<1>3. CASE SaveView(d)
  <2>1. /\ round[d].pc = "fold" /\ round'[d].pc = "apply"
        /\ round'[d].full = round[d].full /\ round'[d].digests = round[d].digests
        /\ conn'[d].view = View(round[d].full)
        /\ UNCHANGED <<local, known, staged, generations>>
    BY <1>1, <1>3 DEF SaveView, SavedConnection, At, TypeOK, Rounds
  <2> QED
    BY <1>1, <1>2, <2>1 DEF DeviceSound, SoundAt, View
<1>4. CASE Apply(d)
  <2> DEFINE merged == IF bound[d] THEN local[d] \cup round[d].full ELSE local[d]
             full == round[d].full \cup merged
  <2>1. /\ round[d].pc = "apply" /\ local'[d] = merged /\ round'[d].full = full
        /\ round'[d].pc = IF NeedsPublication(d, full) THEN "publish" ELSE "tidy"
        /\ UNCHANGED <<conn, known, staged, generations>>
    BY <1>1, <1>4 DEF Apply, At, TypeOK, Rounds
  <2>2. merged \subseteq known[d] /\ full \subseteq known[d]
    BY <1>1 DEF SoundAt
  <2>3. round'[d].pc = "tidy" => full \in Own(d)
    BY <1>1, <2>1 DEF NeedsPublication, SoundAt
  <2>4. round[d].full \subseteq full
    OBVIOUS
  <2> HIDE DEF merged, full
  <2> QED
    BY <1>1, <1>2, <2>1, <2>2, <2>3, <2>4 DEF DeviceSound, SoundAt
<1>5. CASE SavePending(d)
  <2>1. /\ round[d].pc = "publish" /\ round'[d].pc = "put"
        /\ round'[d].full = round[d].full
        /\ conn'[d].view = View(round[d].full)
        /\ UNCHANGED <<local, known, staged, generations>>
    BY <1>1, <1>5 DEF SavePending, SavedConnection, At, TypeOK, Rounds
  <2> QED
    BY <1>1, <1>2, <2>1 DEF DeviceSound, SoundAt, View
<1>6. CASE Put(d)
  <2>1. /\ round[d].pc = "put" /\ round'[d].pc = "move"
        /\ round'[d].full = round[d].full /\ staged'[d] = Upload(round[d].full)
        /\ UNCHANGED <<local, conn, known, generations>>
    BY <1>1, <1>6 DEF Put, At, TypeOK, Rounds
  <2> QED
    BY <1>1, <1>2, <2>1 DEF DeviceSound, SoundAt, Upload
<1>7. CASE PutFails(d)
  <2>1. /\ round[d].pc = "put" /\ round'[d].pc = "cleanup"
        /\ round'[d].full = round[d].full
        /\ UNCHANGED <<local, conn, known, generations>>
    BY <1>1, <1>7 DEF PutFails, At, TypeOK, Rounds
  <2>2. staged'[d] \in {staged[d], Partial, Upload(round[d].full)}
    BY <1>7 DEF PutFails, TypeOK
  <2>3. staged'[d].events \subseteq staged[d].events \cup round[d].full
    BY <2>2 DEF Partial, Upload
  <2> QED
    BY <1>1, <1>2, <2>1, <2>3 DEF DeviceSound, SoundAt
<1>8. CASE Move(d)
  <2>1. Named(d, CurrentName(d)) /\ MoveSource(d) /\ Published(d)
    BY <1>8 DEF Move
  <2>2. /\ round[d].pc = "move" /\ round'[d].pc = "collect"
        /\ round'[d].full = round[d].full
        /\ UNCHANGED <<local, conn, known>>
    BY <1>1, <1>8, <2>1 DEF Move, Published, At, TypeOK, Rounds
  <2>4. staged'[d] = NoUpload
    BY <2>1 DEF MoveSource, TypeOK
  <2>3. round[d].full \in Own(d)'
    BY <2>1, NamingAdds
  <2> QED
    BY <1>1, <2>2, <2>3, <2>4 DEF DeviceSound, SoundAt, NoUpload
<1>9. CASE MoveConflicts(d) \/ MoveMisses(d)
  <2>1. UNCHANGED <<local, conn, known, staged, generations>>
    BY <1>9 DEF MoveConflicts, MoveMisses
  <2>2. /\ round[d].pc = "move" /\ round'[d].pc \in {"cleanup", "cleanup taken"}
        /\ round'[d].full = round[d].full
    <3>1. CASE MoveConflicts(d)
      BY <1>1, <3>1 DEF MoveConflicts, At, TypeOK, Rounds
    <3>2. CASE MoveMisses(d)
      BY <1>1, <3>2 DEF MoveMisses, At, TypeOK, Rounds
    <3> QED
      BY <1>9, <3>1, <3>2
  <2> QED
    BY <1>1, <1>2, <2>1, <2>2 DEF DeviceSound, SoundAt
<1>10. CASE MoveFails(d)
  <2>1. /\ round[d].pc = "move" /\ round'[d].pc = "cleanup"
        /\ round'[d].full = round[d].full
        /\ UNCHANGED <<local, conn, known>>
    BY <1>1, <1>10 DEF MoveFails, At, TypeOK, Rounds
  <2>2. staged'[d] = staged[d] \/ staged'[d] = NoUpload
    BY <1>10 DEF MoveFails, MoveSource, TypeOK
  <2>3. staged'[d].events \subseteq staged[d].events
    BY <2>2 DEF NoUpload
  <2> QED
    BY <1>1, <2>1, <2>3 DEF DeviceSound, SoundAt
<1> QED
  BY <1>3, <1>4, <1>5, <1>6, <1>7, <1>8, <1>9, <1>10

\* Tidying up, failures, and what happens outside of rounds.
LEMMA OtherwiseSound ==
  ASSUME NEW d \in Devices, TypeOK, Sound,
         \/ Cleanup(d) \/ Validate(d) \/ Tidy(d) \/ Collect(d) \/ Finish(d) \/ Abort(d)
         \/ RemoveBook(d) \/ AddBook(d) \/ Reconnect(d)
         \/ \E e \in Events : WriteLocal(d, e)
  PROVE  DeviceSound(d)'
<1> USE DEF disk, cloud, history
<1>1. /\ SoundAt(d, known[d], local[d], conn[d], round[d], staged[d], Own(d))
      /\ round[d] \in Rounds
  BY DEF Sound, DeviceSound, TypeOK, Rounds
<1>2. ASSUME UNCHANGED generations PROVE Own(d)' = Own(d)
  BY <1>2 DEF Own
<1>3. CASE Cleanup(d)
  <2>1. staged'[d] = NoUpload /\ UNCHANGED <<local, conn, known, generations>>
    BY <1>3 DEF Cleanup, TypeOK
  <2>2. \/ round' = [round EXCEPT ![d] = Resting]
        \/ round' = [round EXCEPT ![d].pc = "validate"]
    BY <1>3 DEF Cleanup
  <2>3. \/ round'[d] = Resting
        \/ round'[d].pc = "validate" /\ round'[d].full = round[d].full
    BY <1>1, <2>2 DEF TypeOK, Rounds
  <2> QED
    BY <1>1, <1>2, <2>1, <2>3 DEF DeviceSound, SoundAt, NoUpload, Resting
<1>4. CASE Validate(d)
  <2>1. UNCHANGED <<local, conn, known, staged, generations>>
    BY <1>4 DEF Validate
  <2>2. CASE round' = [round EXCEPT ![d] = Resting]
    <3>1. round'[d] = Resting
      BY <2>2 DEF TypeOK
    <3> QED
      BY <1>1, <1>2, <2>1, <3>1, SoundRests DEF DeviceSound
  <2>3. CASE ~(round' = [round EXCEPT ![d] = Resting])
    <3>1. (\E g \in generations : NameOf(g) = CurrentName(d)) /\ Published(d)
      BY <1>4, <2>3 DEF Validate
    <3>2. round[d].full \in Own(d)
      BY <3>1, OwnNames DEF CurrentName, Listing
    <3>3. /\ round[d].pc = "validate" /\ round'[d].pc = "collect"
          /\ round'[d].full = round[d].full
      BY <1>1, <1>4, <3>1 DEF Validate, Published, At, TypeOK, Rounds
    <3> QED
      BY <1>1, <1>2, <2>1, <3>2, <3>3 DEF DeviceSound, SoundAt
  <2> QED
    BY <2>2, <2>3
<1>5. CASE Tidy(d)
  <2>1. /\ round[d].pc = "tidy" /\ round'[d].pc = "collect"
        /\ round'[d].full = round[d].full
        /\ staged'[d] \in {staged[d], NoUpload}
        /\ UNCHANGED <<local, conn, known, generations>>
    BY <1>1, <1>5 DEF Tidy, At, TypeOK, Rounds
  <2> QED
    BY <1>1, <1>2, <2>1 DEF DeviceSound, SoundAt, NoUpload
<1>6. CASE Collect(d)
  <2>1. /\ round[d].pc = "collect" /\ round'[d].pc = "collect"
        /\ round'[d].full = round[d].full
        /\ UNCHANGED <<local, conn, known, staged>>
    BY <1>1, <1>6 DEF Collect, At, TypeOK, Rounds
  <2>2. round[d].full \in Own(d)'
    BY <1>1, <1>6, <2>1, CollectKeeps DEF SoundAt
  <2> QED
    BY <1>1, <2>1, <2>2 DEF DeviceSound, SoundAt
<1>7. CASE Finish(d)
  <2>1. /\ round[d].pc = "collect" /\ round'[d] = Resting
        /\ conn'[d].view = View(round[d].full)
        /\ UNCHANGED <<local, known, staged, generations>>
    BY <1>7 DEF Finish, SavedConnection, At, TypeOK
  <2> QED
    BY <1>1, <1>2, <2>1 DEF DeviceSound, SoundAt, View, Resting
<1>8. CASE Abort(d)
  <2>1. round'[d] = Resting /\ UNCHANGED <<local, conn, known, staged, generations>>
    BY <1>8 DEF Abort, TypeOK
  <2> QED
    BY <1>1, <1>2, <2>1, SoundRests DEF DeviceSound
<1>9. CASE RemoveBook(d)
  <2>1. local'[d] = {} /\ UNCHANGED <<conn, known, round, staged, generations>>
    BY <1>9 DEF RemoveBook, TypeOK
  <2> QED
    BY <1>1, <1>2, <2>1 DEF DeviceSound, SoundAt
<1>10. CASE AddBook(d)
  BY <1>1, <1>2, <1>10 DEF AddBook, DeviceSound
<1>11. CASE Reconnect(d)
  <2>1. PICK k \in {NewConnection, [conn[d] EXCEPT !.pending = FALSE]} :
          conn' = [conn EXCEPT ![d] = k]
    BY <1>11 DEF Reconnect
  <2>2. /\ conn'[d] = k /\ round[d].pc = "rest"
        /\ UNCHANGED <<local, known, round, staged, generations>>
    BY <1>11, <2>1 DEF Reconnect, At, TypeOK
  <2>3. k.view = NoView \/ k.view = conn[d].view
    BY <2>1 DEF TypeOK, NewConnection
  <2> QED
    BY <1>1, <1>2, <2>2, <2>3 DEF DeviceSound, SoundAt, NoView
<1>12. ASSUME NEW e \in Events, WriteLocal(d, e) PROVE DeviceSound(d)'
  <2>1. /\ local'[d] = local[d] \cup {e} /\ known'[d] = known[d] \cup {e}
        /\ UNCHANGED <<conn, round, staged, generations>>
    BY <1>12 DEF WriteLocal, TypeOK
  <2> QED
    BY <1>1, <1>2, <2>1 DEF DeviceSound, SoundAt
<1> QED
  BY <1>3, <1>4, <1>5, <1>6, <1>7, <1>8, <1>9, <1>10, <1>11, <1>12

-----------------------------------------------------------------------------
\* All devices

LEMMA SoundInit ==
  Init => Sound
BY DEF Init, Sound, DeviceSound, SoundAt, Resting, NewConnection, NoView, NoUpload

\* What a step of a device is, when nothing comes late and nothing vanishes.
Acts(d) ==
  \/ Step(d) \/ RemoveBook(d) \/ AddBook(d) \/ Reconnect(d)
  \/ PutFails(d) \/ MoveFails(d) \/ Abort(d) \/ \E e \in Events : WriteLocal(d, e)

LEMMA NextIsActs ==
  ASSUME ~MayVanish, TypeOK, Sound, Next
  PROVE  \E d \in Devices : Acts(d)
<1>1. ~Vanish
  BY DEF Vanish
<1>2. \A d \in Devices : ~Land(d)
  BY DEF Sound, Land
<1> QED
  BY <1>1, <1>2 DEF Next, Acts

\* A step of d leaves what is about another device alone.
LEMMA OthersKeep ==
  ASSUME NEW d \in Devices, NEW c \in Devices \ {d}, TypeOK, Acts(d)
  PROVE  /\ known'[c] = known[c] /\ local'[c] = local[c] /\ conn'[c] = conn[c]
         /\ round'[c] = round[c] /\ staged'[c] = staged[c]
<1> USE DEF disk, cloud, history
<1>1. CASE List(d) \/ Gather(d) \/ Fold(d) \/ SaveView(d) \/ Apply(d) \/ SavePending(d)
  BY <1>1 DEF List, Gather, Fold, FoldSeen, FoldRead, FoldWithout, Skipped, FoldDamaged,
              SaveView, Apply, SavePending, TypeOK
<1>2. CASE Put(d) \/ PutFails(d) \/ Move(d) \/ MoveConflicts(d) \/ MoveMisses(d)
             \/ MoveFails(d) \/ Cleanup(d) \/ Validate(d)
  BY <1>2 DEF Put, PutFails, Move, MoveConflicts, MoveMisses, MoveFails, MoveSource, Published,
              Cleanup, Validate, TypeOK
<1>3. CASE Tidy(d) \/ Collect(d) \/ Finish(d) \/ Abort(d) \/ RemoveBook(d) \/ AddBook(d)
             \/ Reconnect(d) \/ \E e \in Events : WriteLocal(d, e)
  BY <1>3 DEF Tidy, Collect, Finish, Abort, RemoveBook, AddBook, Reconnect, WriteLocal, TypeOK
<1> QED
  BY <1>1, <1>2, <1>3 DEF Acts, Step

\* What can happen to the generations in a step of d.
Publishes(d) ==
  generations' = generations \cup
    {[owner |-> d, digest |-> round[d].full, upload |-> staged[d]]}

LEMMA GenerationsChange ==
  ASSUME NEW d \in Devices, TypeOK, Acts(d)
  PROVE  UNCHANGED generations \/ (At(d, "move") /\ Publishes(d)) \/ Collect(d)
<1> USE DEF disk, cloud, history
<1>1. CASE Move(d)
  BY <1>1 DEF Move, Named, CurrentName, Publishes
<1>2. CASE MoveFails(d)
  BY <1>2 DEF MoveFails, Named, CurrentName, Publishes
<1>3. CASE List(d) \/ Gather(d) \/ Fold(d) \/ SaveView(d) \/ Apply(d) \/ SavePending(d)
  BY <1>3 DEF List, Gather, Fold, FoldSeen, FoldRead, FoldWithout, FoldDamaged,
              SaveView, Apply, SavePending
<1>4. CASE Put(d) \/ PutFails(d) \/ MoveConflicts(d) \/ MoveMisses(d) \/ Cleanup(d)
             \/ Validate(d) \/ Tidy(d) \/ Finish(d)
  BY <1>4 DEF Put, PutFails, MoveConflicts, MoveMisses, Cleanup, Validate, Tidy, Finish
<1>5. CASE Abort(d) \/ RemoveBook(d) \/ AddBook(d) \/ Reconnect(d)
             \/ \E e \in Events : WriteLocal(d, e)
  BY <1>5 DEF Abort, RemoveBook, AddBook, Reconnect, WriteLocal
<1> QED
  BY <1>1, <1>2, <1>3, <1>4, <1>5 DEF Acts, Step

\* Nobody else's generations go.
LEMMA OthersOwn ==
  ASSUME NEW d \in Devices, NEW c \in Devices \ {d}, TypeOK, Acts(d)
  PROVE  Own(c) \subseteq Own(c)'
<1>1. CASE UNCHANGED generations
  BY <1>1 DEF Own
<1>2. CASE Publishes(d)
  BY <1>2 DEF Own, Publishes
<1>3. CASE Collect(d)
  BY <1>3, CollectKeeps
<1> QED
  BY <1>1, <1>2, <1>3, GenerationsChange

\* A device gives up no request that is carried out later.
LEMMA NothingLate ==
  ASSUME ~LateRequests, NEW d \in Devices, Acts(d)
  PROVE  UNCHANGED late
<1> USE DEF disk, cloud, history
<1>1. CASE PutFails(d) \/ MoveFails(d)
  BY <1>1 DEF PutFails, MoveFails, LateRequest
<1>2. CASE List(d) \/ Gather(d) \/ Fold(d) \/ SaveView(d) \/ Apply(d) \/ SavePending(d)
  BY <1>2 DEF List, Gather, Fold, FoldSeen, FoldRead, FoldWithout, FoldDamaged,
              SaveView, Apply, SavePending
<1>3. CASE Put(d) \/ Move(d) \/ MoveConflicts(d) \/ MoveMisses(d) \/ Cleanup(d)
             \/ Validate(d) \/ Tidy(d) \/ Collect(d) \/ Finish(d)
  BY <1>3 DEF Put, Move, MoveConflicts, MoveMisses, Cleanup, Validate, Tidy, Collect, Finish
<1>4. CASE Abort(d) \/ RemoveBook(d) \/ AddBook(d) \/ Reconnect(d)
             \/ \E e \in Events : WriteLocal(d, e)
  BY <1>4 DEF Abort, RemoveBook, AddBook, Reconnect, WriteLocal
<1> QED
  BY <1>1, <1>2, <1>3, <1>4 DEF Acts, Step

\* Every generation is what its name says, after each step.
LEMMA IntactStep ==
  ASSUME TypeOK, Sound, NEW d \in Devices, Acts(d)
  PROVE  \A g \in generations' : Intact(g)
<1>1. \A g \in generations : Intact(g)
  BY DEF Sound
<1>2. CASE At(d, "move") /\ Publishes(d)
  <2>1. staged[d] = Upload(round[d].full)
    BY <1>2 DEF Sound, DeviceSound, SoundAt, At
  <2> QED
    BY <1>1, <1>2, <2>1 DEF Publishes, Intact
<1>3. CASE UNCHANGED generations \/ Collect(d)
  BY <1>1, <1>3, CollectKeeps
<1> QED
  BY <1>2, <1>3, GenerationsChange

LEMMA SoundStep ==
  ASSUME ~LateRequests, ~MayVanish
  PROVE  TypeOK /\ Sound /\ [Next]_vars => Sound'
<1> SUFFICES ASSUME TypeOK, Sound, [Next]_vars PROVE Sound'
  OBVIOUS
<1>1. CASE UNCHANGED vars
  BY <1>1 DEF vars, disk, cloud, history, Sound, DeviceSound, Own
<1>2. CASE Next
  <2>1. PICK d \in Devices : Acts(d)
    BY <1>2, NextIsActs
  <2>2. DeviceSound(d)'
    BY <2>1, ReadingSound, PublishingSound, OtherwiseSound DEF Acts, Step
  <2>3. ASSUME NEW c \in Devices \ {d} PROVE DeviceSound(c)'
    <3>1. DeviceSound(c)
      BY DEF Sound
    <3> QED
      BY <2>1, <3>1, OthersKeep, OthersOwn, SoundGrows DEF DeviceSound
  <2>4. \A c \in Devices : late'[c] = {}
    BY <2>1, NothingLate DEF Sound
  <2>5. \A g \in generations' : Intact(g)
    BY <2>1, IntactStep
  <2> QED
    BY <2>2, <2>3, <2>4, <2>5 DEF Sound, Intact
<1> QED
  BY <1>1, <1>2

-----------------------------------------------------------------------------
\* What follows

\* The generation that a collecting round counts on is there and can be read.
LEMMA SoundDurable ==
  Sound => PublishedIsDurable
<1> SUFFICES ASSUME Sound, NEW d \in Devices, At(d, "collect")
             PROVE  \E g \in generations : NameOf(g) = CurrentName(d) /\ Intact(g)
  BY DEF PublishedIsDurable
<1>1. round[d].full \in Own(d)
  BY DEF Sound, DeviceSound, SoundAt, At
<1>2. PICK g \in generations : NameOf(g) = CurrentName(d)
  BY <1>1, OwnNames DEF CurrentName
<1> QED
  BY <1>2 DEF Sound

\* When a new generation is durable, nothing an old one held is lost with it.
LEMMA CollectForgetsNothing ==
  ASSUME TypeOK, Sound, Covered, NEW d \in Devices, Collect(d)
  PROVE  Readable' = Readable
<1>1. PICK n \in OldOwn(d) : generations' = {g \in generations : NameOf(g) # n}
  BY DEF Collect
<1>2. n.digest \subseteq round[d].full /\ n # CurrentName(d)
  BY DEF Collect, Covered, ViewCoversSeen, OldOwn, At
<1>3. PICK k \in generations : NameOf(k) = CurrentName(d) /\ Intact(k)
  BY SoundDurable DEF PublishedIsDurable, Collect
<1>4. k \in generations' /\ k.digest = round[d].full
  BY <1>1, <1>2, <1>3 DEF NameOf, CurrentName
<1>5. ASSUME NEW g \in generations, NameOf(g) = n PROVE g.digest \subseteq k.digest
  BY <1>2, <1>4, <1>5 DEF NameOf
<1>6. ASSUME NEW e \in Readable PROVE e \in Readable'
  <2>1. PICK g \in generations : Intact(g) /\ e \in g.digest
    BY <1>6 DEF Readable
  <2>2. CASE NameOf(g) = n
    BY <1>3, <1>4, <1>5, <2>1, <2>2 DEF Readable, Intact
  <2>3. CASE NameOf(g) # n
    BY <1>1, <2>1, <2>3 DEF Readable, Intact
  <2> QED
    BY <2>2, <2>3
<1>7. Readable' \subseteq Readable
  BY <1>1 DEF Readable, Intact
<1> QED
  BY <1>6, <1>7

\* Naming an upload shares some of what its device had.
LEMMA PublishingShares ==
  ASSUME TypeOK, Sound, NEW d \in Devices, At(d, "move"), Publishes(d)
  PROVE  \E S \in SUBSET known[d] : Readable' = Readable \cup S
<1> DEFINE new == [owner |-> d, digest |-> round[d].full, upload |-> staged[d]]
<1>1. round[d].full \subseteq known[d] /\ staged[d] = Upload(round[d].full)
  BY DEF Sound, DeviceSound, SoundAt, At
<1>2. Intact(new) /\ new.digest = round[d].full
  BY <1>1 DEF Intact
<1>3. generations' = generations \cup {new}
  BY DEF Publishes
<1> HIDE DEF new
<1>4. Readable' = Readable \cup new.digest
  BY <1>2, <1>3 DEF Readable, Intact
<1> QED
  BY <1>1, <1>2, <1>4

\* Every step is a step of the shared history, or changes nothing of it.
LEMMA HistoryStep ==
  ASSUME ~LateRequests, ~MayVanish
  PROVE  TypeOK /\ Sound /\ Covered /\ [Next]_vars => [Shared!Next]_(Shared!vars)
<1> SUFFICES ASSUME TypeOK, Sound, Covered, [Next]_vars
             PROVE  [Shared!Next]_(Shared!vars)
  OBVIOUS
<1> USE DEF disk, cloud, history
<1>1. CASE UNCHANGED vars
  BY <1>1 DEF vars, Shared!vars, Readable
<1>2. ASSUME NEW d \in Devices, Acts(d) PROVE [Shared!Next]_(Shared!vars)
  <2>1. ASSUME NEW e \in Events, WriteLocal(d, e) PROVE Shared!Write(d, e)
    BY <2>1 DEF WriteLocal, Shared!Write, Readable
  <2>2. ASSUME NEW n \in round[d].todo, FoldRead(d, n) PROVE Shared!Learn(d)
    <3>1. PICK g \in generations :
            Intact(g) /\ known' = [known EXCEPT ![d] = @ \cup g.digest]
      BY <2>2 DEF FoldRead
    <3>2. g.digest \in SUBSET Readable
      BY <3>1 DEF Readable
    <3>3. UNCHANGED <<written, Readable>>
      BY <2>2 DEF FoldRead, Readable
    <3> QED
      BY <3>1, <3>2, <3>3 DEF Shared!Learn
  <2>3. ASSUME UNCHANGED <<written, known>> PROVE [Shared!Next]_(Shared!vars)
    <3>1. CASE UNCHANGED generations \/ Collect(d)
      <4>1. UNCHANGED Readable
        BY <3>1, CollectForgetsNothing DEF Readable
      <4> QED
        BY <2>3, <4>1 DEF Shared!vars
    <3>2. CASE At(d, "move") /\ Publishes(d)
      <4>1. Shared!Share(d)
        BY <2>3, <3>2, PublishingShares DEF Shared!Share
      <4> QED
        BY <4>1 DEF Shared!Next
    <3> QED
      BY <1>2, <3>1, <3>2, GenerationsChange
  <2>4. CASE \E e \in Events : WriteLocal(d, e)
    BY <2>1, <2>4 DEF Shared!Next
  <2>5. CASE \E n \in round[d].todo : FoldRead(d, n)
    BY <2>2, <2>5 DEF Shared!Next
  <2>6. CASE List(d) \/ Gather(d) \/ SaveView(d) \/ Apply(d) \/ SavePending(d)
               \/ \E n \in round[d].todo :
                    FoldSeen(d, n) \/ FoldWithout(d, n) \/ FoldDamaged(d, n)
    <3>1. UNCHANGED <<written, known>>
      BY <2>6 DEF List, Gather, FoldSeen, FoldWithout, FoldDamaged, SaveView, Apply, SavePending
    <3> QED
      BY <2>3, <3>1
  <2>7. CASE Put(d) \/ PutFails(d) \/ Move(d) \/ MoveConflicts(d) \/ MoveMisses(d)
               \/ MoveFails(d) \/ Cleanup(d) \/ Validate(d)
    <3>1. UNCHANGED <<written, known>>
      BY <2>7 DEF Put, PutFails, Move, MoveConflicts, MoveMisses, MoveFails, Cleanup, Validate
    <3> QED
      BY <2>3, <3>1
  <2>8. CASE Tidy(d) \/ Collect(d) \/ Finish(d) \/ Abort(d) \/ RemoveBook(d) \/ AddBook(d)
               \/ Reconnect(d)
    <3>1. UNCHANGED <<written, known>>
      BY <2>8 DEF Tidy, Collect, Finish, Abort, RemoveBook, AddBook, Reconnect
    <3> QED
      BY <2>3, <3>1
  <2> QED
    BY <1>2, <2>4, <2>5, <2>6, <2>7, <2>8 DEF Acts, Step, Fold
<1> QED
  BY <1>1, <1>2, NextIsActs

\* When a round goes on to delete old generations, the one it counts on is in the
\* cloud and is what its name says (engine.rs, after publishing).
THEOREM NewGenerationIsDurable ==
  ASSUME ~LateRequests, ~MayVanish
  PROVE  Spec => []PublishedIsDurable
<1>1. TypeOK /\ Sound /\ [Next]_vars => Sound'
  BY SoundStep
<1> QED
  BY <1>1, SoundInit, SoundDurable, TypeInit, TypeStep, PTL DEF Spec

\* An upload that was stored and never named is part of the view of its device,
\* as soon as the device has one (recovery of the staged file, engine.rs).
THEOREM UploadsAreRecovered ==
  ASSUME ~LateRequests, ~MayVanish
  PROVE  Spec => []UploadsRecovered
<1>1. TypeOK /\ Sound /\ [Next]_vars => Sound'
  BY SoundStep
<1>2. Sound => UploadsRecovered
  BY DEF Sound, DeviceSound, SoundAt, UploadsRecovered
<1> QED
  BY <1>1, <1>2, SoundInit, TypeInit, TypeStep, PTL DEF Spec

\* Rounds implement the shared history: whatever fails and crashes, nothing that
\* was shared is withdrawn, and devices learn what is shared and nothing else.
THEOREM RoundsShareHistory ==
  ASSUME ~LateRequests, ~MayVanish
  PROVE  Spec => RefinesSharedHistory
<1>1. TypeOK /\ Sound /\ [Next]_vars => Sound'
  BY SoundStep
<1>2. TypeOK /\ Sound /\ Covered /\ [Next]_vars => [Shared!Next]_(Shared!vars)
  BY HistoryStep
<1>3. Init => Shared!Init
  BY DEF Init, Shared!Init, Readable
<1> QED
  BY <1>1, <1>2, <1>3, SoundInit, CoveredInit, CoveredStep, TypeInit, TypeStep, PTL
     DEF Spec, RefinesSharedHistory, Shared!Spec

\* No step makes an event unreadable that could be read.
THEOREM NothingIsForgotten ==
  ASSUME ~LateRequests, ~MayVanish
  PROVE  Spec => CloudNeverForgets
<1>1. TypeOK /\ Sound /\ [Next]_vars => Sound'
  BY SoundStep
<1>2. TypeOK /\ Sound /\ Covered /\ [Next]_vars => [Readable \subseteq Readable']_vars
  <2> SUFFICES ASSUME TypeOK, Sound, Covered, [Next]_vars PROVE Readable \subseteq Readable'
    OBVIOUS
  <2>1. [Shared!Next]_(Shared!vars)
    BY HistoryStep
  <2> QED
    BY <2>1 DEF Shared!Next, Shared!vars, Shared!Write, Shared!Share, Shared!Learn
<1> QED
  BY <1>1, <1>2, SoundInit, CoveredInit, CoveredStep, TypeInit, TypeStep, PTL
     DEF Spec, CloudNeverForgets
=============================================================================
