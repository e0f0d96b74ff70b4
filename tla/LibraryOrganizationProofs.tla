---------------------- MODULE LibraryOrganizationProofs ----------------------
(***************************************************************************)
(* Proofs about LibraryOrganization.  A store is sound for the writes that *)
(* reached it when each register is the latest of them and every folder    *)
(* that a book is filed in is known.  The clock of a device is not below   *)
(* what it wrote or received, so that a new write is the latest.           *)
(***************************************************************************)
EXTENDS LibraryOrganization, TLAPS, WellFoundedInduction

Counters == 0 .. MaxCounter

\* The register is the latest of the writes of its key.
Tops(r, R, k) ==
  /\ r = None => \A e \in R : e.key # k
  /\ r # None =>
       /\ \E e \in R : e.key = k /\ SameStamp(e, r) /\ e.val = r.val
       /\ \A e \in R : e.key = k => SameStamp(e, r) \/ StampBelow(e, r)

\* The folder of a book was created somewhere, and the device knows it.
Filed(S) ==
  \A b \in Books :
    S[Place(b)] # None /\ S[Place(b)].val # Root => S[Name(S[Place(b)].val)] # None

StoreSound(S, R) ==
  /\ \A k \in Keys : Tops(S[k], R, k)
  /\ \A k \in Keys : S[k] # None => S[k].val \in ValuesOf(k)
  /\ Filed(S)

CoreTypes ==
  /\ counter \in [Devices -> Counters]
  /\ store \in [Devices -> Stores]
  /\ archives \in [Files -> Archives \cup {None}]
  /\ events \subseteq Writes
  /\ received \in [Devices -> SUBSET Writes]

ArchiveSound(a) == a.received \subseteq events /\ StoreSound(a.store, a.received)

Core ==
  /\ CoreTypes
  /\ StampsNameOneValue
  /\ \A e \in events : e.ctr <= counter[e.dev]
  /\ \A d \in Devices :
       /\ received[d] \subseteq events
       /\ \A e \in received[d] : e.ctr <= counter[d]
       /\ StoreSound(store[d], received[d])
  /\ \A f \in Files : archives[f] # None => ArchiveSound(archives[f])

-----------------------------------------------------------------------------
\* Keys, counters and registers

LEMMA KeyFacts ==
  /\ \A f \in Folders : Name(f) \in Keys /\ Deleted(f) \in Keys
  /\ \A b \in Books : Place(b) \in Keys /\ Favorite(b) \in Keys
  /\ \A f \in Folders : ValuesOf(Name(f)) = Names /\ ValuesOf(Deleted(f)) = {TRUE}
  /\ \A b \in Books :
       ValuesOf(Place(b)) = Folders \cup {Root} /\ ValuesOf(Favorite(b)) = BOOLEAN
  /\ \A k \in Keys : ValuesOf(k) \subseteq Vals
<1>1. \A f \in Folders : Name(f) \in Keys /\ Deleted(f) \in Keys
  BY DEF Keys, Name, Deleted
<1>2. \A b \in Books : Place(b) \in Keys /\ Favorite(b) \in Keys
  BY DEF Keys, Place, Favorite
<1>3. \A f \in Folders : ValuesOf(Name(f)) = Names /\ ValuesOf(Deleted(f)) = {TRUE}
  BY DEF ValuesOf, Name, Deleted
<1>4. \A b \in Books :
        ValuesOf(Place(b)) = Folders \cup {Root} /\ ValuesOf(Favorite(b)) = BOOLEAN
  BY DEF ValuesOf, Place, Favorite
<1>5. \A k \in Keys : ValuesOf(k) \subseteq Vals
  <2> SUFFICES ASSUME NEW k \in Keys PROVE ValuesOf(k) \subseteq Vals
    OBVIOUS
  <2>1. k.field \in {"name", "deleted", "favorite", "folderId"}
    BY DEF Keys
  <2> QED
    BY <2>1 DEF ValuesOf, Vals
<1> QED
  BY <1>1, <1>2, <1>3, <1>4, <1>5

LEMMA KeysDiffer ==
  /\ \A f, g : Name(f) # Deleted(g)
  /\ \A f, b : /\ Name(f) # Place(b) /\ Name(f) # Favorite(b)
               /\ Deleted(f) # Place(b) /\ Deleted(f) # Favorite(b)
  /\ \A b, c : Place(b) # Favorite(c)
  /\ \A b, c : Place(b) = Place(c) => b = c
BY DEF Name, Deleted, Place, Favorite

\* A set of counters has a maximum.
LEMMA MaximumBounds ==
  ASSUME NEW S \in SUBSET Counters, S # {}
  PROVE  MaximumOf(S) \in S /\ \A i \in S : i <= MaximumOf(S)
<1> DEFINE R == {ss \in Nat \X Nat : ss[1] < ss[2]}
           T == {n \in Nat : \A i \in S : i <= n}
<1>1. MaxCounter \in T
  BY CounterAssumption DEF Counters
<1>2. T \subseteq Nat /\ T # {}
  BY <1>1
<1>3. IsWellFoundedOn(R, Nat)
  BY NatLessThanWellFounded, Zenon DEF OpToRel
<1>4. PICK n \in T : \A m \in T : ~(<<m, n>> \in R)
  <2> HIDE DEF T, R
  <2> QED
    BY <1>2, <1>3, WFMin
<1>5. n \in S
  <2> SUFFICES ASSUME n \notin S PROVE FALSE
    OBVIOUS
  <2>1. \A i \in S : i \in Nat /\ i < n
    BY <1>4 DEF Counters
  <2>2. n - 1 \in T /\ <<n - 1, n>> \in R
    BY <2>1
  <2> QED
    BY <1>4, <2>2
<1>6. n \in S /\ \A i \in S : i <= n
  BY <1>4, <1>5
<1> QED
  BY <1>6 DEF MaximumOf

\* What is in a store is an event, and no later than the clock.
LEMMA StoreFacts ==
  ASSUME Core, NEW d \in Devices
  PROVE  /\ counter[d] \in Nat /\ counter[d] <= MaxCounter
         /\ \A k \in Keys :
              /\ store[d][k] \in Registers \cup {None}
              /\ store[d][k] # None =>
                   /\ store[d][k].ctr \in Counters /\ store[d][k].ctr <= counter[d]
                   /\ store[d][k] \in Registers
<1>1. counter[d] \in Counters
  BY DEF Core, CoreTypes
<1>2. ASSUME NEW k \in Keys, store[d][k] # None
      PROVE  store[d][k].ctr \in Counters /\ store[d][k].ctr <= counter[d]
  <2>1. store[d][k] \in Registers
    BY <1>2 DEF Core, CoreTypes, Stores
  <2>2. PICK e \in received[d] : SameStamp(e, store[d][k])
    BY <1>2 DEF Core, StoreSound, Tops
  <2>3. e.ctr <= counter[d] /\ store[d][k].ctr = e.ctr
    BY <2>2 DEF Core, SameStamp
  <2>4. store[d][k].ctr \in Nat
    BY <2>1 DEF Registers
  <2> QED
    BY <1>1, <2>3, <2>4, CounterAssumption DEF Counters
<1>3. \A k \in Keys : store[d][k] \in Registers \cup {None}
  BY DEF Core, CoreTypes, Stores
<1> QED
  BY <1>1, <1>2, <1>3, CounterAssumption DEF Counters

\* A new write is later than all that the device has used or observed.
LEMMA NextCounterAbove ==
  ASSUME Core, NEW d \in Devices
  PROVE  NextCounter(d) \in Nat /\ NextCounter(d) > counter[d]
<1>1. Observed(d) \in SUBSET Counters /\ counter[d] \in Observed(d)
  BY StoreFacts, CounterAssumption DEF Observed, Counters
<1>2. MaximumOf(Observed(d)) \in Counters /\ counter[d] <= MaximumOf(Observed(d))
  <2> HIDE DEF Observed
  <2> QED
    BY <1>1, MaximumBounds
<1>3. counter[d] \in Counters
  BY DEF Core, CoreTypes
<1> QED
  BY <1>2, <1>3 DEF NextCounter, Counters

\* The new writes N of a device, each of another key and all above its clock.
Fresh(N, d, n) ==
  /\ N \subseteq Writes
  /\ \A e \in N : /\ e.dev = d /\ counter[d] < e.ctr /\ e.ctr <= n
                  /\ e.val \in ValuesOf(e.key)
  /\ \A x, y \in N : x.key = y.key => x = y
  /\ n \in Counters /\ counter[d] <= n

\* The store T has the new writes N and is otherwise that of d.
Takes(T, N, d) ==
  /\ T \in Stores
  /\ \A e \in N : T[e.key] = Stamped(e.val, e.ctr, e.dev)
  /\ \A k \in Keys : (\A e \in N : e.key # k) => T[k] = store[d][k]

\* Writing keeps the store sound when the folders it files books in are known.
LEMMA TakesSound ==
  ASSUME Core, NEW d \in Devices, NEW n, NEW N, NEW T,
         Fresh(N, d, n), Takes(T, N, d), Filed(T)
  PROVE  StoreSound(T, received[d] \cup N)
<1>1. ASSUME NEW k \in Keys PROVE /\ Tops(T[k], received[d] \cup N, k)
                                  /\ T[k] # None => T[k].val \in ValuesOf(k)
  <2>1. CASE \E e \in N : e.key = k
    <3>1. PICK e \in N : e.key = k
      BY <2>1
    <3>2. T[k] = Stamped(e.val, e.ctr, e.dev) /\ e \in Writes
      BY <3>1 DEF Takes, Fresh
    <3>3. T[k] # None /\ SameStamp(e, T[k]) /\ T[k].val = e.val /\ T[k].ctr = e.ctr
      <4>1. Stamped(e.val, e.ctr, e.dev) \in Registers
        BY <3>2 DEF Stamped, Registers, Writes
      <4> QED
        BY <3>2, <4>1, NoneAssumption DEF SameStamp, Stamped
    <3>4. \A x \in received[d] : x.key = k => StampBelow(x, T[k])
      <4>1. counter[d] \in Nat /\ e.ctr \in Nat /\ counter[d] < e.ctr
        BY <3>2, StoreFacts DEF Fresh, Writes
      <4>2. \A x \in received[d] : x.ctr \in Nat /\ x.ctr <= counter[d]
        BY DEF Core, CoreTypes, Writes
      <4> QED
        BY <3>3, <4>1, <4>2 DEF StampBelow
    <3>5. \A x \in N : x.key = k => SameStamp(x, T[k])
      BY <3>1, <3>3 DEF Fresh
    <3>6. e.val \in ValuesOf(k)
      BY <3>1 DEF Fresh
    <3> QED
      BY <3>1, <3>3, <3>4, <3>5, <3>6 DEF Tops
  <2>2. CASE ~\E e \in N : e.key = k
    <3>1. T[k] = store[d][k]
      BY <2>2 DEF Takes
    <3>2. /\ Tops(store[d][k], received[d], k)
          /\ store[d][k] # None => store[d][k].val \in ValuesOf(k)
      BY DEF Core, StoreSound
    <3> QED
      BY <2>2, <3>1, <3>2 DEF Tops
  <2> QED
    BY <2>1, <2>2
<1> QED
  BY <1>1 DEF StoreSound

\* A step that writes N on the device d.
Writing(d, N, n, T) ==
  /\ counter' = [counter EXCEPT ![d] = n]
  /\ store' = [store EXCEPT ![d] = T]
  /\ events' = events \cup N
  /\ received' = [received EXCEPT ![d] = received[d] \cup N]
  /\ archives' = archives

LEMMA WritingKeepsCore ==
  ASSUME Core, NEW d \in Devices, NEW n, NEW N, NEW T,
         Fresh(N, d, n), Takes(T, N, d), Filed(T), Writing(d, N, n, T)
  PROVE  Core'
<1>1. CoreTypes'
  <2>1. T \in Stores /\ n \in Counters /\ N \subseteq Writes
    BY DEF Takes, Fresh
  <2> QED
    BY <2>1 DEF Core, CoreTypes, Writing
<1>2. \A k \in Devices : counter'[k] \in Nat /\ counter[k] \in Nat /\ counter[k] <= counter'[k]
  BY <1>1 DEF Core, CoreTypes, Writing, Fresh, Counters
<1>3. StampsNameOneValue'
  <2> SUFFICES ASSUME NEW x \in events', NEW y \in events', x.key = y.key, SameStamp(x, y)
               PROVE  x.val = y.val
    BY DEF StampsNameOneValue
  <2>1. \A e \in events : e.ctr \in Nat /\ e.ctr <= counter[e.dev]
    BY DEF Core, CoreTypes, Writes
  <2>2. \A e \in N : e.ctr \in Nat /\ counter[d] < e.ctr /\ e.dev = d
    BY DEF Fresh, Writes
  <2>3. (x \in events /\ y \in events) \/ (x \in N /\ y \in N)
    BY <1>2, <2>1, <2>2 DEF Writing, SameStamp
  <2> QED
    BY <2>3 DEF Core, StampsNameOneValue, Fresh
<1>4. \A e \in events' : e.ctr <= counter'[e.dev]
  <2>1. \A e \in events : e.ctr \in Nat /\ e.ctr <= counter[e.dev] /\ e.dev \in Devices
    BY DEF Core, CoreTypes, Writes
  <2>2. \A e \in N : e.ctr <= n /\ e.dev = d
    BY DEF Fresh
  <2>3. counter'[d] = n
    BY DEF Writing, Core, CoreTypes
  <2> QED
    BY <1>2, <2>1, <2>2, <2>3 DEF Writing
<1>5. ASSUME NEW k \in Devices
      PROVE  /\ received'[k] \subseteq events'
             /\ \A e \in received'[k] : e.ctr <= counter'[k]
             /\ StoreSound(store'[k], received'[k])
  <2>1. CASE k = d
    <3>1. store'[d] = T /\ received'[d] = received[d] \cup N /\ counter'[d] = n
      BY DEF Writing, Core, CoreTypes
    <3>2. \A e \in received[d] : e.ctr \in Nat /\ e.ctr <= counter[d]
      BY DEF Core, CoreTypes, Writes
    <3>3. \A e \in N : e.ctr <= n
      BY DEF Fresh
    <3>4. received[d] \subseteq events
      BY DEF Core
    <3>5. StoreSound(T, received[d] \cup N)
      BY TakesSound
    <3>6. events' = events \cup N
      BY DEF Writing
    <3>7. received'[d] \subseteq events'
      BY <3>1, <3>4, <3>6
    <3>8. \A e \in received'[d] : e.ctr <= counter'[d]
      BY <1>2, <3>1, <3>2, <3>3
    <3> QED
      BY <2>1, <3>1, <3>5, <3>7, <3>8
  <2>2. CASE k # d
    <3>1. store'[k] = store[k] /\ received'[k] = received[k] /\ counter'[k] = counter[k]
      BY <2>2 DEF Writing, Core, CoreTypes
    <3> QED
      BY <3>1 DEF Core, Writing
  <2> QED
    BY <2>1, <2>2
<1>6. \A f \in Files : archives'[f] # None => ArchiveSound(archives[f])'
  BY DEF Core, Writing, ArchiveSound
<1> QED
  BY <1>1, <1>3, <1>4, <1>5, <1>6 DEF Core

-----------------------------------------------------------------------------
\* Commands and batches

\* Folders stay known when the new places are in known folders.
LEMMA FiledAfter ==
  ASSUME NEW S, NEW R, NEW T, StoreSound(S, R),
         \A f \in Folders : S[Name(f)] # None => T[Name(f)] # None,
         \A b \in Books : \/ T[Place(b)] = S[Place(b)]
                          \/ T[Place(b)] = None
                          \/ T[Place(b)].val = Root
                          \/ T[Name(T[Place(b)].val)] # None
  PROVE  Filed(T)
<1> SUFFICES ASSUME NEW b \in Books, T[Place(b)] # None, T[Place(b)].val # Root
             PROVE  T[Name(T[Place(b)].val)] # None
  BY DEF Filed
<1>1. CASE T[Place(b)] = S[Place(b)]
  <2>1. S[Place(b)].val \in Folders /\ S[Name(S[Place(b)].val)] # None
    BY <1>1, KeyFacts DEF StoreSound, Filed
  <2> QED
    BY <1>1, <2>1
<1> QED
  BY <1>1

LEMMA WritesOfFacts ==
  ASSUME NEW d \in Devices, NEW changes, NEW n \in Nat, DOMAIN changes \subseteq Keys,
         \A k \in DOMAIN changes : changes[k] \in ValuesOf(k)
  PROVE  /\ \A e \in WritesOf(d, changes, n) :
              /\ e.key \in DOMAIN changes /\ e.val = changes[e.key]
              /\ e.ctr = n /\ e.dev = d /\ e \in Writes
         /\ \A k \in DOMAIN changes : \E e \in WritesOf(d, changes, n) : e.key = k
<1>1. \A e \in WritesOf(d, changes, n) :
        /\ e.key \in DOMAIN changes /\ e.val = changes[e.key]
        /\ e.ctr = n /\ e.dev = d /\ e \in Writes
  BY KeyFacts DEF WritesOf, Writes
<1>2. ASSUME NEW k \in DOMAIN changes PROVE \E e \in WritesOf(d, changes, n) : e.key = k
  <2>1. [key |-> k, val |-> changes[k], ctr |-> n, dev |-> d] \in WritesOf(d, changes, n)
    BY DEF WritesOf
  <2> QED
    BY <2>1
<1> QED
  BY <1>1, <1>2

\* A write of these values under one stamp.
LEMMA WriteKeepsCore ==
  ASSUME Core, NEW d \in Devices, NEW changes, NEW n, n = NextCounter(d),
         Write(d, changes, n), archives' = archives,
         DOMAIN changes \subseteq Keys,
         \A k \in DOMAIN changes : changes[k] \in ValuesOf(k),
         Filed(store'[d])
  PROVE  /\ Core'
         /\ \A k \in DOMAIN changes : store'[d][k] = Stamped(changes[k], n, d)
         /\ \A k \in Keys \ DOMAIN changes : store'[d][k] = store[d][k]
<1> DEFINE N == WritesOf(d, changes, n)
           T == Written(d, changes, n)
<1>1. n \in Counters /\ counter[d] < n /\ counter[d] <= n /\ n \in Nat
  BY NextCounterAbove, StoreFacts DEF Write, Counters
<1>2. /\ store' = [store EXCEPT ![d] = T] /\ counter' = [counter EXCEPT ![d] = n]
      /\ events' = events \cup N /\ received' = [received EXCEPT ![d] = received[d] \cup N]
  BY DEF Write
<1>3. \A e \in N : /\ e.key \in DOMAIN changes /\ e.val = changes[e.key]
                   /\ e.ctr = n /\ e.dev = d /\ e \in Writes
  BY <1>1, WritesOfFacts
<1>4. \A x, y \in N : x.key = y.key => x = y
  BY DEF WritesOf
<1>5. Fresh(N, d, n)
  BY <1>1, <1>3, <1>4 DEF Fresh
<1>6. /\ \A k \in DOMAIN changes : T[k] = Stamped(changes[k], n, d)
      /\ \A k \in Keys \ DOMAIN changes : T[k] = store[d][k]
  BY DEF Written
<1>7. T \in Stores
  <2>1. \A k \in Keys : T[k] \in Registers \cup {None}
    <3> SUFFICES ASSUME NEW k \in Keys PROVE T[k] \in Registers \cup {None}
      OBVIOUS
    <3>1. CASE k \in DOMAIN changes
      <4>1. changes[k] \in Vals /\ T[k] = Stamped(changes[k], n, d)
        BY <1>6, <3>1, KeyFacts
      <4>2. Stamped(changes[k], n, d) \in Registers
        BY <1>1, <4>1 DEF Stamped, Registers
      <4> QED
        BY <4>1, <4>2
    <3>2. CASE k \notin DOMAIN changes
      BY <1>6, <3>2, StoreFacts
    <3> QED
      BY <3>1, <3>2
  <2> QED
    BY <2>1 DEF Stores, Written
<1>8. \A k \in DOMAIN changes : \E e \in N : e.key = k
  BY <1>1, WritesOfFacts
<1>9. Takes(T, N, d)
  <2>1. \A e \in N : T[e.key] = Stamped(e.val, e.ctr, e.dev)
    BY <1>3, <1>6
  <2>2. \A k \in Keys : (\A e \in N : e.key # k) => T[k] = store[d][k]
    BY <1>6, <1>8
  <2> QED
    BY <1>7, <2>1, <2>2 DEF Takes
<1>10. store'[d] = T
  BY <1>2 DEF Core, CoreTypes
<1>11. Writing(d, N, n, T)
  BY <1>2 DEF Writing
<1> HIDE DEF N, T
<1>12. Core'
  BY <1>5, <1>9, <1>10, <1>11, WritingKeepsCore
<1> QED
  BY <1>6, <1>10, <1>12

\* A command on other registers than places.
LEMMA PlacelessCommand ==
  ASSUME Core, NEW d \in Devices, NEW changes, Command(d, changes),
         DOMAIN changes \subseteq Keys,
         \A k \in DOMAIN changes : changes[k] \in ValuesOf(k),
         \A b \in Books : Place(b) \notin DOMAIN changes
  PROVE  /\ Core'
         /\ \A k \in DOMAIN changes : store'[d][k] = Stamped(changes[k], NextCounter(d), d)
         /\ \A k \in Keys \ DOMAIN changes : store'[d][k] = store[d][k]
<1> DEFINE n == NextCounter(d)
<1>1. Write(d, changes, n) /\ archives' = archives
  BY DEF Command
<1>2. store'[d] = Written(d, changes, n)
  BY <1>1 DEF Write, Core, CoreTypes
<1>3. \A k \in Keys : store'[d][k] = store[d][k] \/ store'[d][k] # None
  <2> SUFFICES ASSUME NEW k \in Keys, store'[d][k] # store[d][k] PROVE store'[d][k] # None
    OBVIOUS
  <2>1. k \in DOMAIN changes /\ store'[d][k] = Stamped(changes[k], n, d)
    BY <1>2 DEF Written
  <2>2. store'[d][k] \in Registers
    BY <2>1, NextCounterAbove, KeyFacts DEF Stamped, Registers
  <2> QED
    BY <2>2, NoneAssumption
<1>4. \A b \in Books : store'[d][Place(b)] = store[d][Place(b)]
  BY <1>2, KeyFacts DEF Written
<1>5. Filed(store'[d])
  <2>1. StoreSound(store[d], received[d])
    BY DEF Core
  <2>2. \A f \in Folders : store[d][Name(f)] # None => store'[d][Name(f)] # None
    BY <1>3, KeyFacts
  <2> QED
    BY <1>4, <2>1, <2>2, FiledAfter
<1> HIDE DEF n
<1> QED
  BY <1>1, <1>5, WriteKeepsCore DEF n

\* A move of books into one known folder, or to the root.
LEMMA MoveKeepsCore ==
  ASSUME Core, NEW d \in Devices, NEW S \in SUBSET Books, NEW f \in Folders \cup {Root},
         f # Root => Live(store[d], f),
         Write(d, [k \in {Place(b) : b \in S} |-> f], NextCounter(d)), archives' = archives
  PROVE  /\ Core'
         /\ \A b \in S : store'[d][Place(b)] = Stamped(f, NextCounter(d), d)
         /\ \A k \in Keys \ {Place(b) : b \in S} : store'[d][k] = store[d][k]
<1> DEFINE n == NextCounter(d)
           changes == [k \in {Place(b) : b \in S} |-> f]
<1>1. Write(d, changes, n)
  OBVIOUS
<1>2. /\ DOMAIN changes = {Place(b) : b \in S} /\ DOMAIN changes \subseteq Keys
      /\ \A k \in DOMAIN changes : changes[k] = f /\ changes[k] \in ValuesOf(k)
  BY KeyFacts
<1>3. store'[d] = Written(d, changes, n)
  BY <1>1 DEF Write, Core, CoreTypes
<1> HIDE DEF changes
<1>4. /\ \A k \in Keys \ DOMAIN changes : store'[d][k] = store[d][k]
      /\ \A b \in S : store'[d][Place(b)] = Stamped(f, n, d)
  BY <1>2, <1>3, KeyFacts DEF Written
<1>5. Filed(store'[d])
  <2>1. StoreSound(store[d], received[d])
    BY DEF Core
  <2>2. \A g \in Folders : Name(g) \in Keys \ DOMAIN changes
    BY <1>2, KeyFacts, KeysDiffer
  <2>3. \A g \in Folders : store'[d][Name(g)] = store[d][Name(g)]
    BY <1>4, <2>2
  <2>4. ASSUME NEW b \in Books
        PROVE  \/ store'[d][Place(b)] = store[d][Place(b)]
               \/ store'[d][Place(b)].val = Root
               \/ store'[d][Name(store'[d][Place(b)].val)] # None
    <3>1. CASE b \in S
      <4>1. store'[d][Place(b)].val = f
        BY <1>4, <3>1 DEF Stamped
      <4> QED
        BY <2>3, <4>1 DEF Live
    <3>2. CASE b \notin S
      <4>1. Place(b) \in Keys \ DOMAIN changes
        BY <1>2, <3>2, KeyFacts, KeysDiffer
      <4> QED
        BY <1>4, <4>1
    <3> QED
      BY <3>1, <3>2
  <2> QED
    BY <2>1, <2>3, <2>4, FiledAfter
<1> HIDE DEF n
<1>6. Core'
  BY <1>1, <1>2, <1>5, WriteKeepsCore DEF n
<1> QED
  BY <1>2, <1>4, <1>6 DEF n

\* A batch that moves books: the folder is known afterwards, and alive.
LEMMA BatchKeepsCore ==
  ASSUME Core, NEW d \in Devices, NEW name \in Names, job[d] \in Jobs,
         CommitBatch(d, name), Moved(d) # {}
  PROVE  /\ Core'
         /\ \A b \in Moved(d) : /\ store'[d][Place(b)] \in Registers
                                /\ store'[d][Place(b)].val = job[d].target
                                /\ counter[d] < store'[d][Place(b)].ctr
         /\ \A b \in Books \ Moved(d) : store'[d][Place(b)] = store[d][Place(b)]
         /\ \A g \in Folders : store'[d][Deleted(g)] = store[d][Deleted(g)]
         /\ \A g \in Folders : store[d][Name(g)] # None => store'[d][Name(g)] # None
         /\ Live(store'[d], job[d].target)
<1> DEFINE f == job[d].target
           n == NextCounter(d)
           m == IF NeedsFolder(d) THEN n + 1 ELSE n
           P == {Place(b) : b \in Moved(d)}
           places == [k \in P |-> f]
           folder == [k \in {Name(f)} |-> name]
           N == WritesOf(d, places, m)
                  \cup (IF NeedsFolder(d) THEN WritesOf(d, folder, n) ELSE {})
           T == [k \in Keys |->
                   IF k \in P THEN Stamped(f, m, d)
                   ELSE IF NeedsFolder(d) /\ k = Name(f) THEN Stamped(name, n, d)
                   ELSE store[d][k]]
<1>1. /\ m <= MaxCounter /\ counter' = [counter EXCEPT ![d] = m]
      /\ store' = [store EXCEPT ![d] = T] /\ events' = events \cup N
      /\ received' = [received EXCEPT ![d] = received[d] \cup N] /\ archives' = archives
  BY DEF CommitBatch, Committed
<1>2. f \in Folders /\ Moved(d) \subseteq Books
  BY DEF Jobs, Moved, Items
<1>3. P \subseteq Keys /\ Name(f) \in Keys /\ Name(f) \notin P
  BY <1>2, KeyFacts, KeysDiffer
<1>4. n \in Nat /\ counter[d] < n /\ m \in Counters /\ n \in Counters /\ n <= m
      /\ counter[d] <= m /\ counter[d] < m
  <2>1. n \in Nat /\ counter[d] < n /\ counter[d] \in Nat
    BY NextCounterAbove, StoreFacts
  <2> HIDE DEF n
  <2> QED
    BY <1>1, <2>1, CounterAssumption DEF Counters
<1> HIDE DEF n, m
<1>5. \A e \in N : /\ e \in Writes /\ e.dev = d /\ e.val \in ValuesOf(e.key)
                   /\ \/ e.key \in P /\ e.val = f /\ e.ctr = m
                      \/ NeedsFolder(d) /\ e.key = Name(f) /\ e.val = name /\ e.ctr = n
  <2>1. \A e \in WritesOf(d, places, m) :
          /\ e.key \in P /\ e.val = f /\ e.ctr = m /\ e.dev = d
          /\ e \in Writes /\ e.val \in ValuesOf(e.key)
    <3>1. \A k \in P : f \in ValuesOf(k)
      BY <1>2, KeyFacts
    <3> HIDE DEF P, f
    <3>2. DOMAIN places = P /\ \A k \in P : places[k] = f
      OBVIOUS
    <3> HIDE DEF places
    <3> QED
      BY <1>3, <1>4, <3>1, <3>2, WritesOfFacts DEF Counters
  <2>2. \A e \in WritesOf(d, folder, n) :
          /\ e.key = Name(f) /\ e.val = name /\ e.ctr = n /\ e.dev = d
          /\ e \in Writes /\ e.val \in ValuesOf(e.key)
    <3>1. /\ name \in ValuesOf(Name(f))
          /\ DOMAIN folder = {Name(f)} /\ folder[Name(f)] = name
      BY <1>2, KeyFacts
    <3> HIDE DEF folder, f
    <3> QED
      BY <1>3, <1>4, <3>1, WritesOfFacts
  <2> QED
    BY <2>1, <2>2
<1>6. \A x, y \in N : x.key = y.key => x = y
  <2> HIDE DEF N, P, f
  <2>1. \A x, y \in N : x.key = y.key => x.val = y.val /\ x.ctr = y.ctr /\ x.dev = y.dev
    BY <1>3, <1>5
  <2> QED
    BY <1>5, <2>1 DEF Writes
<1>7. /\ \A k \in P : \E e \in N : e.key = k
      /\ NeedsFolder(d) => \E e \in N : e.key = Name(f)
  <2>1. ASSUME NEW k \in P PROVE \E e \in N : e.key = k
    <3>1. [key |-> k, val |-> places[k], ctr |-> m, dev |-> d] \in WritesOf(d, places, m)
      <4> HIDE DEF P
      <4> QED
        BY DEF WritesOf
    <3>2. [key |-> k, val |-> places[k], ctr |-> m, dev |-> d] \in N
      BY <3>1
    <3> HIDE DEF N, places
    <3> QED
      BY <3>2
  <2>2. NeedsFolder(d) => \E e \in N : e.key = Name(f)
    <3>1. [key |-> Name(f), val |-> folder[Name(f)], ctr |-> n, dev |-> d]
            \in WritesOf(d, folder, n)
      BY DEF WritesOf
    <3> QED
      BY <3>1
  <2> QED
    BY <2>1, <2>2
<1> HIDE DEF N
<1>8. Fresh(N, d, m)
  <2>1. counter[d] \in Nat
    BY StoreFacts
  <2>2. \A e \in N : counter[d] < e.ctr /\ e.ctr <= m
    BY <1>4, <1>5, <2>1 DEF Counters
  <2> QED
    BY <1>4, <1>5, <1>6, <2>2 DEF Fresh
<1>9. /\ \A k \in P : T[k] = Stamped(f, m, d)
      /\ NeedsFolder(d) => T[Name(f)] = Stamped(name, n, d)
      /\ \A k \in Keys \ P : ~(NeedsFolder(d) /\ k = Name(f)) => T[k] = store[d][k]
  BY <1>3
<1>10. Stamped(f, m, d) \in Registers /\ Stamped(name, n, d) \in Registers
  BY <1>2, <1>4 DEF Stamped, Registers, Vals, Counters
<1>11. T \in Stores
  <2>1. \A k \in Keys : T[k] \in Registers \cup {None}
    BY <1>9, <1>10, StoreFacts
  <2> QED
    BY <2>1 DEF Stores
<1>12. store'[d] = T
  BY <1>1 DEF Core, CoreTypes
<1> HIDE DEF T
<1>13. Takes(T, N, d)
  <2>1. \A e \in N : T[e.key] = Stamped(e.val, e.ctr, e.dev)
    BY <1>3, <1>5, <1>9
  <2>2. \A k \in Keys : (\A e \in N : e.key # k) => T[k] = store[d][k]
    BY <1>7, <1>9
  <2> QED
    BY <1>11, <2>1, <2>2 DEF Takes
<1>14. \A g \in Folders : /\ T[Deleted(g)] = store[d][Deleted(g)]
                          /\ store[d][Name(g)] # None => T[Name(g)] # None
  <2>1. \A g \in Folders : /\ Deleted(g) \in Keys \ P /\ Deleted(g) # Name(f)
                           /\ Name(g) \in Keys \ P
    BY <1>2, KeyFacts, KeysDiffer
  <2> QED
    BY <1>9, <1>10, <2>1, NoneAssumption
<1>15. TargetAlive(d)
  BY DEF Moved
<1>16. Live(T, f)
  <2>1. CASE NeedsFolder(d)
    BY <1>2, <1>9, <1>10, <1>14, <1>15, <2>1, NoneAssumption DEF NeedsFolder, TargetAlive, Live
  <2>2. CASE ~NeedsFolder(d)
    BY <1>2, <1>14, <1>15, <2>2 DEF NeedsFolder, TargetAlive, Live
  <2> QED
    BY <2>1, <2>2
<1>17. /\ \A b \in Moved(d) : T[Place(b)] = Stamped(f, m, d)
       /\ \A b \in Books \ Moved(d) : T[Place(b)] = store[d][Place(b)]
  <2>1. \A b \in Books \ Moved(d) : Place(b) \in Keys \ P /\ Place(b) # Name(f)
    BY <1>2, KeyFacts, KeysDiffer
  <2> QED
    BY <1>9, <2>1
<1>18. Filed(T)
  <2>1. StoreSound(store[d], received[d])
    BY DEF Core
  <2>2. \A b \in Moved(d) : T[Name(T[Place(b)].val)] # None
    BY <1>16, <1>17 DEF Live, Stamped
  <2> QED
    BY <1>14, <1>17, <2>1, <2>2, FiledAfter
<1>19. Writing(d, N, m, T)
  BY <1>1 DEF Writing
<1>20. Core'
  BY <1>8, <1>13, <1>18, <1>19, WritingKeepsCore
<1>21. Stamped(f, m, d).val = f /\ Stamped(f, m, d).ctr = m
  BY DEF Stamped
<1> HIDE DEF f
<1> QED
  BY <1>4, <1>10, <1>12, <1>14, <1>16, <1>17, <1>20, <1>21 DEF f

-----------------------------------------------------------------------------
\* Archives and removals

\* The registers of one key of two devices, with the writes behind them.
Mergeable(r, R, s, Q, k) ==
  /\ Tops(r, R, k) /\ Tops(s, Q, k) /\ ~Collides(r, s)
  /\ r \in Registers \cup {None} /\ s \in Registers \cup {None}
  /\ R \subseteq Writes /\ Q \subseteq Writes

LEMMA MergedTops ==
  ASSUME NEW k \in Keys, NEW r, NEW s, NEW R, NEW Q, Mergeable(r, R, s, Q, k)
  PROVE  /\ Tops(MergeRegister(r, s), R \cup Q, k)
         /\ MergeRegister(r, s) = r \/ (s # None /\ MergeRegister(r, s) = s)
         /\ r # None => MergeRegister(r, s) # None
         /\ s # None => MergeRegister(r, s) # None
         /\ MergeRegister(r, s) # r =>
              MergeRegister(r, s) # None /\ (r = None \/ StampBelow(r, MergeRegister(r, s)))
<1>0. /\ Tops(r, R, k) /\ Tops(s, Q, k)
      /\ r \in Registers \cup {None} /\ s \in Registers \cup {None}
      /\ R \subseteq Writes /\ Q \subseteq Writes
  BY DEF Mergeable
<1>1. CASE r = None \/ s = None
  BY <1>0, <1>1 DEF MergeRegister, Tops
<1>2. CASE r # None /\ s # None
  <2>1. r.ctr \in Nat /\ r.dev \in Nat /\ s.ctr \in Nat /\ s.dev \in Nat
    BY <1>0, <1>2, DevicesAssumption DEF Registers
  <2>2. \A e \in R \cup Q : e.ctr \in Nat /\ e.dev \in Nat
    BY <1>0, DevicesAssumption DEF Writes
  <2>3. CASE StampBelow(r, s)
    <3>1. MergeRegister(r, s) = s
      BY <1>0, <1>2, <2>3 DEF MergeRegister
    <3>2. \A e \in R : e.key = k => SameStamp(e, s) \/ StampBelow(e, s)
      BY <1>0, <1>2, <2>1, <2>2, <2>3 DEF Tops, SameStamp, StampBelow
    <3> QED
      BY <1>0, <1>2, <2>3, <3>1, <3>2 DEF Tops
  <2>4. CASE ~StampBelow(r, s)
    <3>1. MergeRegister(r, s) = r
      BY <1>0, <1>2, <2>4 DEF MergeRegister
    <3>2. SameStamp(s, r) \/ StampBelow(s, r)
      BY <2>1, <2>4 DEF SameStamp, StampBelow
    <3>3. \A e \in Q : e.key = k => SameStamp(e, r) \/ StampBelow(e, r)
      BY <1>0, <1>2, <2>1, <2>2, <3>2 DEF Tops, SameStamp, StampBelow
    <3> QED
      BY <1>0, <1>2, <3>1, <3>3 DEF Tops
  <2> QED
    BY <2>3, <2>4
<1> QED
  BY <1>1, <1>2

LEMMA MergeKeepsCore ==
  ASSUME Core, NEW d \in Devices, NEW f \in Files, MergeArchive(d, f)
  PROVE  /\ Core'
         /\ \A k \in Keys :
              store'[d][k] # store[d][k] =>
                store'[d][k] # None
                  /\ (store[d][k] = None \/ StampBelow(store[d][k], store'[d][k]))
<1> DEFINE a == archives[f]
           S == store[d]
           M == MergeOrganization(S, a.store)
           C == {counter[d]} \cup {M[k].ctr : k \in {k \in Keys : M[k] # None}}
           R == received[d] \cup a.received
<1>1. /\ a # None /\ \A k \in Keys : ~Collides(S[k], a.store[k])
      /\ store' = [store EXCEPT ![d] = M] /\ counter' = [counter EXCEPT ![d] = MaximumOf(C)]
      /\ received' = [received EXCEPT ![d] = R]
      /\ archives' = archives /\ events' = events
  BY DEF MergeArchive
<1>2. a \in Archives /\ ArchiveSound(a)
  BY <1>1 DEF Core, CoreTypes
<1>3. /\ a.store \in Stores /\ a.received \in SUBSET Writes /\ S \in Stores
      /\ received[d] \in SUBSET Writes /\ a.received \subseteq events
      /\ received[d] \subseteq events
  BY <1>2 DEF Core, CoreTypes, Archives, ArchiveSound
<1>4. StoreSound(S, received[d]) /\ StoreSound(a.store, a.received)
  BY <1>2 DEF Core, ArchiveSound
<1>5. ASSUME NEW k \in Keys
      PROVE  /\ M[k] = MergeRegister(S[k], a.store[k])
             /\ Tops(M[k], R, k)
             /\ M[k] = S[k] \/ (a.store[k] # None /\ M[k] = a.store[k])
             /\ S[k] # None => M[k] # None
             /\ a.store[k] # None => M[k] # None
             /\ M[k] # S[k] => M[k] # None /\ (S[k] = None \/ StampBelow(S[k], M[k]))
  <2>1. M[k] = MergeRegister(S[k], a.store[k])
    BY DEF MergeOrganization
  <2>2. S[k] \in Registers \cup {None} /\ a.store[k] \in Registers \cup {None}
    BY <1>3 DEF Stores
  <2>3. Tops(S[k], received[d], k) /\ Tops(a.store[k], a.received, k)
    BY <1>4 DEF StoreSound
  <2> DEFINE r == S[k]
             s == a.store[k]
             G == MergeRegister(r, s)
  <2>4. ~Collides(r, s)
    BY <1>1
  <2> HIDE DEF r, s
  <2>5. /\ Tops(G, received[d] \cup a.received, k)
        /\ G = r \/ (s # None /\ G = s)
        /\ r # None => G # None
        /\ s # None => G # None
        /\ G # r => G # None /\ (r = None \/ StampBelow(r, G))
    <3>1. Tops(r, received[d], k) /\ Tops(s, a.received, k)
      BY <2>3 DEF r, s
    <3>2. r \in Registers \cup {None} /\ s \in Registers \cup {None}
      BY <2>2 DEF r, s
    <3>3. Mergeable(r, received[d], s, a.received, k)
      BY <1>3, <2>4, <3>1, <3>2 DEF Mergeable
    <3> QED
      BY <3>3, MergedTops
  <2>6. M[k] = G /\ S[k] = r /\ a.store[k] = s
    BY <2>1 DEF r, s
  <2>7. G = MergeRegister(S[k], a.store[k])
    BY <2>6
  <2> HIDE DEF G, M, S, a
  <2> QED
    BY <2>5, <2>6, <2>7
<1>6. M \in Stores
  <2>1. \A k \in Keys : M[k] \in Registers \cup {None}
    BY <1>3, <1>5 DEF Stores
  <2> QED
    BY <2>1 DEF MergeOrganization, Stores
<1> HIDE DEF M
<1>7. StoreSound(M, R)
  <2>1. \A k \in Keys : M[k] # None => M[k].val \in ValuesOf(k)
    BY <1>4, <1>5 DEF StoreSound
  <2>2. ASSUME NEW b \in Books, M[Place(b)] # None, M[Place(b)].val # Root
        PROVE  M[Name(M[Place(b)].val)] # None
    <3>1. Place(b) \in Keys /\ M[Place(b)].val \in Folders
      BY <2>1, <2>2, KeyFacts
    <3>2. Name(M[Place(b)].val) \in Keys
      BY <3>1, KeyFacts
    <3>3. M[Place(b)] = S[Place(b)] \/ (a.store[Place(b)] # None /\ M[Place(b)] = a.store[Place(b)])
      BY <1>5, <3>1
    <3>4. CASE M[Place(b)] = S[Place(b)]
      BY <1>4, <1>5, <2>2, <3>2, <3>4 DEF StoreSound, Filed
    <3>5. CASE a.store[Place(b)] # None /\ M[Place(b)] = a.store[Place(b)]
      BY <1>4, <1>5, <2>2, <3>2, <3>5 DEF StoreSound, Filed
    <3> QED
      BY <3>3, <3>4, <3>5
  <2> QED
    BY <1>5, <2>1, <2>2 DEF StoreSound, Filed
<1>8. /\ counter[d] \in Counters
      /\ \A e \in R : e.ctr \in Counters
      /\ \A k \in Keys : M[k] # None => M[k].ctr \in Counters
  <2>1. counter[d] \in Counters
    BY DEF Core, CoreTypes
  <2>2. \A e \in events : e.ctr \in Counters
    <3> SUFFICES ASSUME NEW e \in events PROVE e.ctr \in Counters
      OBVIOUS
    <3>1. e.ctr \in Nat /\ e.dev \in Devices /\ e.ctr <= counter[e.dev]
      BY DEF Core, CoreTypes, Writes
    <3>2. counter[e.dev] \in Nat /\ counter[e.dev] <= MaxCounter
      BY <3>1, StoreFacts
    <3> QED
      BY <3>1, <3>2, CounterAssumption DEF Counters
  <2>3. ASSUME NEW k \in Keys, M[k] # None PROVE M[k].ctr \in Counters
    <3>1. PICK e \in R : SameStamp(e, M[k])
      BY <1>5, <2>3 DEF Tops
    <3>2. e \in events /\ M[k].ctr = e.ctr
      BY <1>3, <3>1 DEF SameStamp
    <3> QED
      BY <2>2, <3>2
  <2> QED
    BY <1>3, <2>1, <2>2, <2>3
<1>9. MaximumOf(C) \in C /\ \A i \in C : i <= MaximumOf(C)
  <2>1. C \in SUBSET Counters /\ C # {}
    BY <1>8
  <2> HIDE DEF C
  <2> QED
    BY <2>1, MaximumBounds
<1>10. /\ MaximumOf(C) \in Counters /\ counter[d] <= MaximumOf(C)
       /\ \A k \in Keys : M[k] # None => M[k].ctr <= MaximumOf(C)
  BY <1>8, <1>9
<1> HIDE DEF C
<1>11. \A e \in R : e.ctr <= MaximumOf(C)
  <2> SUFFICES ASSUME NEW e \in R PROVE e.ctr <= MaximumOf(C)
    OBVIOUS
  <2>1. e.key \in Keys
    BY <1>3 DEF Writes
  <2>2. M[e.key] # None /\ (SameStamp(e, M[e.key]) \/ StampBelow(e, M[e.key]))
    BY <1>5, <2>1 DEF Tops
  <2>3. e.ctr \in Counters /\ M[e.key].ctr \in Counters /\ M[e.key].ctr <= MaximumOf(C)
    BY <1>8, <1>10, <2>1, <2>2
  <2> QED
    BY <1>10, <2>2, <2>3 DEF SameStamp, StampBelow, Counters
<1>12. store'[d] = M /\ received'[d] = R /\ counter'[d] = MaximumOf(C)
  BY <1>1 DEF Core, CoreTypes
<1>13. CoreTypes'
  <2>1. R \in SUBSET Writes
    BY <1>3
  <2> HIDE DEF R
  <2> QED
    BY <1>1, <1>6, <1>10, <2>1 DEF Core, CoreTypes
<1>14. \A k \in Devices : counter[k] \in Nat /\ counter'[k] \in Nat /\ counter[k] <= counter'[k]
  BY <1>1, <1>10, <1>13 DEF Core, CoreTypes, Counters
<1>15. ASSUME NEW k \in Devices
       PROVE  /\ received'[k] \subseteq events'
              /\ \A e \in received'[k] : e.ctr <= counter'[k]
              /\ StoreSound(store'[k], received'[k])
  <2>1. CASE k = d
    BY <1>1, <1>3, <1>7, <1>11, <1>12, <2>1
  <2>2. CASE k # d
    <3>1. store'[k] = store[k] /\ received'[k] = received[k] /\ counter'[k] = counter[k]
      BY <1>1, <2>2 DEF Core, CoreTypes
    <3> QED
      BY <1>1, <3>1 DEF Core
  <2> QED
    BY <2>1, <2>2
<1>16. \A e \in events' : e.ctr <= counter'[e.dev]
  <2>1. \A e \in events : e.ctr \in Nat /\ e.ctr <= counter[e.dev] /\ e.dev \in Devices
    BY DEF Core, CoreTypes, Writes
  <2> QED
    BY <1>1, <1>14, <2>1
<1>17. StampsNameOneValue' /\ \A x \in Files : archives'[x] # None => ArchiveSound(archives[x])'
  BY <1>1 DEF Core, StampsNameOneValue, ArchiveSound
<1>18. Core'
  BY <1>13, <1>15, <1>16, <1>17 DEF Core
<1> QED
  BY <1>5, <1>12, <1>18

LEMMA RemoveKeepsCore ==
  ASSUME Core, NEW d \in Devices, NEW b \in Books, RemoveBook(d, b)
  PROVE  /\ Core'
         /\ \A f \in Folders : store'[d][Deleted(f)] = store[d][Deleted(f)]
<1> DEFINE gone == {Place(b), Favorite(b)}
           T == [k \in Keys |-> IF k \in gone THEN None ELSE store[d][k]]
           R == {e \in received[d] : e.key \notin gone}
<1>1. /\ store' = [store EXCEPT ![d][Place(b)] = None, ![d][Favorite(b)] = None]
      /\ received' = [received EXCEPT ![d] = R]
      /\ counter' = counter /\ archives' = archives /\ events' = events
  BY DEF RemoveBook
<1>2. store[d] \in Stores /\ store \in [Devices -> Stores]
  BY DEF Core, CoreTypes
<1>3. T \in Stores
  BY <1>2 DEF Stores
<1>4. store' = [store EXCEPT ![d] = T]
  <2>1. [[store[d] EXCEPT ![Place(b)] = None] EXCEPT ![Favorite(b)] = None] = T
    BY <1>2, KeyFacts DEF Stores
  <2> HIDE DEF T
  <2> QED
    BY <1>1, <1>2, <2>1
<1>5. store'[d] = T /\ received'[d] = R /\ R \subseteq received[d]
  BY <1>1, <1>4 DEF Core, CoreTypes
<1>6. /\ \A k \in Keys \ gone : T[k] = store[d][k]
      /\ \A k \in gone : T[k] = None
  BY KeyFacts
<1>7. /\ \A k \in Keys \ gone : Tops(store[d][k], received[d], k)
      /\ StoreSound(store[d], received[d])
  BY DEF Core, StoreSound
<1> HIDE DEF T
<1>8. StoreSound(T, R)
  <2>1. ASSUME NEW k \in Keys PROVE Tops(T[k], R, k) /\ (T[k] # None => T[k].val \in ValuesOf(k))
    <3>1. CASE k \in gone
      BY <1>6, <3>1 DEF Tops
    <3>2. CASE k \notin gone
      BY <1>6, <1>7, <3>2 DEF Tops, StoreSound
    <3> QED
      BY <3>1, <3>2
  <2>2. \A f \in Folders : Name(f) \in Keys \ gone
    BY KeyFacts, KeysDiffer
  <2>3. Filed(T)
    <3>1. \A f \in Folders : store[d][Name(f)] # None => T[Name(f)] # None
      BY <1>6, <2>2
    <3>2. \A c \in Books : T[Place(c)] = store[d][Place(c)] \/ T[Place(c)] = None
      BY <1>6, KeyFacts
    <3> QED
      BY <1>7, <3>1, <3>2, FiledAfter
  <2> QED
    BY <2>1, <2>3 DEF StoreSound
<1>9. CoreTypes'
  BY <1>1, <1>3, <1>4, <1>5 DEF Core, CoreTypes
<1>10. ASSUME NEW k \in Devices
       PROVE  /\ received'[k] \subseteq events'
              /\ \A e \in received'[k] : e.ctr <= counter'[k]
              /\ StoreSound(store'[k], received'[k])
  <2>1. CASE k = d
    BY <1>1, <1>5, <1>8, <2>1 DEF Core
  <2>2. CASE k # d
    <3>1. store'[k] = store[k] /\ received'[k] = received[k]
      BY <1>1, <1>4, <2>2 DEF Core, CoreTypes
    <3> QED
      BY <1>1, <3>1 DEF Core
  <2> QED
    BY <2>1, <2>2
<1>11. StampsNameOneValue' /\ \A x \in Files : archives'[x] # None => ArchiveSound(archives[x])'
  BY <1>1 DEF Core, StampsNameOneValue, ArchiveSound
<1>12. Core'
  BY <1>1, <1>9, <1>10, <1>11 DEF Core
<1>13. \A f \in Folders : Deleted(f) \in Keys \ gone
  BY KeyFacts, KeysDiffer
<1> QED
  BY <1>5, <1>6, <1>12, <1>13

LEMMA ExportKeepsCore ==
  ASSUME Core, known \in [Devices -> SUBSET Books], NEW d \in Devices, NEW f \in Files,
         Export(d, f)
  PROVE  Core'
<1> DEFINE a == [store |-> store[d], known |-> known[d], received |-> received[d]]
<1>1. /\ archives' = [archives EXCEPT ![f] = a] /\ counter' = counter /\ store' = store
      /\ events' = events /\ received' = received
  BY DEF Export, library, history
<1>2. a \in Archives
  BY DEF Core, CoreTypes, Archives
<1>3. CoreTypes'
  <2> HIDE DEF a
  <2> QED
    BY <1>1, <1>2 DEF Core, CoreTypes
<1>4. a.received \subseteq events /\ StoreSound(a.store, a.received)
  BY DEF Core
<1>5. ASSUME NEW x \in Files, archives'[x] # None PROVE ArchiveSound(archives[x])'
  <2> HIDE DEF a
  <2>1. CASE archives'[x] = a
    BY <1>1, <1>4, <2>1 DEF ArchiveSound
  <2>2. CASE archives'[x] = archives[x]
    <3>1. archives[x].received \subseteq events
          /\ StoreSound(archives[x].store, archives[x].received)
      BY <1>5, <2>2 DEF Core, ArchiveSound
    <3> QED
      BY <1>1, <2>2, <3>1 DEF ArchiveSound
  <2>3. archives'[x] = a \/ archives'[x] = archives[x]
    BY <1>1 DEF Core, CoreTypes
  <2> QED
    BY <2>1, <2>2, <2>3
<1> QED
  BY <1>1, <1>3, <1>5 DEF Core, StampsNameOneValue

LEMMA CoreUnchanged ==
  ASSUME Core, UNCHANGED <<counter, store, archives, events, received>>
  PROVE  Core'
BY DEF Core, CoreTypes, StampsNameOneValue, ArchiveSound

-----------------------------------------------------------------------------
\* The imports

\* The register s was written after r.
Rose(r, s) == s # None /\ (r = None \/ StampBelow(r, s))

ImportTypes ==
  /\ known \in [Devices -> SUBSET Books]
  /\ job \in [Devices -> Jobs \cup {None}]
  /\ plan \in [Devices -> Plans \cup {None}]
  /\ disturbed \in [Devices -> SUBSET Books]

\* What waits for its placement was seen as the job saw it last; a folder that
\* changed since was written since.
SeenSound(d, b) ==
  LET r == job[d].seen[b].place
      s == store[d][Place(b)]
  IN  (s = r \/ Rose(r, s)) /\ (b \in disturbed[d] => Rose(r, s))

JobSound(d) ==
  /\ job[d] # None =>
       /\ \A i \in job[d].pending : i.observed = job[d].seen[i.book]
       /\ \A b \in Books : SeenSound(d, b)
  /\ job[d] = None => disturbed[d] = {}

\* A book whose register is r shows at the root, now and for ever.
RootForGood(d, r) ==
  \/ r = None
  \/ r.val = Root
  \/ r.val \in Folders /\ store[d][Deleted(r.val)] # None

\* The books of the shelf that wait to be moved were seen at the root.
PlanSound(d) ==
  plan[d] # None =>
    \A b \in plan[d].books \ plan[d].new : RootForGood(d, plan[d].seen[b])

ImportSound(d) == JobSound(d) /\ PlanSound(d)

Inv ==
  /\ Core
  /\ ImportTypes
  /\ \A d \in Devices : ImportSound(d)

Dissolved == \A d \in Devices, f \in Folders :
  store[d][Deleted(f)] # None => store'[d][Deleted(f)] # None

LEMMA EffectiveTypes ==
  ASSUME Core, NEW d \in Devices, NEW b \in Books
  PROVE  /\ EffectiveFolder(store[d], b) \in Folders \cup {Root}
         /\ Snapshot(store[d], b) \in Snapshots
         /\ Snapshot(store[d], b).place = store[d][Place(b)]
<1>1. Place(b) \in Keys /\ ValuesOf(Place(b)) = Folders \cup {Root}
  BY KeyFacts
<1>2. EffectiveFolder(store[d], b) \in Folders \cup {Root}
  BY <1>1 DEF Core, StoreSound, EffectiveFolder
<1> QED
  BY <1>1, <1>2, StoreFacts DEF Snapshot, Snapshots

\* A book shows at the root for good: its folder is known, so that it is dissolved.
LEMMA RootIsForGood ==
  ASSUME Core, NEW d \in Devices, NEW b \in Books
  PROVE  EffectiveFolder(store[d], b) = Root <=> RootForGood(d, store[d][Place(b)])
<1> DEFINE r == store[d][Place(b)]
<1>1. CASE r = None \/ r.val = Root
  BY <1>1 DEF EffectiveFolder, RootForGood
<1>2. CASE r # None /\ r.val # Root
  <2>1. r.val \in Folders /\ store[d][Name(r.val)] # None
    BY <1>2, KeyFacts DEF Core, StoreSound, Filed
  <2>2. Live(store[d], r.val) <=> store[d][Deleted(r.val)] = None
    BY <2>1 DEF Live
  <2> QED
    BY <1>2, <2>1, <2>2 DEF EffectiveFolder, RootForGood
<1> QED
  BY <1>1, <1>2

\* A plan stays sound as long as no dissolved folder comes back.
LEMMA PlanStaysSound ==
  ASSUME Inv, NEW d \in Devices, Dissolved, plan'[d] = plan[d] \/ plan'[d] = None
  PROVE  PlanSound(d)'
<1>1. CASE plan'[d] = None
  BY <1>1 DEF PlanSound
<1>2. ASSUME plan[d] # None, plan'[d] = plan[d], NEW b \in plan[d].books \ plan[d].new
      PROVE  RootForGood(d, plan[d].seen[b])'
  <2>1. RootForGood(d, plan[d].seen[b])
    BY <1>2 DEF Inv, ImportSound, PlanSound
  <2> QED
    BY <1>2, <2>1 DEF RootForGood, Dissolved
<1> QED
  BY <1>1, <1>2 DEF PlanSound

\* What is above what is above.
LEMMA RoseFacts ==
  ASSUME NEW r \in Registers \cup {None}, NEW s \in Registers \cup {None},
         NEW t \in Registers \cup {None}
  PROVE  /\ Rose(r, s) => r # s
         /\ Rose(r, s) /\ Rose(s, t) => Rose(r, t)
<1>1. ASSUME NEW x \in Registers \cup {None}, x # None PROVE x.ctr \in Nat /\ x.dev \in Nat
  BY <1>1, DevicesAssumption DEF Registers
<1>2. Rose(r, s) => r # s
  BY <1>1 DEF Rose, StampBelow
<1>3. ASSUME Rose(r, s), Rose(s, t) PROVE Rose(r, t)
  <2>1. s # None /\ t # None /\ StampBelow(s, t)
    BY <1>3 DEF Rose
  <2>2. CASE r = None
    BY <2>1, <2>2 DEF Rose
  <2>3. CASE r # None
    <3>1. r.ctr \in Nat /\ s.ctr \in Nat /\ t.ctr \in Nat /\ StampBelow(r, s)
      BY <1>1, <1>3, <2>1, <2>3 DEF Rose
    <3>2. r.dev \in Nat /\ s.dev \in Nat /\ t.dev \in Nat
      BY <1>1, <2>1, <2>3
    <3>3. StampBelow(r, t)
      BY <2>1, <3>1, <3>2 DEF StampBelow
    <3> QED
      BY <2>1, <3>3 DEF Rose
  <2> QED
    BY <2>2, <2>3
<1> QED
  BY <1>2, <1>3

\* A command, an archive or a placement on the device d, while its directory
\* import goes on.
LEMMA DisturbanceKeeps ==
  ASSUME Inv, NEW d \in Devices, Core', ImportTypes', Dissolved,
         \A k \in Devices \ {d} : store'[k] = store[k],
         job' = job, Disturb(d, store'[d]),
         plan' = plan \/ plan' = [plan EXCEPT ![d] = None],
         \A b \in Books : store'[d][Place(b)] # store[d][Place(b)] =>
                            Rose(store[d][Place(b)], store'[d][Place(b)])
  PROVE  Inv'
<1>1. /\ disturbed'[d] = disturbed[d] \cup
           {b \in Books : Importing(d) /\ store'[d][Place(b)] # store[d][Place(b)]}
      /\ \A k \in Devices \ {d} : disturbed'[k] = disturbed[k]
  BY DEF Disturb, Inv, ImportTypes
<1>2. ASSUME NEW b \in Books, job[d] # None PROVE SeenSound(d, b)'
  <2> DEFINE r == job[d].seen[b].place
             s == store[d][Place(b)]
             t == store'[d][Place(b)]
  <2>1. r \in Registers \cup {None} /\ s \in Registers \cup {None} /\ t \in Registers \cup {None}
    <3>1. job[d].seen[b] \in Snapshots
      BY <1>2 DEF Inv, ImportTypes, Jobs
    <3>2. Place(b) \in Keys
      BY KeyFacts
    <3> QED
      BY <3>1, <3>2 DEF Snapshots, Inv, Core, CoreTypes, Stores
  <2>2. (s = r \/ Rose(r, s)) /\ (b \in disturbed[d] => Rose(r, s))
    BY <1>2 DEF Inv, ImportSound, JobSound, SeenSound
  <2>3. t # s => Rose(s, t)
    OBVIOUS
  <2>4. b \in disturbed'[d] => b \in disturbed[d] \/ t # s
    BY <1>1
  <2>5. SeenSound(d, b)' <=> (t = r \/ Rose(r, t)) /\ (b \in disturbed'[d] => Rose(r, t))
    BY DEF SeenSound, Rose, StampBelow
  <2> HIDE DEF r, s, t
  <2> QED
    BY <2>1, <2>2, <2>3, <2>4, <2>5, RoseFacts
<1>3. job[d] = None => disturbed'[d] = {}
  BY <1>1 DEF Inv, ImportSound, JobSound, Importing
<1>4. JobSound(d)'
  BY <1>2, <1>3 DEF Inv, ImportSound, JobSound
<1>5. /\ plan'[d] = plan[d] \/ plan'[d] = None
      /\ \A k \in Devices \ {d} : plan'[k] = plan[k]
  BY DEF Inv, ImportTypes
<1>6. ImportSound(d)'
  BY <1>4, <1>5, PlanStaysSound DEF ImportSound
<1>7. ASSUME NEW k \in Devices \ {d} PROVE ImportSound(k)'
  BY <1>1, <1>5 DEF Inv, ImportSound, JobSound, PlanSound, RootForGood, SeenSound
<1> QED
  BY <1>6, <1>7 DEF Inv

-----------------------------------------------------------------------------
\* The actions

\* A command on names, deletions and favorites.
LEMMA PlacelessKeeps ==
  ASSUME Inv, NEW d \in Devices, NEW changes, Command(d, changes),
         DOMAIN changes \subseteq Keys,
         \A k \in DOMAIN changes : changes[k] \in ValuesOf(k),
         \A b \in Books : Place(b) \notin DOMAIN changes
  PROVE  Inv' /\ Dissolved /\ job' = job /\ plan' = plan
<1> DEFINE n == NextCounter(d)
<1>1. /\ known' = known /\ job' = job /\ plan' = plan /\ Disturb(d, store'[d])
      /\ \A k \in Devices \ {d} : store'[k] = store[k]
  BY DEF Command, Write, imports, Inv, Core, CoreTypes
<1>2. /\ Core'
      /\ \A k \in DOMAIN changes : store'[d][k] = Stamped(changes[k], n, d)
      /\ \A k \in Keys \ DOMAIN changes : store'[d][k] = store[d][k]
  BY PlacelessCommand DEF Inv
<1>3. ASSUME NEW f \in Folders, store[d][Deleted(f)] # None PROVE store'[d][Deleted(f)] # None
  <2>1. Deleted(f) \in Keys /\ n \in Nat
    BY KeyFacts, NextCounterAbove DEF Inv
  <2>2. CASE Deleted(f) \in DOMAIN changes
    <3>1. Stamped(changes[Deleted(f)], n, d) \in Registers
      BY <2>1, <2>2, KeyFacts DEF Stamped, Registers
    <3> QED
      BY <1>2, <2>2, <3>1, NoneAssumption
  <2>3. CASE Deleted(f) \notin DOMAIN changes
    BY <1>2, <1>3, <2>1, <2>3
  <2> QED
    BY <2>2, <2>3
<1>4. Dissolved
  BY <1>1, <1>3 DEF Dissolved
<1>5. ImportTypes'
  BY <1>1 DEF Inv, ImportTypes, Disturb
<1>6. \A b \in Books : store'[d][Place(b)] = store[d][Place(b)]
  BY <1>2, KeyFacts
<1> QED
  BY <1>1, <1>2, <1>4, <1>5, <1>6, DisturbanceKeeps

LEMMA NameFolderKeeps ==
  ASSUME Inv, NEW d \in Devices, NEW f \in Folders, NEW name \in Names,
         CreateFolder(d, f, name) \/ RenameFolder(d, f, name)
  PROVE  Inv' /\ Dissolved /\ job' = job /\ plan' = plan
<1> DEFINE changes == [k \in {Name(f)} |-> name]
<1>1. Command(d, changes)
  BY DEF CreateFolder, RenameFolder
<1>2. /\ DOMAIN changes \subseteq Keys /\ \A k \in DOMAIN changes : changes[k] \in ValuesOf(k)
      /\ \A b \in Books : Place(b) \notin DOMAIN changes
  BY KeyFacts, KeysDiffer
<1> HIDE DEF changes
<1> QED
  BY <1>1, <1>2, PlacelessKeeps

LEMMA DeleteFolderKeeps ==
  ASSUME Inv, NEW d \in Devices, NEW f \in Folders, DeleteFolder(d, f)
  PROVE  Inv' /\ Dissolved /\ job' = job /\ plan' = plan
<1> DEFINE changes == [k \in {Deleted(f)} |-> TRUE]
<1>1. Command(d, changes)
  BY DEF DeleteFolder
<1>2. /\ DOMAIN changes \subseteq Keys /\ \A k \in DOMAIN changes : changes[k] \in ValuesOf(k)
      /\ \A b \in Books : Place(b) \notin DOMAIN changes
  BY KeyFacts, KeysDiffer
<1> HIDE DEF changes
<1> QED
  BY <1>1, <1>2, PlacelessKeeps

LEMMA SetFavoriteKeeps ==
  ASSUME Inv, NEW d \in Devices, NEW S \in SUBSET Books, NEW val \in BOOLEAN,
         SetFavorite(d, S, val)
  PROVE  Inv' /\ Dissolved /\ job' = job /\ plan' = plan
<1> DEFINE changes == [k \in {Favorite(b) : b \in S} |-> val]
<1>1. Command(d, changes)
  BY DEF SetFavorite
<1>2. /\ DOMAIN changes \subseteq Keys /\ \A k \in DOMAIN changes : changes[k] \in ValuesOf(k)
      /\ \A b \in Books : Place(b) \notin DOMAIN changes
  BY KeyFacts, KeysDiffer
<1> HIDE DEF changes
<1> QED
  BY <1>1, <1>2, PlacelessKeeps

\* A new place is above the one it replaces.
LEMMA MovedRose ==
  ASSUME Core, NEW d \in Devices, NEW b \in Books, NEW val \in Folders \cup {Root},
         NEW s, s = Stamped(val, NextCounter(d), d)
  PROVE  s \in Registers /\ s # None /\ Rose(store[d][Place(b)], s)
<1>1. NextCounter(d) \in Nat /\ NextCounter(d) > counter[d]
  BY NextCounterAbove
<1>2. s \in Registers /\ s.ctr = NextCounter(d)
  BY <1>1 DEF Stamped, Registers, Vals
<1>3. Place(b) \in Keys /\ counter[d] \in Nat
  BY KeyFacts, StoreFacts
<1>4. store[d][Place(b)] # None =>
        store[d][Place(b)].ctr \in Nat /\ store[d][Place(b)].ctr <= counter[d]
  BY <1>3, StoreFacts DEF Counters
<1> QED
  BY <1>1, <1>2, <1>3, <1>4, NoneAssumption DEF Rose, StampBelow

LEMMA MoveBooksKeeps ==
  ASSUME Inv, NEW d \in Devices, NEW S \in SUBSET Books, NEW f \in Folders \cup {Root},
         MoveBooks(d, S, f)
  PROVE  Inv' /\ Dissolved /\ job' = job /\ plan' = plan
<1> DEFINE P == {Place(b) : b \in S}
<1>1. /\ known' = known /\ job' = job /\ plan' = plan /\ Disturb(d, store'[d])
      /\ Write(d, [k \in P |-> f], NextCounter(d)) /\ archives' = archives
      /\ f # Root => Live(store[d], f)
      /\ \A k \in Devices \ {d} : store'[k] = store[k]
  BY DEF MoveBooks, Command, Write, imports, Inv, Core, CoreTypes
<1>2. /\ Core'
      /\ \A b \in S : store'[d][Place(b)] = Stamped(f, NextCounter(d), d)
      /\ \A k \in Keys \ P : store'[d][k] = store[d][k]
  BY <1>1, MoveKeepsCore DEF Inv
<1>3. Dissolved
  <2>1. \A g \in Folders : Deleted(g) \in Keys \ P
    BY KeyFacts, KeysDiffer
  <2> QED
    BY <1>1, <1>2, <2>1 DEF Dissolved
<1>4. ImportTypes'
  BY <1>1 DEF Inv, ImportTypes, Disturb
<1>5. ASSUME NEW b \in Books, store'[d][Place(b)] # store[d][Place(b)]
      PROVE  Rose(store[d][Place(b)], store'[d][Place(b)])
  <2>1. b \in S
    <3>1. b \notin S => Place(b) \in Keys \ P
      BY KeyFacts, KeysDiffer
    <3> QED
      BY <1>2, <1>5, <3>1
  <2> QED
    BY <1>2, <2>1, MovedRose DEF Inv
<1> QED
  BY <1>1, <1>2, <1>3, <1>4, <1>5, DisturbanceKeeps

LEMMA MergeArchiveKeeps ==
  ASSUME Inv, NEW d \in Devices, NEW f \in Files, MergeArchive(d, f)
  PROVE  Inv' /\ Dissolved /\ job' = job /\ plan' = plan
<1>1. /\ job' = job /\ plan' = plan /\ Disturb(d, store'[d])
      /\ known' = [known EXCEPT ![d] = @ \cup archives[f].known]
      /\ archives[f] # None
      /\ \A k \in Devices \ {d} : store'[k] = store[k]
  BY DEF MergeArchive, imports, Inv, Core, CoreTypes
<1>2. /\ Core'
      /\ \A k \in Keys : store'[d][k] # store[d][k] =>
           store'[d][k] # None
             /\ (store[d][k] = None \/ StampBelow(store[d][k], store'[d][k]))
  BY MergeKeepsCore DEF Inv
<1>3. Dissolved
  BY <1>1, <1>2, KeyFacts DEF Dissolved
<1>4. ImportTypes'
  <2>1. archives[f].known \subseteq Books
    BY <1>1 DEF Inv, Core, CoreTypes, Archives
  <2> QED
    BY <1>1, <2>1 DEF Inv, ImportTypes, Disturb
<1>5. \A b \in Books : store'[d][Place(b)] # store[d][Place(b)] =>
                         Rose(store[d][Place(b)], store'[d][Place(b)])
  BY <1>2, KeyFacts DEF Rose
<1> QED
  BY <1>1, <1>2, <1>3, <1>4, <1>5, DisturbanceKeeps

\* A step that leaves the registers of all but the device d alone, and its
\* imports.
LEMMA OnDevice ==
  ASSUME Inv, NEW d \in Devices, Core', ImportTypes',
         \A k \in Devices \ {d} :
           /\ store'[k] = store[k] /\ job'[k] = job[k] /\ plan'[k] = plan[k]
           /\ disturbed'[k] = disturbed[k],
         ImportSound(d)'
  PROVE  Inv'
<1>1. \A k \in Devices \ {d} : ImportSound(k)'
  BY DEF Inv, ImportSound, JobSound, PlanSound, RootForGood, SeenSound
<1> QED
  BY <1>1 DEF Inv

LEMMA ShelfKeeps ==
  ASSUME Inv, NEW d \in Devices, NEW b \in Books, AddBook(d, b) \/ RemoveBook(d, b)
  PROVE  Inv' /\ Dissolved /\ job' = job /\ plan' = plan
<1>1. CASE AddBook(d, b)
  <2>1. /\ known' = [known EXCEPT ![d] = @ \cup {b}] /\ job' = job /\ plan' = plan
        /\ disturbed' = disturbed /\ store' = store
        /\ UNCHANGED <<counter, store, archives, events, received>>
    BY <1>1 DEF AddBook, imports, history
  <2>2. ImportTypes'
    BY <2>1 DEF Inv, ImportTypes
  <2>3. ImportSound(d)'
    BY <2>1 DEF Inv, ImportSound, JobSound, PlanSound, RootForGood, SeenSound
  <2> QED
    BY <2>1, <2>2, <2>3, CoreUnchanged, OnDevice DEF Inv, Dissolved
<1>2. CASE RemoveBook(d, b)
  <2>1. /\ known' = [known EXCEPT ![d] = @ \ {b}] /\ job' = job /\ plan' = plan
        /\ disturbed' = disturbed /\ ~Importing(d)
        /\ \A k \in Devices \ {d} : store'[k] = store[k]
    BY <1>2 DEF RemoveBook, imports, Inv, Core, CoreTypes
  <2>2. Core' /\ \A f \in Folders : store'[d][Deleted(f)] = store[d][Deleted(f)]
    BY <1>2, RemoveKeepsCore DEF Inv
  <2>3. ImportTypes'
    BY <2>1 DEF Inv, ImportTypes
  <2>4. Dissolved
    BY <2>1, <2>2 DEF Dissolved
  <2>5. JobSound(d)'
    BY <2>1 DEF Inv, ImportSound, JobSound, Importing
  <2>6. ImportSound(d)'
    BY <2>1, <2>4, <2>5, PlanStaysSound DEF ImportSound
  <2> QED
    BY <2>1, <2>2, <2>3, <2>4, <2>6, OnDevice
<1> QED
  BY <1>1, <1>2

LEMMA ExportKeeps ==
  ASSUME Inv, NEW d \in Devices, NEW f \in Files, Export(d, f)
  PROVE  Inv' /\ Dissolved /\ job' = job /\ plan' = plan
<1>1. UNCHANGED <<counter, store, known, job, plan, disturbed>>
  BY DEF Export, library, imports, history
<1>2. Core'
  BY ExportKeepsCore DEF Inv, ImportTypes
<1>3. ImportTypes' /\ \A k \in Devices : ImportSound(k)'
  BY <1>1 DEF Inv, ImportTypes, ImportSound, JobSound, PlanSound, RootForGood, SeenSound
<1> QED
  BY <1>1, <1>2, <1>3 DEF Inv, Dissolved

LEMMA StartImportKeeps ==
  ASSUME Inv, NEW d \in Devices, NEW f \in Folders, NEW create \in BOOLEAN,
         NEW policy \in Policies, StartImport(d, f, create, policy)
  PROVE  Inv'
<1> DEFINE J == [target |-> f, create |-> create, policy |-> policy,
                 seen |-> [b \in Books |-> Snapshot(store[d], b)], taken |-> {}, pending |-> {}]
<1>1. /\ ~Importing(d) /\ job' = [job EXCEPT ![d] = J] /\ plan' = plan /\ known' = known
      /\ disturbed' = disturbed /\ store' = store
      /\ UNCHANGED <<counter, store, archives, events, received>>
  BY DEF StartImport, library, history
<1>2. J \in Jobs
  BY EffectiveTypes DEF Inv, Jobs
<1>3. ImportTypes' /\ job'[d] = J
  <2> HIDE DEF J
  <2> QED
    BY <1>1, <1>2 DEF Inv, ImportTypes
<1>4. disturbed[d] = {}
  BY <1>1 DEF Inv, ImportSound, JobSound, Importing
<1>5. \A b \in Books : SeenSound(d, b)'
  BY <1>1, <1>3, <1>4, EffectiveTypes DEF Inv, SeenSound
<1>6. ImportSound(d)'
  BY <1>1, <1>2, <1>3, <1>4, <1>5, NoneAssumption
     DEF Inv, ImportSound, JobSound, PlanSound, RootForGood
<1> HIDE DEF J
<1> QED
  BY <1>1, <1>3, <1>6, CoreUnchanged, OnDevice DEF Inv, ImportTypes

\* A step of the import job that leaves the registers and the plan alone.
LEMMA JobStep ==
  ASSUME Inv, NEW d \in Devices, job[d] # None, NEW J \in Jobs,
         job' = [job EXCEPT ![d] = J], plan' = plan, disturbed' = disturbed,
         known' \in [Devices -> SUBSET Books],
         UNCHANGED <<counter, store, archives, events, received>>,
         J.seen = job[d].seen, \A i \in J.pending : i.observed = J.seen[i.book]
  PROVE  Inv'
<1>1. J # None /\ job'[d] = J
  BY NoneAssumption DEF Inv, ImportTypes
<1>2. ImportTypes'
  BY DEF Inv, ImportTypes
<1>3. \A b \in Books : SeenSound(d, b)'
  BY <1>1 DEF Inv, ImportSound, JobSound, SeenSound
<1>4. ImportSound(d)'
  BY <1>1, <1>3 DEF Inv, ImportSound, JobSound, PlanSound, RootForGood
<1> QED
  BY <1>2, <1>4, CoreUnchanged, OnDevice DEF Inv, ImportTypes

LEMMA TakeBookKeeps ==
  ASSUME Inv, NEW d \in Devices, NEW b \in Books, TakeBook(d, b)
  PROVE  Inv'
<1> DEFINE item == [book |-> b, existing |-> b \in known[d], observed |-> job[d].seen[b]]
           J == [job[d] EXCEPT !.taken = @ \cup {b}, !.pending = @ \cup {item}]
<1>1. /\ job[d] # None /\ job' = [job EXCEPT ![d] = J] /\ plan' = plan
      /\ known' = [known EXCEPT ![d] = @ \cup {b}] /\ disturbed' = disturbed
      /\ UNCHANGED <<counter, store, archives, events, received>>
  BY DEF TakeBook, history
<1>2. job[d] \in Jobs
  BY <1>1 DEF Inv, ImportTypes
<1>3. item \in Items
  BY <1>2 DEF Jobs, Items
<1> HIDE DEF item
<1>4. J \in Jobs /\ J.seen = job[d].seen /\ J.pending = job[d].pending \cup {item}
  BY <1>2, <1>3 DEF Jobs
<1>5. item.observed = job[d].seen[item.book]
  BY DEF item
<1>6. \A i \in J.pending : i.observed = J.seen[i.book]
  BY <1>1, <1>4, <1>5 DEF Inv, ImportSound, JobSound
<1>7. known' \in [Devices -> SUBSET Books]
  BY <1>1 DEF Inv, ImportTypes
<1> HIDE DEF J
<1> QED
  BY <1>1, <1>4, <1>6, <1>7, JobStep

LEMMA BatchFailsKeeps ==
  ASSUME Inv, NEW d \in Devices, BatchFails(d)
  PROVE  Inv'
<1> DEFINE J == [job[d] EXCEPT !.pending = {}]
<1>1. /\ job[d] # None /\ job' = [job EXCEPT ![d] = J] /\ plan' = plan
      /\ known' = known /\ disturbed' = disturbed
      /\ UNCHANGED <<counter, store, archives, events, received>>
  BY DEF BatchFails, library, history
<1>2. job[d] \in Jobs
  BY <1>1 DEF Inv, ImportTypes
<1>3. J \in Jobs /\ J.seen = job[d].seen /\ J.pending = {}
  BY <1>2 DEF Jobs
<1> HIDE DEF J
<1> QED
  BY <1>1, <1>3, JobStep DEF Inv, ImportTypes

\* A batch that is committed: the job goes on with what it left.
LEMMA CommitBatchKeeps ==
  ASSUME Inv, NEW d \in Devices, NEW name \in Names, CommitBatch(d, name)
  PROVE  Inv' /\ Dissolved
<1> DEFINE J == [job[d] EXCEPT !.pending = {},
                               !.seen = [b \in Books |-> Snapshot(store'[d], b)]]
<1>1. /\ job[d] # None /\ job' = [job EXCEPT ![d] = J]
      /\ disturbed' = [disturbed EXCEPT ![d] = {}] /\ known' = known /\ plan' = plan
      /\ archives' = archives
  BY DEF CommitBatch, Committed, Undisturbed
<1>2. \A k \in Devices \ {d} : store'[k] = store[k]
  <2>1. store' = store \/ \E T : store' = [store EXCEPT ![d] = T]
    BY DEF CommitBatch
  <2> QED
    BY <2>1 DEF Inv, Core, CoreTypes
<1>3. job[d] \in Jobs
  BY <1>1 DEF Inv, ImportTypes
<1>4. Core' /\ Dissolved
  <2>1. CASE Moved(d) = {}
    <3>1. UNCHANGED <<counter, store, archives, events, received>>
      BY <1>1, <2>1 DEF CommitBatch
    <3> QED
      BY <3>1, CoreUnchanged DEF Inv, Dissolved
  <2>2. CASE Moved(d) # {}
    <3>1. Core' /\ \A g \in Folders : store'[d][Deleted(g)] = store[d][Deleted(g)]
      BY <1>3, <2>2, BatchKeepsCore DEF Inv
    <3> QED
      BY <1>2, <3>1 DEF Dissolved
  <2> QED
    BY <2>1, <2>2
<1>5. ASSUME NEW b \in Books
      PROVE  /\ Snapshot(store'[d], b) \in Snapshots
             /\ Snapshot(store'[d], b).place = store'[d][Place(b)]
  <2>1. Place(b) \in Keys /\ ValuesOf(Place(b)) = Folders \cup {Root}
    BY KeyFacts
  <2>2. store'[d][Place(b)] \in Registers \cup {None}
    BY <1>4, <2>1 DEF Core, CoreTypes, Stores
  <2>3. EffectiveFolder(store'[d], b) \in Folders \cup {Root}
    BY <1>4, <2>1 DEF Core, StoreSound, EffectiveFolder
  <2> QED
    BY <2>2, <2>3 DEF Snapshot, Snapshots
<1>6. J \in Jobs /\ J.pending = {} /\ \A b \in Books : J.seen[b] = Snapshot(store'[d], b)
  BY <1>3, <1>5 DEF Jobs
<1> HIDE DEF J
<1>7. ImportTypes' /\ job'[d] = J /\ J # None /\ disturbed'[d] = {}
  BY <1>1, <1>6, NoneAssumption DEF Inv, ImportTypes
<1>8. \A b \in Books : SeenSound(d, b)'
  BY <1>5, <1>6, <1>7 DEF SeenSound
<1>9. ImportSound(d)'
  BY <1>1, <1>4, <1>6, <1>7, <1>8, PlanStaysSound DEF ImportSound, JobSound
<1>10. \A k \in Devices \ {d} : /\ job'[k] = job[k] /\ plan'[k] = plan[k]
                               /\ disturbed'[k] = disturbed[k]
  BY <1>1 DEF Inv, ImportTypes
<1> QED
  BY <1>4, <1>7, <1>9, <1>10, <1>2, OnDevice

LEMMA EndImportKeeps ==
  ASSUME Inv, NEW d \in Devices, EndImport(d)
  PROVE  Inv'
<1>1. /\ job[d] # None /\ job' = [job EXCEPT ![d] = None] /\ plan' = plan /\ known' = known
      /\ disturbed' = [disturbed EXCEPT ![d] = {}]
      /\ UNCHANGED <<counter, store, archives, events, received>>
  BY DEF EndImport, Undisturbed, library
<1>2. ImportTypes' /\ job'[d] = None /\ disturbed'[d] = {}
  BY <1>1 DEF Inv, ImportTypes
<1>3. ImportSound(d)'
  BY <1>1, <1>2 DEF Inv, ImportSound, JobSound, PlanSound, RootForGood
<1> QED
  BY <1>1, <1>2, <1>3, CoreUnchanged, OnDevice DEF Inv, ImportTypes

LEMMA PlanPlacementKeeps ==
  ASSUME Inv, NEW d \in Devices, NEW f \in Folders, NEW S \in SUBSET Books,
         PlanPlacement(d, f, S)
  PROVE  Inv'
<1> DEFINE new == S \ known[d]
           P == [folder |-> f, books |-> Planned(d, f, S, new), new |-> new,
                 seen |-> [b \in Books |-> store[d][Place(b)]]]
<1>1. /\ plan' = [plan EXCEPT ![d] = P] /\ job' = job
      /\ known' = [known EXCEPT ![d] = @ \cup S] /\ disturbed' = disturbed
      /\ UNCHANGED <<counter, store, archives, events, received>>
  BY DEF PlanPlacement, history
<1>2. P \in Plans
  <2>1. \A b \in Books : store[d][Place(b)] \in Registers \cup {None}
    BY KeyFacts, StoreFacts DEF Inv
  <2> QED
    BY <2>1 DEF Plans, Planned
<1>3. ASSUME NEW b \in P.books \ P.new PROVE RootForGood(d, P.seen[b])
  <2>1. b \in Books /\ EffectiveFolder(store[d], b) = Root
    BY <1>3 DEF Planned
  <2> QED
    BY <2>1, RootIsForGood DEF Inv
<1> HIDE DEF P
<1>4. ImportTypes' /\ plan'[d] = P /\ P # None
  BY <1>1, <1>2, NoneAssumption DEF Inv, ImportTypes
<1>5. PlanSound(d)'
  BY <1>1, <1>3, <1>4 DEF PlanSound, RootForGood
<1>6. JobSound(d)'
  BY <1>1 DEF Inv, ImportSound, JobSound, SeenSound
<1> QED
  BY <1>1, <1>4, <1>5, <1>6, CoreUnchanged, OnDevice DEF Inv, ImportTypes, ImportSound

\* The move that an import into a folder has planned, if it is made.
LEMMA ApplyPlacementKeeps ==
  ASSUME Inv, NEW d \in Devices, ApplyPlacement(d)
  PROVE  /\ Inv' /\ Dissolved
         /\ \A b \in Books \ plan[d].books : store'[d][Place(b)] = store[d][Place(b)]
         /\ \A f \in Folders : store'[d][Deleted(f)] = store[d][Deleted(f)]
         /\ \A f \in Folders : store'[d][Name(f)] = store[d][Name(f)]
<1> DEFINE P == {Place(b) : b \in plan[d].books}
           f == plan[d].folder
<1>1. /\ plan[d] # None /\ plan' = [plan EXCEPT ![d] = None] /\ job' = job /\ known' = known
      /\ Disturb(d, store'[d]) /\ archives' = archives
  BY DEF ApplyPlacement
<1>2. plan[d] \in Plans /\ f \in Folders /\ plan[d].books \subseteq Books
  BY <1>1 DEF Inv, ImportTypes, Plans
<1>3. /\ Core'
      /\ \A k \in Devices \ {d} : store'[k] = store[k]
      /\ \A k \in Keys \ P : store'[d][k] = store[d][k]
      /\ store'[d] # store[d] =>
           \A b \in plan[d].books : store'[d][Place(b)] = Stamped(f, NextCounter(d), d)
  <2>1. CASE ~CanPlace(d)
    <3>1. UNCHANGED <<counter, store, archives, events, received>>
      BY <1>1, <2>1 DEF ApplyPlacement
    <3> QED
      BY <3>1, CoreUnchanged DEF Inv
  <2>2. CASE CanPlace(d)
    <3>1. Write(d, [k \in P |-> f], NextCounter(d)) /\ Live(store[d], f)
      BY <2>2 DEF ApplyPlacement, CanPlace
    <3>2. \A k \in Devices \ {d} : store'[k] = store[k]
      BY <3>1 DEF Write, Inv, Core, CoreTypes
    <3>3. /\ Core' /\ \A k \in Keys \ P : store'[d][k] = store[d][k]
          /\ \A b \in plan[d].books : store'[d][Place(b)] = Stamped(f, NextCounter(d), d)
      <4> DEFINE S == plan[d].books
      <4>1. S \in SUBSET Books /\ f \in Folders \cup {Root} /\ P = {Place(b) : b \in S}
        BY <1>2
      <4> HIDE DEF f, S, P
      <4>2. Write(d, [k \in {Place(b) : b \in S} |-> f], NextCounter(d))
        BY <3>1, <4>1
      <4>3. /\ Core' /\ \A k \in Keys \ P : store'[d][k] = store[d][k]
            /\ \A b \in S : store'[d][Place(b)] = Stamped(f, NextCounter(d), d)
        BY <1>1, <3>1, <4>1, <4>2, MoveKeepsCore DEF Inv
      <4> QED
        BY <4>3 DEF S
    <3> QED
      BY <3>2, <3>3
  <2> QED
    BY <2>1, <2>2
<1>4. /\ \A g \in Folders : Deleted(g) \in Keys \ P /\ Name(g) \in Keys \ P
      /\ \A b \in Books \ plan[d].books : Place(b) \in Keys \ P
  BY KeyFacts, KeysDiffer
<1>5. ImportTypes'
  BY <1>1, <1>2 DEF Inv, ImportTypes, Disturb
<1>6. ASSUME NEW b \in Books, store'[d][Place(b)] # store[d][Place(b)]
      PROVE  Rose(store[d][Place(b)], store'[d][Place(b)])
  <2>1. b \in plan[d].books /\ store'[d] # store[d]
    BY <1>3, <1>4, <1>6
  <2> QED
    BY <1>2, <1>3, <2>1, MovedRose DEF Inv
<1> HIDE DEF P
<1>7. Dissolved
  BY <1>3, <1>4 DEF Dissolved
<1>8. Inv'
  BY <1>1, <1>3, <1>5, <1>6, <1>7, DisturbanceKeeps
<1> QED
  BY <1>3, <1>4, <1>7, <1>8

LEMMA InitInv == Init => Inv
<1> SUFFICES ASSUME Init PROVE Inv
  OBVIOUS
<1>1. CoreTypes
  BY CounterAssumption DEF Init, CoreTypes, Counters, Stores, NoRegisters
<1>2. ASSUME NEW d \in Devices PROVE StoreSound(store[d], received[d])
  <2>1. received[d] = {} /\ store[d] = NoRegisters
    BY DEF Init
  <2>2. \A b \in Books : Place(b) \in Keys
    BY KeyFacts
  <2> QED
    BY <2>1, <2>2 DEF NoRegisters, StoreSound, Tops, Filed
<1>3. Core
  BY <1>1, <1>2 DEF Init, Core, StampsNameOneValue
<1>4. ImportTypes /\ \A d \in Devices : ImportSound(d)
  BY DEF Init, ImportTypes, ImportSound, JobSound, PlanSound
<1> QED
  BY <1>3, <1>4 DEF Inv

LEMMA NextKeeps ==
  ASSUME Inv, [Next]_vars
  PROVE  Inv' /\ Dissolved
<1>1. CASE UNCHANGED vars
  <2>1. /\ UNCHANGED <<counter, store, archives, events, received>>
        /\ UNCHANGED <<known, job, plan, disturbed>>
    BY <1>1 DEF vars, library, imports, history
  <2>2. ImportTypes' /\ \A d \in Devices : ImportSound(d)'
    BY <2>1 DEF Inv, ImportTypes, ImportSound, JobSound, PlanSound, RootForGood, SeenSound
  <2> QED
    BY <2>1, <2>2, CoreUnchanged DEF Inv, Dissolved
<1>2. ASSUME NEW d \in Devices, NEW f \in Folders, NEW name \in Names,
             CreateFolder(d, f, name) \/ RenameFolder(d, f, name)
      PROVE  Inv' /\ Dissolved
  BY <1>2, NameFolderKeeps
<1>3. ASSUME NEW d \in Devices, NEW f \in Folders, DeleteFolder(d, f)
      PROVE  Inv' /\ Dissolved
  BY <1>3, DeleteFolderKeeps
<1>4. ASSUME NEW d \in Devices, NEW S \in SUBSET Books,
             \/ \E val \in BOOLEAN : SetFavorite(d, S, val)
             \/ \E f \in Folders \cup {Root} : MoveBooks(d, S, f)
      PROVE  Inv' /\ Dissolved
  BY <1>4, SetFavoriteKeeps, MoveBooksKeeps
<1>5. ASSUME NEW d \in Devices, NEW b \in Books, AddBook(d, b) \/ RemoveBook(d, b)
      PROVE  Inv' /\ Dissolved
  BY <1>5, ShelfKeeps
<1>6. ASSUME NEW d \in Devices, NEW f \in Files, Export(d, f) \/ MergeArchive(d, f)
      PROVE  Inv' /\ Dissolved
  BY <1>6, ExportKeeps, MergeArchiveKeeps
<1>7. ASSUME NEW d \in Devices,
             \/ \E S \in SUBSET Books, f \in Folders : PlanPlacement(d, f, S)
             \/ \E b \in Books : TakeBook(d, b)
             \/ \E f \in Folders, create \in BOOLEAN, policy \in Policies :
                  StartImport(d, f, create, policy)
             \/ BatchFails(d) \/ EndImport(d)
      PROVE  Inv' /\ Dissolved
  <2>1. store' = store
    BY <1>7 DEF PlanPlacement, TakeBook, StartImport, BatchFails, EndImport, library
  <2>2. Inv'
    BY <1>7, PlanPlacementKeeps, TakeBookKeeps, StartImportKeeps, BatchFailsKeeps, EndImportKeeps
  <2> QED
    BY <2>1, <2>2 DEF Dissolved
<1>8. ASSUME NEW d \in Devices,
             ApplyPlacement(d) \/ \E name \in Names : CommitBatch(d, name)
      PROVE  Inv' /\ Dissolved
  BY <1>8, ApplyPlacementKeeps, CommitBatchKeeps
<1> QED
  BY <1>1, <1>2, <1>3, <1>4, <1>5, <1>6, <1>7, <1>8 DEF Next

LEMMA Invariance == Spec => []Inv
<1>1. Init => Inv
  BY InitInv
<1>2. Inv /\ [Next]_vars => Inv'
  BY NextKeeps
<1> QED
  BY <1>1, <1>2, PTL DEF Spec

-----------------------------------------------------------------------------
\* The theorems

\* The registers, the clocks and the imports of every device keep their shapes.
THEOREM LibraryTypes == Spec => []TypeOK
<1>1. Inv => TypeOK
  BY DEF Inv, Core, CoreTypes, ImportTypes, TypeOK, Counters
<1> QED
  BY <1>1, Invariance, PTL

\* Every register is the latest write that reached its device, in whatever order
\* commands, batches and archives brought the writes there.
THEOREM Converges == Spec => []Convergence
<1>1. Inv => Convergence
  <2> SUFFICES ASSUME Inv, NEW d \in Devices, NEW k \in Keys
               PROVE  LET got == {e \in received[d] : e.key = k}
                          r == store[d][k]
                      IN  IF got = {} THEN r = None
                          ELSE /\ r # None
                               /\ \E e \in got : SameStamp(e, r) /\ e.val = r.val
                               /\ \A e \in got : SameStamp(e, r) \/ StampBelow(e, r)
    BY DEF Convergence
  <2>1. Tops(store[d][k], received[d], k)
    BY DEF Inv, Core, StoreSound
  <2> QED
    BY <2>1 DEF Tops
<1> QED
  BY <1>1, Invariance, PTL

\* No register ever has two values under one stamp.
THEOREM StampsAgree == Spec => []StampsNameOneValue
<1>1. Inv => StampsNameOneValue
  BY DEF Inv, Core
<1> QED
  BY <1>1, Invariance, PTL

\* A dissolved folder never comes back.
THEOREM DissolvedStays == Spec => DissolvedForever
<1>1. Inv /\ [Next]_vars =>
        [\A d \in Devices, f \in Folders :
           store[d][Deleted(f)] # None => store'[d][Deleted(f)] # None]_vars
  BY NextKeeps DEF Dissolved
<1> QED
  BY <1>1, Invariance, PTL DEF Spec, DissolvedForever

\* What a batch moves did not change since the job looked, and shows in its folder.
LEMMA BatchRespects ==
  ASSUME Inv, NEW d \in Devices, NEW name \in Names, CommitBatch(d, name), NEW b \in Books,
         store'[d][Place(b)] # store[d][Place(b)]
  PROVE  b \notin disturbed[d] /\ EffectiveFolder(store'[d], b) = job[d].target
<1>1. job[d] # None /\ job[d] \in Jobs
  BY DEF CommitBatch, Inv, ImportTypes
<1>2. Moved(d) # {}
  BY DEF CommitBatch
<1>3. /\ \A c \in Moved(d) : /\ store'[d][Place(c)] \in Registers
                             /\ store'[d][Place(c)].val = job[d].target
      /\ \A c \in Books \ Moved(d) : store'[d][Place(c)] = store[d][Place(c)]
      /\ Live(store'[d], job[d].target)
  BY <1>1, <1>2, BatchKeepsCore DEF Inv
<1>4. b \in Moved(d)
  BY <1>3
<1>5. PICK i \in job[d].pending : i.book = b /\ DecideMove(d, i)
  BY <1>4 DEF Moved
<1>6. i.observed = job[d].seen[b] /\ i.observed = Snapshot(store[d], b)
  BY <1>1, <1>5 DEF Inv, ImportSound, JobSound, DecideMove
<1>7. job[d].seen[b].place = store[d][Place(b)]
  BY <1>6, EffectiveTypes DEF Inv
<1>8. b \notin disturbed[d]
  <2>1. Place(b) \in Keys
    BY KeyFacts
  <2>2. store[d][Place(b)] \in Registers \cup {None}
    BY <2>1, StoreFacts DEF Inv
  <2>3. b \in disturbed[d] => Rose(store[d][Place(b)], store[d][Place(b)])
    BY <1>1, <1>7 DEF Inv, ImportSound, JobSound, SeenSound
  <2> QED
    BY <2>2, <2>3, RoseFacts
<1>9. store'[d][Place(b)] # None /\ store'[d][Place(b)].val = job[d].target
  BY <1>3, <1>4, NoneAssumption
<1>10. EffectiveFolder(store'[d], b) = job[d].target
  BY <1>3, <1>9 DEF EffectiveFolder
<1> QED
  BY <1>8, <1>10

\* What the steps leave alone: all but the imports keep the job and the plan, and
\* all of an import but its batch and its placement keep the store.
ImportStep(d) ==
  \/ job' = job /\ plan' = plan
  \/ store' = store /\ plan' = plan
  \/ job' = job /\ \E S \in SUBSET Books, f \in Folders : PlanPlacement(d, f, S)
  \/ \E name \in Names : CommitBatch(d, name)
  \/ ApplyPlacement(d)

LEMMA ImportSteps ==
  ASSUME Inv, Next
  PROVE  \E d \in Devices : ImportStep(d)
<1>1. ASSUME NEW d \in Devices, NEW f \in Folders, NEW name \in Names,
             CreateFolder(d, f, name) \/ RenameFolder(d, f, name)
      PROVE  ImportStep(d)
  BY <1>1, NameFolderKeeps DEF ImportStep
<1>2. ASSUME NEW d \in Devices, NEW f \in Folders, DeleteFolder(d, f)
      PROVE  ImportStep(d)
  BY <1>2, DeleteFolderKeeps DEF ImportStep
<1>3. ASSUME NEW d \in Devices, NEW S \in SUBSET Books,
             \/ \E val \in BOOLEAN : SetFavorite(d, S, val)
             \/ \E f \in Folders \cup {Root} : MoveBooks(d, S, f)
      PROVE  ImportStep(d)
  BY <1>3, SetFavoriteKeeps, MoveBooksKeeps DEF ImportStep
<1>4. ASSUME NEW d \in Devices, NEW b \in Books, AddBook(d, b) \/ RemoveBook(d, b)
      PROVE  ImportStep(d)
  BY <1>4, ShelfKeeps DEF ImportStep
<1>5. ASSUME NEW d \in Devices, NEW f \in Files, Export(d, f) \/ MergeArchive(d, f)
      PROVE  ImportStep(d)
  BY <1>5, ExportKeeps, MergeArchiveKeeps DEF ImportStep
<1>6. ASSUME NEW d \in Devices,
             \/ \E b \in Books : TakeBook(d, b)
             \/ \E f \in Folders, create \in BOOLEAN, policy \in Policies :
                  StartImport(d, f, create, policy)
             \/ BatchFails(d) \/ EndImport(d)
      PROVE  ImportStep(d)
  <2>1. store' = store /\ plan' = plan
    BY <1>6 DEF TakeBook, StartImport, BatchFails, EndImport, library
  <2> QED
    BY <2>1 DEF ImportStep
<1>7. ASSUME NEW d \in Devices, NEW S \in SUBSET Books, NEW f \in Folders,
             PlanPlacement(d, f, S)
      PROVE  ImportStep(d)
  <2>1. job' = job
    BY <1>7 DEF PlanPlacement
  <2> QED
    BY <1>7, <2>1 DEF ImportStep
<1>8. ASSUME NEW d \in Devices,
             ApplyPlacement(d) \/ \E name \in Names : CommitBatch(d, name)
      PROVE  ImportStep(d)
  BY <1>8 DEF ImportStep
<1> QED
  BY <1>1, <1>2, <1>3, <1>4, <1>5, <1>6, <1>7, <1>8 DEF Next

\* Only a batch ends what waits for it and moves books.
LEMMA OnlyBatches ==
  ASSUME Inv, Next, NEW k \in Devices, NEW b \in Books,
         job[k] # None, job'[k] # None, job[k].pending # {}, job'[k].pending = {},
         store'[k][Place(b)] # store[k][Place(b)]
  PROVE  \E name \in Names : CommitBatch(k, name)
<1>1. job'[k] # job[k] /\ store' # store
  OBVIOUS
<1>2. job' # job
  BY <1>1
<1>3. PICK d \in Devices : ImportStep(d)
  BY ImportSteps
<1>4. ApplyPlacement(d) => job' = job
  BY DEF ApplyPlacement
<1>5. PICK name \in Names : CommitBatch(d, name)
  BY <1>1, <1>2, <1>3, <1>4 DEF ImportStep
<1>6. \A x \in Devices \ {d} : job'[x] = job[x]
  BY <1>5 DEF CommitBatch, Committed, Inv, ImportTypes
<1> QED
  BY <1>1, <1>5, <1>6

\* A batch of an import never undoes what was moved while the job was under way.
THEOREM BatchesRespectChanges == Spec => BatchRespectsChanges
<1> DEFINE A == \A d \in Devices, b \in Books :
                  job[d] # None /\ job'[d] # None /\ job[d].pending # {} /\ job'[d].pending = {}
                    /\ store'[d][Place(b)] # store[d][Place(b)]
                  => b \notin disturbed[d] /\ EffectiveFolder(store'[d], b) = job[d].target
<1>1. Inv /\ [Next]_vars => [A]_vars
  BY OnlyBatches, BatchRespects
<1> QED
  BY <1>1, Invariance, PTL DEF Spec, BatchRespectsChanges

LEMMA OnlyPlacements ==
  ASSUME Inv, Next, NEW k \in Devices, plan[k] # None, plan'[k] = None
  PROVE  ApplyPlacement(k)
<1>1. plan' # plan
  OBVIOUS
<1>2. PICK d \in Devices :
        \/ ApplyPlacement(d)
        \/ \E f \in Folders, S \in SUBSET Books : PlanPlacement(d, f, S)
  <2>1. PICK d \in Devices : ImportStep(d)
    BY ImportSteps
  <2>2. ASSUME NEW name \in Names, CommitBatch(d, name) PROVE plan' = plan
    BY <2>2 DEF CommitBatch, Committed
  <2> QED
    BY <1>1, <2>1, <2>2 DEF ImportStep
<1>3. CASE ApplyPlacement(d)
  <2>1. \A x \in Devices \ {d} : plan'[x] = plan[x]
    BY <1>3 DEF ApplyPlacement, Inv, ImportTypes
  <2> QED
    BY <1>3, <2>1
<1>4. ASSUME NEW f \in Folders, NEW S \in SUBSET Books, PlanPlacement(d, f, S) PROVE FALSE
  <2>1. plan[d] = None /\ \A x \in Devices \ {d} : plan'[x] = plan[x]
    BY <1>4 DEF PlanPlacement, Inv, ImportTypes
  <2> QED
    BY <2>1
<1> QED
  BY <1>2, <1>3, <1>4

\* An import into a folder leaves a book in its other folder, except where a command
\* or an archive filed it there between the import's reading and its move.
THEOREM ReimportsKeepFiled == Spec => ReimportKeepsFiled
<1> DEFINE A == \A d \in Devices, b \in Books :
                  plan[d] # None /\ plan'[d] = None /\ b \notin plan[d].new
                    /\ EffectiveFolder(store[d], b) # Root
                    /\ EffectiveFolder(store'[d], b) # EffectiveFolder(store[d], b)
                  => store[d][Place(b)] # plan[d].seen[b]
<1>1. ASSUME Inv, Next, NEW d \in Devices, NEW b \in Books,
             plan[d] # None, plan'[d] = None, b \notin plan[d].new,
             EffectiveFolder(store[d], b) # Root,
             EffectiveFolder(store'[d], b) # EffectiveFolder(store[d], b)
      PROVE  store[d][Place(b)] # plan[d].seen[b]
  <2>1. ApplyPlacement(d)
    BY <1>1, OnlyPlacements
  <2>2. /\ \A c \in Books \ plan[d].books : store'[d][Place(c)] = store[d][Place(c)]
        /\ \A f \in Folders : store'[d][Deleted(f)] = store[d][Deleted(f)]
        /\ \A f \in Folders : store'[d][Name(f)] = store[d][Name(f)]
    BY <1>1, <2>1, ApplyPlacementKeeps
  <2>3. CASE b \in plan[d].books
    <3>1. ~RootForGood(d, store[d][Place(b)])
      BY <1>1, RootIsForGood DEF Inv
    <3>2. RootForGood(d, plan[d].seen[b])
      BY <1>1, <2>3 DEF Inv, ImportSound, PlanSound
    <3> QED
      BY <3>1, <3>2
  <2>4. CASE b \notin plan[d].books
    <3>1. store'[d][Place(b)] = store[d][Place(b)]
      BY <2>2, <2>4
    <3>2. store[d][Place(b)] # None /\ store[d][Place(b)].val # Root =>
            store[d][Place(b)].val \in Folders
      BY <1>1, KeyFacts DEF Inv, Core, StoreSound
    <3>3. EffectiveFolder(store'[d], b) = EffectiveFolder(store[d], b)
      BY <2>2, <3>1, <3>2 DEF EffectiveFolder, Live
    <3> QED
      BY <1>1, <3>3
  <2> QED
    BY <2>3, <2>4
<1>2. Inv /\ [Next]_vars => [A]_vars
  BY <1>1
<1> QED
  BY <1>2, Invariance, PTL DEF Spec, ReimportKeepsFiled
=============================================================================
