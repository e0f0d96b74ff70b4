------------------------ MODULE ProgressWriterProofs ------------------------
(***************************************************************************)
(* Proofs about ProgressWriter.  What a lane holds is sound for the book   *)
(* when its waiting or failed sample is the last position recorded of the  *)
(* book, and the write under way is that or an older one that the recovery *)
(* record outlives.  The lane operators keep lanes sound; an action keeps  *)
(* the books sound that its lane belongs to.                               *)
(***************************************************************************)
EXTENDS ProgressWriter, TLAPS, SequenceTheorems

Deliveries == [at : Nat, val : Positions \cup {None}]
Records == Checkpoints \cup {None}

\* The sample is the last position p, of turn t.
Last(s, L, t, p) == s.at = t /\ s.val = p /\ L.sequence = t

\* A recovery record with the sample's id has the sample's position.
Known(s, ck, m) == s.id <= m /\ (ck # None /\ ck.id = s.id => ck.val = s.val)

FlightSound(L, t, p, st, ck, m) ==
  LET s == L.flight.sample
  IN  /\ L.started
      /\ Known(s, ck, m)
      /\ st.at <= s.at /\ s.at <= t
      /\ L.pending = None => Last(s, L, t, p)
      /\ L.pending # None => s.at < t
      /\ s.val # p => ck # None
      /\ L.flight.stage = "stored" => st.at = s.at /\ st.val = s.val

LaneSound(L, t, p, st, ck, m) ==
  /\ L.timer => L.pending # None /\ L.flight = None
  /\ L.failed # None => L.pending = None /\ L.flight = None
  /\ L.pending # None => Last(L.pending, L, t, p) /\ Known(L.pending, ck, m)
  /\ L.failed # None => Last(L.failed, L, t, p) /\ Known(L.failed, ck, m)
  /\ L.flight # None => FlightSound(L, t, p, st, ck, m)
  /\ ~HasUnsaved(L) => L.sequence <= st.at

Scheduled(L) == L.pending # None => L.flight # None \/ L.timer

BookSound(b) ==
  /\ stored[b].at <= turn[b]
  /\ checkpoint[b] # None =>
       checkpoint[b].id <= made /\ checkpoint[b].val = position[b]
  /\ position[b] = stored[b].val \/ checkpoint[b] # None

LaneOfBook(l) ==
  LaneSound(lane[l], turn[BookOf[l]], position[BookOf[l]], stored[BookOf[l]],
            checkpoint[BookOf[l]], made)

\* The lanes are those of the writer's map.
Mapped ==
  /\ \A l \in Leases : lane[l] # None <=> held[BookOf[l]] = l
  /\ \A b \in Books : held[b] # None => BookOf[held[b]] = b

\* A flush waits for a write that is under way.
WaitsSound == \A l \in Leases : waits[l] # <<>> => lane[l] # None /\ lane[l].flight # None

Sound ==
  /\ TypeOK
  /\ Mapped
  /\ WaitsSound
  /\ \A b \in Books : BookSound(b)
  /\ \A l \in Leases : lane[l] # None => LaneOfBook(l) /\ Scheduled(lane[l])

-----------------------------------------------------------------------------
\* The lane operators

\* Starting a write moves the waiting sample into it.
LEMMA StartKeeps ==
  ASSUME NEW L \in Lanes, NEW t \in Nat, NEW p, NEW st \in Deliveries, NEW ck \in Records,
         NEW m \in Nat, st.at <= t, ~L.timer, LaneSound(L, t, p, st, ck, m)
  PROVE  /\ Start(L) \in Lanes
         /\ LaneSound(Start(L), t, p, st, ck, m)
         /\ Start(L).sequence = L.sequence /\ ~Start(L).timer
         /\ Scheduled(Start(L))
         /\ L.pending # None \/ L.flight # None => Start(L).flight # None
<1>1. CASE L.flight # None \/ L.pending = None
  BY <1>1 DEF Start, Scheduled
<1>2. CASE L.flight = None /\ L.pending # None
  <2> DEFINE F == [sample |-> L.pending, stage |-> "sent"]
             N == [L EXCEPT !.pending = None, !.started = TRUE, !.flight = F]
  <2>1. L.pending \in Samples /\ F \in Flights /\ F # None
    BY <1>2, NoneAssumption DEF Lanes, Flights
  <2>2. Start(L) = N
    BY <1>2 DEF Start
  <2>3. /\ N \in Lanes /\ N.pending = None /\ N.started /\ N.flight = F
        /\ N.failed = L.failed /\ N.timer = L.timer /\ N.sequence = L.sequence
    BY <2>1 DEF Lanes
  <2>4. L.failed = None /\ Last(L.pending, L, t, p) /\ Known(L.pending, ck, m)
    BY <1>2 DEF LaneSound
  <2>5. FlightSound(N, t, p, st, ck, m)
    <3>1. F.sample = L.pending /\ F.stage = "sent"
      OBVIOUS
    <3>2. L.pending.at = t /\ L.pending.val = p /\ N.sequence = t
      BY <2>3, <2>4 DEF Last
    <3> QED
      BY <2>3, <2>4, <3>1, <3>2 DEF FlightSound, Last
  <2>6. LaneSound(N, t, p, st, ck, m)
    BY <2>1, <2>3, <2>4, <2>5 DEF LaneSound, HasUnsaved
  <2> QED
    BY <2>1, <2>2, <2>3, <2>6 DEF Scheduled
<1> QED
  BY <1>1, <1>2

\* A scheduled lane lets no sample lie.
LEMMA ScheduleKeeps ==
  ASSUME NEW L \in Lanes, NEW t \in Nat, NEW p, NEW st \in Deliveries, NEW ck \in Records,
         NEW m \in Nat, st.at <= t, LaneSound(L, t, p, st, ck, m)
  PROVE  /\ Schedule(L) \in Lanes
         /\ LaneSound(Schedule(L), t, p, st, ck, m)
         /\ Schedule(L).sequence = L.sequence
         /\ Scheduled(Schedule(L))
         /\ L.flight # None => Schedule(L).flight # None
<1>1. CASE L.flight # None \/ L.pending = None \/ L.timer
  BY <1>1 DEF Schedule, Scheduled
<1>2. CASE ~(L.flight # None \/ L.pending = None \/ L.timer) /\ L.started
  <2> DEFINE N == [L EXCEPT !.timer = TRUE]
  <2>1. Schedule(L) = N
    BY <1>2 DEF Schedule
  <2>2. /\ N \in Lanes /\ N.timer /\ N.pending = L.pending /\ N.failed = L.failed
        /\ N.flight = L.flight /\ N.sequence = L.sequence
    BY DEF Lanes
  <2>3. LaneSound(N, t, p, st, ck, m)
    BY <1>2, <2>2 DEF LaneSound, HasUnsaved, Last
  <2> QED
    BY <1>2, <2>1, <2>2, <2>3 DEF Scheduled
<1>3. CASE ~(L.flight # None \/ L.pending = None \/ L.timer) /\ ~L.started
  <2>1. Schedule(L) = Start(L) /\ ~L.timer /\ L.flight = None
    BY <1>3 DEF Schedule
  <2> QED
    BY <2>1, StartKeeps
<1> QED
  BY <1>1, <1>2, <1>3

\* A flush goes on with the sample that waits, or with the one that failed.
LEMMA RevivedKeeps ==
  ASSUME NEW L \in Lanes, NEW t \in Nat, NEW p, NEW st \in Deliveries, NEW ck \in Records,
         NEW m \in Nat, st.at <= t, LaneSound(L, t, p, st, ck, m)
  PROVE  /\ Revived(L) \in Lanes
         /\ LaneSound(Revived(L), t, p, st, ck, m)
         /\ Revived(L).sequence = L.sequence
         /\ Scheduled(Revived(L))
         /\ HasUnsaved(L) => Revived(L).flight # None
<1> DEFINE N == [L EXCEPT !.timer = FALSE,
                          !.pending = IF L.pending = None THEN L.failed ELSE L.pending,
                          !.failed = IF L.pending = None THEN None ELSE L.failed]
<1>1. Revived(L) = Start(N)
  BY DEF Revived
<1>2. CASE L.pending # None
  <2>1. L.failed = None
    BY <1>2 DEF LaneSound
  <2>2. /\ N \in Lanes /\ ~N.timer /\ N.pending = L.pending /\ N.failed = None
        /\ N.flight = L.flight /\ N.sequence = L.sequence /\ N.started = L.started
    BY <1>2, <2>1 DEF Lanes
  <2>3. LaneSound(N, t, p, st, ck, m)
    <3>1. L.flight # None => FlightSound(N, t, p, st, ck, m)
      BY <2>2 DEF LaneSound, FlightSound, Last
    <3> QED
      BY <1>2, <2>2, <3>1 DEF LaneSound, HasUnsaved, Last
  <2>4. /\ Start(N) \in Lanes /\ LaneSound(Start(N), t, p, st, ck, m)
        /\ Start(N).sequence = N.sequence /\ Scheduled(Start(N))
        /\ Start(N).flight # None
    <3> HIDE DEF N
    <3> QED
      BY <1>2, <2>2, <2>3, StartKeeps
  <2> QED
    BY <1>1, <2>2, <2>4
<1>3. CASE L.pending = None
  <2>1. /\ N \in Lanes /\ ~N.timer /\ N.pending = L.failed /\ N.failed = None
        /\ N.flight = L.flight /\ N.sequence = L.sequence /\ N.started = L.started
    BY <1>3 DEF Lanes
  <2>2. LaneSound(N, t, p, st, ck, m)
    <3>1. CASE L.failed # None
      BY <1>3, <2>1, <3>1 DEF LaneSound, HasUnsaved, Last
    <3>2. CASE L.failed = None
      <4>1. L.flight # None => FlightSound(N, t, p, st, ck, m)
        BY <1>3, <2>1, <3>2 DEF LaneSound, FlightSound, Last
      <4> QED
        BY <1>3, <2>1, <3>2, <4>1 DEF LaneSound, HasUnsaved
    <3> QED
      BY <3>1, <3>2
  <2>3. /\ Start(N) \in Lanes /\ LaneSound(Start(N), t, p, st, ck, m)
        /\ Start(N).sequence = N.sequence /\ Scheduled(Start(N))
        /\ N.pending # None \/ N.flight # None => Start(N).flight # None
    <3> HIDE DEF N
    <3> QED
      BY <2>1, <2>2, StartKeeps
  <2> QED
    BY <1>1, <1>3, <2>1, <2>3 DEF HasUnsaved
<1> QED
  BY <1>2, <1>3

\* A write that fails leaves its sample when it is the last one.
LEMMA AfterFailureKeeps ==
  ASSUME NEW L \in Lanes, NEW t \in Nat, NEW p, NEW st \in Deliveries, NEW ck \in Records,
         NEW m \in Nat, st.at <= t, LaneSound(L, t, p, st, ck, m), L.flight # None
  PROVE  /\ AfterFailure(L) \in Lanes
         /\ LaneSound(AfterFailure(L), t, p, st, ck, m)
         /\ AfterFailure(L).sequence = L.sequence
         /\ AfterFailure(L).started /\ AfterFailure(L).flight = None
         /\ HasUnsaved(AfterFailure(L))
<1> DEFINE s == L.flight.sample
           N == AfterFailure(L)
<1>1. L.flight \in Flights /\ s \in Samples /\ s # None
  BY NoneAssumption DEF Lanes, Flights
<1>2. FlightSound(L, t, p, st, ck, m) /\ L.failed = None /\ ~L.timer
  BY DEF LaneSound, Lanes
<1>3. /\ N \in Lanes /\ N.pending = L.pending /\ N.flight = None /\ N.timer = L.timer
      /\ N.sequence = L.sequence /\ N.started = L.started
      /\ N.failed = IF L.sequence = s.at THEN s ELSE None
  BY <1>1, <1>2 DEF AfterFailure, Lanes
<1>4. CASE L.pending = None
  <2>1. Last(s, L, t, p) /\ Known(s, ck, m) /\ L.started
    BY <1>2, <1>4 DEF FlightSound
  <2>2. N.failed = s
    BY <1>3, <2>1 DEF Last
  <2> QED
    BY <1>1, <1>2, <1>3, <1>4, <2>1, <2>2 DEF LaneSound, HasUnsaved, Last
<1>5. CASE L.pending # None
  <2>1. s.at < t /\ L.started /\ L.sequence = t /\ Last(L.pending, L, t, p)
        /\ Known(L.pending, ck, m)
    BY <1>2, <1>5 DEF FlightSound, LaneSound, Last
  <2>2. N.failed = None
    BY <1>1, <1>3, <2>1 DEF Samples
  <2> QED
    BY <1>1, <1>2, <1>3, <1>5, <2>1, <2>2 DEF LaneSound, HasUnsaved, Last
<1> QED
  BY <1>4, <1>5

\* A confirmed write leaves nothing or the newer sample.
LEMMA AfterSuccessKeeps ==
  ASSUME NEW L \in Lanes, NEW t \in Nat, NEW p, NEW st \in Deliveries, NEW ck \in Records,
         NEW m \in Nat, st.at <= t, LaneSound(L, t, p, st, ck, m), L.flight # None,
         L.flight.stage = "stored"
  PROVE  /\ AfterSuccess(L) \in Lanes
         /\ LaneSound(AfterSuccess(L), t, p, st, ck, m)
         /\ AfterSuccess(L).sequence = L.sequence
         /\ AfterSuccess(L).started /\ AfterSuccess(L).flight = None
<1> DEFINE s == L.flight.sample
           N == AfterSuccess(L)
<1>2. FlightSound(L, t, p, st, ck, m) /\ L.failed = None /\ ~L.timer
  BY DEF LaneSound, Lanes
<1>3. /\ N \in Lanes /\ N.pending = L.pending /\ N.flight = None /\ N.timer = L.timer
      /\ N.sequence = L.sequence /\ N.started = L.started /\ N.failed = None
  BY <1>2 DEF AfterSuccess, Lanes
<1>4. CASE L.pending = None
  <2>1. L.sequence = st.at /\ L.started
    BY <1>2, <1>4 DEF FlightSound, Last
  <2> QED
    BY <1>2, <1>3, <1>4, <2>1 DEF LaneSound, HasUnsaved, Deliveries
<1>5. CASE L.pending # None
  <2>1. L.started /\ Last(L.pending, L, t, p) /\ Known(L.pending, ck, m)
    BY <1>2, <1>5 DEF FlightSound, LaneSound
  <2> QED
    BY <1>2, <1>3, <1>5, <2>1 DEF LaneSound, HasUnsaved, Last
<1> QED
  BY <1>4, <1>5

\* The sample s is the newest position, with the recovery record c: the turn goes
\* on, or nothing of the last one is unsaved; the record is kept, or a new one.
Newest(s, c, n, L, t, ck, m) ==
  /\ s.at = t + 1 \/ (s.at = t /\ ~HasUnsaved(L))
  /\ c = ck \/ (c.id = n /\ n = m + 1)
  /\ s.id = c.id /\ s.val = c.val
  /\ c.id <= n /\ m <= n

\* A queued sample is the last position; the recovery record is its own, and the
\* one before it has the position that was last before.
LEMMA QueuedKeeps ==
  ASSUME NEW L \in Lanes, NEW t \in Nat, NEW p, NEW st \in Deliveries,
         NEW ck \in Records, NEW c \in Checkpoints, NEW m \in Nat, NEW n \in Nat,
         NEW s \in Samples, st.at <= t, LaneSound(L, t, p, st, ck, m),
         Newest(s, c, n, L, t, ck, m)
  PROVE  /\ Queued(L, s) \in Lanes
         /\ LaneSound(Queued(L, s), s.at, s.val, st, c, n)
         /\ Queued(L, s).sequence = s.at
         /\ Scheduled(Queued(L, s))
         /\ L.flight # None => Queued(L, s).flight # None
<1> DEFINE u == s.at
           q == s.val
<1>0. /\ u \in Nat /\ q = c.val /\ s.id = c.id /\ c.id <= n /\ m <= n
      /\ u = t + 1 \/ (u = t /\ ~HasUnsaved(L))
      /\ c = ck \/ (c.id = n /\ n = m + 1)
      /\ s.at = u /\ s.val = q
  BY DEF Newest, Samples
<1> HIDE DEF u, q
<1> DEFINE N == [L EXCEPT !.pending = s, !.sequence = s.at, !.failed = None]
<1>1. s # None /\ c # None
  BY NoneAssumption
<1>2. /\ N \in Lanes /\ N.pending = s /\ N.sequence = u /\ N.failed = None
      /\ N.flight = L.flight /\ N.timer = L.timer /\ N.started = L.started
  BY <1>0 DEF Lanes, Samples
<1>3. Last(s, N, u, q) /\ Known(s, c, n)
  BY <1>0, <1>2 DEF Last, Known
<1>4. ASSUME L.flight # None PROVE FlightSound(N, u, q, st, c, n)
  <2> DEFINE f == L.flight.sample
  <2>1. L.flight \in Flights /\ f \in Samples
    BY <1>4 DEF Lanes, Flights
  <2>2. FlightSound(L, t, p, st, ck, m) /\ u = t + 1
    BY <1>0, <1>4 DEF LaneSound, HasUnsaved
  <2>3. Known(f, c, n)
    <3>1. f.id <= m /\ f.id \in Nat /\ c.id \in Nat
      BY <1>0, <2>1, <2>2 DEF FlightSound, Known, Samples, Checkpoints
    <3>2. CASE c = ck
      BY <1>0, <1>1, <2>2, <3>1, <3>2 DEF FlightSound, Known
    <3>3. CASE c.id = n /\ n = m + 1
      BY <3>1, <3>3 DEF Known
    <3> QED
      BY <1>0, <3>2, <3>3
  <2>4. f.at <= t /\ f.at \in Nat /\ st.at <= f.at /\ L.started
    BY <2>1, <2>2 DEF FlightSound, Samples
  <2>5. L.flight.stage = "stored" => st.at = f.at /\ st.val = f.val
    BY <2>2 DEF FlightSound
  <2> QED
    BY <1>0, <1>1, <1>2, <2>2, <2>3, <2>4, <2>5 DEF FlightSound
<1>5. LaneSound(N, u, q, st, c, n)
  BY <1>0, <1>1, <1>2, <1>3, <1>4 DEF LaneSound, HasUnsaved
<1>6. Queued(L, s) = Schedule(N) /\ st.at <= u /\ c \in Records
  BY <1>0 DEF Queued, Deliveries, Records
<1> HIDE DEF N
<1>7. /\ Schedule(N) \in Lanes /\ LaneSound(Schedule(N), u, q, st, c, n)
      /\ Schedule(N).sequence = N.sequence /\ Scheduled(Schedule(N))
      /\ N.flight # None => Schedule(N).flight # None
  BY <1>0, <1>2, <1>5, <1>6, ScheduleKeeps
<1> QED
  BY <1>0, <1>2, <1>6, <1>7

-----------------------------------------------------------------------------
\* What a step leaves alone

\* An id that was handed out stays known.
LEMMA StaysSound ==
  ASSUME NEW L \in Lanes, NEW t \in Nat, NEW p, NEW st \in Deliveries, NEW ck \in Records,
         NEW m \in Nat, NEW n \in Nat, m <= n, LaneSound(L, t, p, st, ck, m)
  PROVE  LaneSound(L, t, p, st, ck, n)
<1>1. \A s \in Samples : Known(s, ck, m) => Known(s, ck, n)
  BY DEF Known, Samples
<1>2. /\ L.pending # None => L.pending \in Samples
      /\ L.failed # None => L.failed \in Samples
      /\ L.flight # None => L.flight.sample \in Samples
  BY DEF Lanes, Flights
<1>3. L.flight # None => FlightSound(L, t, p, st, ck, n)
  BY <1>1, <1>2 DEF LaneSound, FlightSound
<1> QED
  BY <1>1, <1>2, <1>3 DEF LaneSound

\* The invariant follows from what a step does to one book and its one lane.
LEMMA Assembled ==
  ASSUME Sound, TypeOK', Mapped', WaitsSound', NEW l \in Leases,
         \A k \in Leases \ {l} : lane'[k] = lane[k],
         \A k \in Leases \ {l} : BookOf[k] = BookOf[l] => lane[k] = None,
         \A b \in Books \ {BookOf[l]} :
           /\ turn'[b] = turn[b] /\ position'[b] = position[b]
           /\ stored'[b] = stored[b] /\ checkpoint'[b] = checkpoint[b],
         made <= made',
         BookSound(BookOf[l])',
         (lane[l] # None => LaneOfBook(l) /\ Scheduled(lane[l]))'
  PROVE  Sound'
<1>1. made \in Nat /\ made' \in Nat
  BY DEF Sound, TypeOK
<1>2. ASSUME NEW b \in Books PROVE BookSound(b)'
  <2>1. CASE b = BookOf[l]
    BY <2>1
  <2>2. CASE b # BookOf[l]
    <3>1. checkpoint[b] # None => checkpoint[b].id \in Nat
      BY DEF Sound, TypeOK, Checkpoints
    <3> QED
      BY <1>1, <2>2, <3>1 DEF Sound, BookSound
  <2> QED
    BY <2>1, <2>2
<1>3. ASSUME NEW k \in Leases, lane'[k] # None PROVE LaneOfBook(k)' /\ Scheduled(lane'[k])
  <2>1. CASE k = l
    BY <1>3, <2>1
  <2>2. CASE k # l
    <3> DEFINE b == BookOf[k]
    <3>1. lane'[k] = lane[k] /\ b \in Books \ {BookOf[l]}
      BY <1>3, <2>2, BookOfAssumption
    <3>2. LaneOfBook(k) /\ Scheduled(lane[k])
      BY <1>3, <3>1 DEF Sound
    <3>3. /\ lane[k] \in Lanes /\ turn[b] \in Nat /\ stored[b] \in Deliveries
          /\ checkpoint[b] \in Records
      BY <1>3, <3>1 DEF Sound, TypeOK, Deliveries, Records
    <3>4. LaneSound(lane[k], turn[b], position[b], stored[b], checkpoint[b], made')
      BY <1>1, <3>2, <3>3, StaysSound DEF LaneOfBook
    <3> QED
      BY <3>1, <3>2, <3>4 DEF LaneOfBook
  <2> QED
    BY <2>1, <2>2
<1> QED
  BY <1>2, <1>3 DEF Sound

\* The lane in the map is the only one of its book.
LEMMA OnlyLane ==
  ASSUME Sound, NEW l \in Leases
  PROVE  /\ lane[l] # None => \A k \in Leases \ {l} : BookOf[k] = BookOf[l] => lane[k] = None
         /\ held[BookOf[l]] = None =>
              \A k \in Leases : BookOf[k] = BookOf[l] => lane[k] = None
BY NoneAssumption DEF Sound, Mapped

\* The types of what belongs to a lane.
LEMMA OfLane ==
  ASSUME Sound, NEW l \in Leases
  PROVE  /\ BookOf[l] \in Books
         /\ lane[l] # None => lane[l] \in Lanes
         /\ turn[BookOf[l]] \in Nat
         /\ stored[BookOf[l]] \in Deliveries
         /\ checkpoint[BookOf[l]] \in Records
         /\ made \in Nat
         /\ stored[BookOf[l]].at \in Nat /\ stored[BookOf[l]].at <= turn[BookOf[l]]
BY BookOfAssumption DEF Sound, TypeOK, BookSound, Deliveries, Records

\* A step of the lane l that stays in the map.
Frame(b) ==
  /\ \A c \in Books \ {b} :
       /\ turn'[c] = turn[c] /\ position'[c] = position[c]
       /\ stored'[c] = stored[c] /\ checkpoint'[c] = checkpoint[c]
  /\ checkpoint' \in [Books -> Checkpoints \cup {None}]
  /\ made' \in Nat /\ made <= made'
  /\ turn' \in [Books -> Nat]
  /\ position' \in [Books -> Positions \cup {None}]
  /\ stored' \in [Books -> [at : Nat, val : Positions \cup {None}]]

LEMMA LaneStep ==
  ASSUME Sound, NEW l \in Leases, lane[l] # None, NEW N \in Lanes,
         lane' = [lane EXCEPT ![l] = N], held' = held,
         Frame(BookOf[l]),
         waits' \in [Leases -> Seq(Waiting)],
         answer' \in [Callers -> Answers \cup {None}],
         \A k \in Leases \ {l} : waits'[k] = waits[k],
         waits'[l] # <<>> => N.flight # None,
         BookSound(BookOf[l])',
         LaneSound(N, turn'[BookOf[l]], position'[BookOf[l]], stored'[BookOf[l]],
                   checkpoint'[BookOf[l]], made'),
         Scheduled(N)
  PROVE  Sound'
<1>1. /\ lane'[l] = N /\ N # None
      /\ \A k \in Leases \ {l} : lane'[k] = lane[k]
  BY NoneAssumption DEF Sound, TypeOK
<1>2. TypeOK'
  BY DEF Sound, TypeOK, Frame
<1>3. Mapped'
  BY <1>1 DEF Sound, Mapped
<1>4. WaitsSound'
  BY <1>1 DEF Sound, WaitsSound
<1>5. (LaneOfBook(l) /\ Scheduled(lane[l]))'
  BY <1>1 DEF LaneOfBook
<1>6. /\ \A c \in Books \ {BookOf[l]} :
           /\ turn'[c] = turn[c] /\ position'[c] = position[c]
           /\ stored'[c] = stored[c] /\ checkpoint'[c] = checkpoint[c]
      /\ made <= made'
  BY DEF Frame
<1> QED
  BY <1>1, <1>2, <1>3, <1>4, <1>5, <1>6, OnlyLane, Assembled

\* A step that leaves the records and the history alone.
LEMMA NoRecord ==
  ASSUME Sound, UNCHANGED <<records, history>>, NEW l \in Leases
  PROVE  /\ Frame(BookOf[l]) /\ BookSound(BookOf[l])'
         /\ turn'[BookOf[l]] = turn[BookOf[l]] /\ position'[BookOf[l]] = position[BookOf[l]]
         /\ stored'[BookOf[l]] = stored[BookOf[l]]
         /\ checkpoint'[BookOf[l]] = checkpoint[BookOf[l]] /\ made' = made
<1>1. /\ turn' = turn /\ position' = position /\ stored' = stored
      /\ checkpoint' = checkpoint /\ made' = made
  BY DEF records, history
<1> QED
  BY <1>1, OfLane DEF Sound, TypeOK, Frame, BookSound

-----------------------------------------------------------------------------
\* The actions

\* A timer starts the write of the sample that waits.
LEMMA TimerFiresSound ==
  ASSUME Sound, NEW l \in Leases, TimerFires(l)
  PROVE  Sound'
<1> DEFINE N == [lane[l] EXCEPT !.timer = FALSE]
           b == BookOf[l]
<1>1. /\ lane[l] # None /\ lane[l].timer /\ lane' = [lane EXCEPT ![l] = Start(N)]
      /\ UNCHANGED <<held, waits, answer, records, history>>
  BY DEF TimerFires
<1>2. lane[l] \in Lanes /\ LaneOfBook(l) /\ lane[l].flight = None /\ lane[l].pending # None
  BY <1>1, OfLane DEF Sound, LaneOfBook, LaneSound
<1>3. /\ N \in Lanes /\ ~N.timer /\ N.pending = lane[l].pending /\ N.failed = lane[l].failed
      /\ N.flight = lane[l].flight /\ N.sequence = lane[l].sequence
  BY <1>2 DEF Lanes
<1>4. LaneSound(N, turn[b], position[b], stored[b], checkpoint[b], made)
  BY <1>2, <1>3 DEF LaneOfBook, LaneSound, HasUnsaved, Last
<1>5. /\ Start(N) \in Lanes /\ Start(N).flight # None /\ Scheduled(Start(N))
      /\ LaneSound(Start(N), turn[b], position[b], stored[b], checkpoint[b], made)
  <2> HIDE DEF N
  <2> QED
    BY <1>2, <1>3, <1>4, OfLane, StartKeeps
<1>6. waits' \in [Leases -> Seq(Waiting)] /\ answer' \in [Callers -> Answers \cup {None}]
  BY <1>1 DEF Sound, TypeOK
<1> HIDE DEF N
<1> QED
  BY <1>1, <1>5, <1>6, NoRecord, LaneStep

\* What the end of a write does to its lane and to the flushes that wait for it.
LEMMA EndFlightKeeps ==
  ASSUME Sound, NEW l \in Leases, NEW E \in Lanes, EndFlight(l, E),
         E.flight = None, E.started,
         NEW t \in Nat, NEW p, NEW st \in Deliveries, NEW ck \in Records, NEW m \in Nat,
         st.at <= t, LaneSound(E, t, p, st, ck, m)
  PROVE  /\ \E N \in Lanes :
              /\ lane' = [lane EXCEPT ![l] = N]
              /\ LaneSound(N, t, p, st, ck, m) /\ Scheduled(N) /\ N.sequence = E.sequence
              /\ waits'[l] # <<>> => N.flight # None
         /\ waits' \in [Leases -> Seq(Waiting)]
         /\ \A k \in Leases \ {l} : waits'[k] = waits[k]
         /\ answer' \in [Callers -> Answers \cup {None}]
         /\ \A c \in Callers :
              \/ answer'[c] = answer[c]
              \/ answer'[c] = [lease |-> l, status |-> "failed"]
              \/ answer'[c] = [lease |-> l, status |-> "saved"] /\ E.sequence <= st.at
<1> DEFINE L == Schedule(E)
           W == waits[l]
           going == {i \in 1 .. Len(W) : GoesOn(L, W[i].phase)}
<1>1. /\ L \in Lanes /\ LaneSound(L, t, p, st, ck, m) /\ L.sequence = E.sequence
      /\ Scheduled(L)
  BY ScheduleKeeps
<1>2. L.flight = None
  BY DEF Schedule, Lanes
<1>3. W \in Seq(Waiting) /\ Len(W) \in Nat /\ \A i \in 1 .. Len(W) : W[i] \in Waiting
  BY DEF Sound, TypeOK
<1>4. ASSUME NEW callers, Told(l, L, callers)
      PROVE  /\ answer' \in [Callers -> Answers \cup {None}]
             /\ \A c \in Callers :
                  \/ answer'[c] = answer[c]
                  \/ c \in callers /\ answer'[c] = [lease |-> l, status |-> Verdict(L)]
  <2>1. [lease |-> l, status |-> Verdict(L)] \in Answers
    BY DEF Verdict, Answers
  <2>2. answer \in [Callers -> Answers \cup {None}]
    BY DEF Sound, TypeOK
  <2> QED
    BY <1>4, <2>1, <2>2 DEF Told
<1> HIDE DEF L
<1>5. CASE /\ going = {}
           /\ lane' = [lane EXCEPT ![l] = IF W = <<>> THEN L ELSE [L EXCEPT !.timer = FALSE]]
           /\ waits' = [waits EXCEPT ![l] = <<>>]
           /\ Told(l, L, {W[i].caller : i \in 1 .. Len(W)})
  <2> DEFINE N == IF W = <<>> THEN L ELSE [L EXCEPT !.timer = FALSE]
  <2>1. W # <<>> => L.pending = None
    <3>1. W # <<>> => 1 \in 1 .. Len(W)
      BY <1>3
    <3> QED
      BY <1>5, <3>1 DEF GoesOn
  <2>2. N \in Lanes /\ N.pending = L.pending /\ N.failed = L.failed /\ N.flight = L.flight
        /\ N.sequence = L.sequence /\ (N.timer => L.timer)
    BY <1>1 DEF Lanes
  <2>3. LaneSound(N, t, p, st, ck, m) /\ Scheduled(N)
    BY <1>1, <1>2, <2>1, <2>2 DEF LaneSound, Scheduled, HasUnsaved, Last
  <2>4. waits' \in [Leases -> Seq(Waiting)] /\ waits'[l] = <<>>
    BY <1>5 DEF Sound, TypeOK
  <2>5. \A c \in Callers :
          \/ answer'[c] = answer[c]
          \/ answer'[c] = [lease |-> l, status |-> "failed"]
          \/ answer'[c] = [lease |-> l, status |-> "saved"] /\ E.sequence <= st.at
    <3>1. CASE W = <<>>
      <4>1. 1 .. Len(W) = {}
        BY <3>1
      <4>2. {W[i].caller : i \in 1 .. Len(W)} = {}
        BY <4>1
      <4> QED
        BY <1>4, <1>5, <4>2
    <3>2. CASE W # <<>> /\ L.failed # None
      BY <1>4, <1>5, <3>2 DEF Verdict
    <3>3. CASE W # <<>> /\ L.failed = None
      <4>1. ~HasUnsaved(L)
        BY <1>2, <2>1, <3>3 DEF HasUnsaved
      <4>2. E.sequence <= st.at
        BY <1>1, <4>1 DEF LaneSound
      <4> QED
        BY <1>4, <1>5, <3>3, <4>2 DEF Verdict
    <3> QED
      BY <3>1, <3>2, <3>3
  <2>6. lane' = [lane EXCEPT ![l] = N]
    BY <1>5
  <2> HIDE DEF N
  <2> QED
    BY <1>1, <1>4, <1>5, <2>2, <2>3, <2>4, <2>5, <2>6
<1>6. CASE \E first \in going :
             /\ \A i \in going : first <= i
             /\ lane' = [lane EXCEPT ![l] = Revived(L)]
             /\ waits' = [waits EXCEPT ![l] =
                  <<[W[first] EXCEPT !.phase = "draining"]>> \o SubSeq(W, first + 1, Len(W))]
             /\ Told(l, L, {W[i].caller : i \in 1 .. first - 1})
  <2>1. PICK first \in going :
             /\ \A i \in going : first <= i
             /\ lane' = [lane EXCEPT ![l] = Revived(L)]
             /\ waits' = [waits EXCEPT ![l] =
                  <<[W[first] EXCEPT !.phase = "draining"]>> \o SubSeq(W, first + 1, Len(W))]
             /\ Told(l, L, {W[i].caller : i \in 1 .. first - 1})
    BY <1>6
  <2>2. HasUnsaved(L) /\ first \in 1 .. Len(W) /\ GoesOn(L, W[first].phase)
    BY <2>1 DEF GoesOn, HasUnsaved
  <2>3. /\ Revived(L) \in Lanes /\ LaneSound(Revived(L), t, p, st, ck, m)
        /\ Revived(L).sequence = L.sequence /\ Scheduled(Revived(L))
        /\ Revived(L).flight # None
    BY <1>1, <2>2, RevivedKeeps
  <2>4. waits' \in [Leases -> Seq(Waiting)]
    <3>1. [W[first] EXCEPT !.phase = "draining"] \in Waiting
      BY <1>3, <2>2 DEF Waiting
    <3>2. <<[W[first] EXCEPT !.phase = "draining"]>> \in Seq(Waiting)
      BY <3>1
    <3>3. SubSeq(W, first + 1, Len(W)) \in Seq(Waiting)
      BY <1>3, <2>2, SubSeqProperties
    <3>4. <<[W[first] EXCEPT !.phase = "draining"]>> \o SubSeq(W, first + 1, Len(W))
            \in Seq(Waiting)
      BY <3>2, <3>3, ConcatProperties
    <3> QED
      BY <2>1, <3>4 DEF Sound, TypeOK
  <2>5. \A c \in Callers :
          \/ answer'[c] = answer[c]
          \/ answer'[c] = [lease |-> l, status |-> "failed"]
    <3>1. CASE L.failed # None
      BY <1>4, <2>1, <3>1 DEF Verdict
    <3>2. CASE L.failed = None
      <4>1. L.pending # None
        BY <2>2, <3>2 DEF GoesOn
      <4>2. 1 \in going
        BY <1>3, <2>2, <4>1 DEF GoesOn
      <4>3. first = 1
        <5>1. first <= 1
          BY <2>1, <4>2
        <5>2. first \in Int /\ 1 <= first
          BY <1>3, <2>2
        <5> HIDE DEF W, going
        <5> QED
          BY <5>1, <5>2
      <4>4. {W[i].caller : i \in 1 .. first - 1} = {}
        BY <4>3
      <4> QED
        BY <1>4, <2>1, <4>4
    <3> QED
      BY <3>1, <3>2
  <2> QED
    BY <1>1, <1>4, <2>1, <2>3, <2>4, <2>5
<1> QED
  BY <1>5, <1>6 DEF EndFlight, L

\* The store takes the sample: the older position it had is replaced, and a
\* sample that is not the last one leaves the record of the last.
LEMMA DeliverSound ==
  ASSUME Sound, NEW l \in Leases, Deliver(l)
  PROVE  Sound'
<1> DEFINE b == BookOf[l]
           f == lane[l].flight
           N == [lane[l] EXCEPT !.flight.stage = "stored"]
           d == [at |-> f.sample.at, val |-> f.sample.val]
<1>1. /\ lane[l] # None /\ f # None /\ f.stage = "sent"
      /\ lane' = [lane EXCEPT ![l] = N]
      /\ stored' = [stored EXCEPT ![b] = d]
      /\ UNCHANGED <<held, waits, answer, records, turn, position>>
  BY DEF Deliver
<1>2. lane[l] \in Lanes /\ LaneOfBook(l) /\ Scheduled(lane[l]) /\ BookSound(b)
  BY <1>1, OfLane DEF Sound
<1>3. f \in Flights /\ f.sample \in Samples
  BY <1>1, <1>2 DEF Lanes, Flights
<1>4. FlightSound(lane[l], turn[b], position[b], stored[b], checkpoint[b], made)
  BY <1>1, <1>2 DEF LaneOfBook, LaneSound
<1>5. /\ N \in Lanes /\ N.timer = lane[l].timer /\ N.pending = lane[l].pending
      /\ N.failed = lane[l].failed /\ N.sequence = lane[l].sequence
      /\ N.started = lane[l].started
      /\ N.flight = [f EXCEPT !.stage = "stored"]
  BY <1>1, <1>2, <1>3 DEF Lanes, Flights
<1>6. N.flight \in Flights /\ N.flight # None /\ N.flight.sample = f.sample
  BY <1>3, <1>5, NoneAssumption DEF Flights
<1>7. d \in Deliveries /\ d.at = f.sample.at /\ d.val = f.sample.val
  BY <1>3 DEF Deliveries, Samples
<1>8. FlightSound(N, turn[b], position[b], d, checkpoint[b], made)
  BY <1>3, <1>4, <1>5, <1>6, <1>7 DEF FlightSound, Last, Samples
<1>9. LaneSound(N, turn[b], position[b], d, checkpoint[b], made) /\ Scheduled(N)
  BY <1>1, <1>2, <1>5, <1>6, <1>8 DEF LaneOfBook, LaneSound, HasUnsaved, Last, Scheduled
<1>10. stored'[b] = d /\ stored' \in [Books -> [at : Nat, val : Positions \cup {None}]]
  BY <1>1, <1>7, OfLane DEF Sound, TypeOK, Deliveries
<1>11. /\ turn' = turn /\ position' = position /\ checkpoint' = checkpoint /\ made' = made
  BY <1>1 DEF records
<1>12. BookSound(b)'
  BY <1>2, <1>4, <1>7, <1>10, <1>11 DEF BookSound, FlightSound
<1>13. Frame(b)
  BY <1>1, <1>10, <1>11 DEF Frame, Sound, TypeOK
<1>14. waits' = waits /\ waits' \in [Leases -> Seq(Waiting)]
       /\ answer' \in [Callers -> Answers \cup {None}] /\ held' = held
  BY <1>1 DEF Sound, TypeOK
<1>15. LaneSound(N, turn'[b], position'[b], stored'[b], checkpoint'[b], made')
  BY <1>9, <1>10, <1>11
<1> HIDE DEF N, d
<1> QED
  BY <1>1, <1>5, <1>6, <1>9, <1>12, <1>13, <1>14, <1>15, LaneStep

\* The confirmed sample's record has its position, which is then the last one,
\* and in the store.
LEMMA ConfirmSound ==
  ASSUME Sound, NEW l \in Leases, Confirm(l)
  PROVE  Sound'
<1> DEFINE b == BookOf[l]
           L == lane[l]
           s == lane[l].flight.sample
           E == AfterSuccess(lane[l])
           ck == checkpoint'[b]
<1>1. /\ L # None /\ L.flight # None /\ L.flight.stage = "stored"
      /\ EndFlight(l, E)
      /\ UNCHANGED <<held, made, history>>
      /\ \/ UNCHANGED checkpoint
         \/ checkpoint' = [checkpoint EXCEPT ![b] = Acknowledged(checkpoint[b], s.id)]
  BY DEF Confirm
<1>2. L \in Lanes /\ LaneOfBook(l) /\ BookSound(b) /\ b \in Books
  BY <1>1, OfLane DEF Sound
<1>3. FlightSound(L, turn[b], position[b], stored[b], checkpoint[b], made)
  BY <1>1, <1>2 DEF LaneOfBook, LaneSound
<1>4. /\ E \in Lanes /\ E.started /\ E.flight = None
      /\ LaneSound(E, turn[b], position[b], stored[b], checkpoint[b], made)
  BY <1>1, <1>2, OfLane, AfterSuccessKeeps DEF LaneOfBook
<1>5. ck = checkpoint[b] \/ (ck = None /\ checkpoint[b] # None /\ checkpoint[b].id = s.id)
  BY <1>1, <1>2 DEF Acknowledged, Sound, TypeOK
<1>6. checkpoint' \in [Books -> Checkpoints \cup {None}]
      /\ \A c \in Books \ {b} : checkpoint'[c] = checkpoint[c]
  BY <1>1, <1>2 DEF Acknowledged, Sound, TypeOK
<1>7. LaneSound(E, turn[b], position[b], stored[b], ck, made)
  BY <1>4, <1>5 DEF LaneSound, Known
<1>8. turn' = turn /\ position' = position /\ stored' = stored /\ made' = made /\ held' = held
  BY <1>1 DEF history
<1>9. BookSound(b)'
  <2>1. CASE ck = checkpoint[b]
    BY <1>2, <1>8, <2>1 DEF BookSound
  <2>2. CASE ck = None /\ checkpoint[b] # None /\ checkpoint[b].id = s.id
    <3>1. s.val = position[b] /\ stored[b].val = s.val
      BY <1>1, <1>2, <1>3, <2>2 DEF BookSound, FlightSound, Known
    <3> QED
      BY <1>2, <1>8, <2>2, <3>1 DEF BookSound
  <2> QED
    BY <1>5, <2>1, <2>2
<1>10. Frame(b)
  BY <1>6, <1>8, OfLane DEF Frame, Sound, TypeOK
<1>11. ck \in Records
  BY <1>2, <1>6 DEF Records
<1> HIDE DEF E
<1>12. /\ \E N \in Lanes :
            /\ lane' = [lane EXCEPT ![l] = N]
            /\ LaneSound(N, turn[b], position[b], stored[b], ck, made) /\ Scheduled(N)
            /\ waits'[l] # <<>> => N.flight # None
       /\ waits' \in [Leases -> Seq(Waiting)]
       /\ \A k \in Leases \ {l} : waits'[k] = waits[k]
       /\ answer' \in [Callers -> Answers \cup {None}]
  <2>1. /\ turn[b] \in Nat /\ stored[b] \in Deliveries /\ made \in Nat
        /\ stored[b].at <= turn[b]
    BY OfLane
  <2>2. EndFlight(l, E)
    BY <1>1
  <2> HIDE DEF b, ck
  <2> QED
    BY <1>4, <1>7, <1>11, <2>1, <2>2, EndFlightKeeps
<1>13. PICK N \in Lanes :
            /\ lane' = [lane EXCEPT ![l] = N]
            /\ LaneSound(N, turn[b], position[b], stored[b], ck, made) /\ Scheduled(N)
            /\ waits'[l] # <<>> => N.flight # None
  BY <1>12
<1> QED
  BY <1>1, <1>8, <1>9, <1>10, <1>12, <1>13, LaneStep

\* A failed write keeps the last position, waiting or failed.
LEMMA RejectSound ==
  ASSUME Sound, NEW l \in Leases, Reject(l)
  PROVE  Sound'
<1> DEFINE b == BookOf[l]
           L == lane[l]
           E == AfterFailure(lane[l])
           ck == checkpoint[b]
<1>1. /\ L # None /\ L.flight # None /\ EndFlight(l, E)
      /\ UNCHANGED <<held, records, history>>
  BY DEF Reject
<1>2. L \in Lanes /\ LaneOfBook(l)
  BY <1>1, OfLane DEF Sound
<1>3. /\ E \in Lanes /\ E.started /\ E.flight = None
      /\ LaneSound(E, turn[b], position[b], stored[b], ck, made)
  BY <1>1, <1>2, OfLane, AfterFailureKeeps DEF LaneOfBook
<1> HIDE DEF E
<1>4. /\ \E N \in Lanes :
            /\ lane' = [lane EXCEPT ![l] = N]
            /\ LaneSound(N, turn[b], position[b], stored[b], ck, made) /\ Scheduled(N)
            /\ waits'[l] # <<>> => N.flight # None
      /\ waits' \in [Leases -> Seq(Waiting)]
      /\ \A k \in Leases \ {l} : waits'[k] = waits[k]
      /\ answer' \in [Callers -> Answers \cup {None}]
  <2>1. /\ turn[b] \in Nat /\ stored[b] \in Deliveries /\ made \in Nat
        /\ stored[b].at <= turn[b] /\ ck \in Records
    BY OfLane
  <2>2. EndFlight(l, E)
    BY <1>1
  <2> HIDE DEF b, ck
  <2> QED
    BY <1>3, <2>1, <2>2, EndFlightKeeps
<1>5. PICK N \in Lanes :
        /\ lane' = [lane EXCEPT ![l] = N]
        /\ LaneSound(N, turn[b], position[b], stored[b], ck, made)
        /\ Scheduled(N)
        /\ waits'[l] # <<>> => N.flight # None
  BY <1>4
<1>6. LaneSound(N, turn'[b], position'[b], stored'[b], checkpoint'[b], made')
  BY <1>1, <1>5, NoRecord
<1>7. Frame(b) /\ BookSound(b)' /\ held' = held
  BY <1>1, NoRecord
<1> QED
  BY <1>1, <1>4, <1>5, <1>6, <1>7, LaneStep

\* A flush starts what there is to write, or finds nothing.
LEMMA FlushSound ==
  ASSUME Sound, NEW c \in Callers, NEW l \in Leases, Flush(c, l)
  PROVE  Sound'
<1> DEFINE b == BookOf[l]
           L == [lane[l] EXCEPT !.timer = FALSE]
           entry(phase) == [caller |-> c, phase |-> phase]
           wait(phase) == /\ waits' = [waits EXCEPT ![l] = Append(waits[l], entry(phase))]
                          /\ answer' = [answer EXCEPT ![c] = [lease |-> l, status |-> "waiting"]]
<1>1. /\ held[b] = l /\ UNCHANGED <<records, history>> /\ held' = held
      /\ \/ /\ L.flight # None
            /\ lane' = [lane EXCEPT ![l] = L]
            /\ wait("settling")
         \/ /\ L.flight = None /\ GoesOn(L, "settling")
            /\ lane' = [lane EXCEPT ![l] = Revived(L)]
            /\ wait("draining")
         \/ /\ ~HasUnsaved(L)
            /\ lane' = [lane EXCEPT ![l] = L]
            /\ answer' = [answer EXCEPT ![c] = [lease |-> l, status |-> "saved"]]
            /\ UNCHANGED waits
  BY DEF Flush
<1>2. lane[l] # None /\ lane[l] \in Lanes /\ LaneOfBook(l)
  <2>1. lane[l] # None
    BY <1>1 DEF Sound, Mapped
  <2> QED
    BY <2>1, OfLane DEF Sound
<1>3. /\ L \in Lanes /\ ~L.timer /\ L.pending = lane[l].pending /\ L.failed = lane[l].failed
      /\ L.flight = lane[l].flight /\ L.sequence = lane[l].sequence
      /\ L.started = lane[l].started
  BY <1>2 DEF Lanes
<1>4. LaneSound(L, turn[b], position[b], stored[b], checkpoint[b], made)
  <2>1. L.flight # None => FlightSound(L, turn[b], position[b], stored[b], checkpoint[b], made)
    BY <1>2, <1>3 DEF LaneOfBook, LaneSound, FlightSound, Last
  <2> QED
    BY <1>2, <1>3, <2>1 DEF LaneOfBook, LaneSound, HasUnsaved, Last
<1>5. /\ Frame(b) /\ BookSound(b)'
      /\ turn'[b] = turn[b] /\ position'[b] = position[b] /\ stored'[b] = stored[b]
      /\ checkpoint'[b] = checkpoint[b] /\ made' = made
  BY <1>1, NoRecord
<1> HIDE DEF L
<1>6. ASSUME NEW phase \in {"settling", "draining"}, wait(phase)
      PROVE  /\ waits' \in [Leases -> Seq(Waiting)]
             /\ answer' \in [Callers -> Answers \cup {None}]
             /\ \A k \in Leases \ {l} : waits'[k] = waits[k]
  <2>1. entry(phase) \in Waiting /\ [lease |-> l, status |-> "waiting"] \in Answers
    BY DEF Waiting, Answers
  <2>2. waits[l] \in Seq(Waiting)
    BY DEF Sound, TypeOK
  <2>3. Append(waits[l], entry(phase)) \in Seq(Waiting)
    BY <2>1, <2>2, AppendProperties
  <2> HIDE DEF entry
  <2> QED
    BY <1>6, <2>1, <2>3 DEF Sound, TypeOK
<1>7. CASE L.flight # None /\ lane' = [lane EXCEPT ![l] = L] /\ wait("settling")
  <2>1. Scheduled(L)
    BY <1>7 DEF Scheduled
  <2>2. LaneSound(L, turn'[b], position'[b], stored'[b], checkpoint'[b], made')
    BY <1>4, <1>5
  <2>3. /\ waits' \in [Leases -> Seq(Waiting)]
        /\ answer' \in [Callers -> Answers \cup {None}]
        /\ \A k \in Leases \ {l} : waits'[k] = waits[k]
    BY <1>6, <1>7
  <2> QED
    BY <1>1, <1>2, <1>3, <1>5, <1>7, <2>1, <2>2, <2>3, LaneStep
<1>8. CASE /\ L.flight = None /\ GoesOn(L, "settling")
           /\ lane' = [lane EXCEPT ![l] = Revived(L)] /\ wait("draining")
  <2>1. HasUnsaved(L)
    BY <1>8 DEF GoesOn, HasUnsaved
  <2>2. /\ Revived(L) \in Lanes /\ Scheduled(Revived(L)) /\ Revived(L).flight # None
        /\ LaneSound(Revived(L), turn[b], position[b], stored[b], checkpoint[b], made)
    BY <1>3, <1>4, <2>1, OfLane, RevivedKeeps
  <2>3. LaneSound(Revived(L), turn'[b], position'[b], stored'[b], checkpoint'[b], made')
    BY <1>5, <2>2
  <2>4. /\ waits' \in [Leases -> Seq(Waiting)]
        /\ answer' \in [Callers -> Answers \cup {None}]
        /\ \A k \in Leases \ {l} : waits'[k] = waits[k]
    BY <1>6, <1>8
  <2> QED
    BY <1>1, <1>2, <1>5, <1>8, <2>2, <2>3, <2>4, LaneStep
<1>9. CASE /\ ~HasUnsaved(L) /\ lane' = [lane EXCEPT ![l] = L]
           /\ answer' = [answer EXCEPT ![c] = [lease |-> l, status |-> "saved"]]
           /\ UNCHANGED waits
  <2>1. Scheduled(L) /\ L.flight = None
    BY <1>9 DEF Scheduled, HasUnsaved
  <2>2. LaneSound(L, turn'[b], position'[b], stored'[b], checkpoint'[b], made')
    BY <1>4, <1>5
  <2>3. waits[l] = <<>>
    BY <1>2, <1>3, <2>1 DEF Sound, WaitsSound
  <2>4. /\ waits' \in [Leases -> Seq(Waiting)]
        /\ answer' \in [Callers -> Answers \cup {None}]
    BY <1>9 DEF Sound, TypeOK, Answers
  <2> QED
    BY <1>1, <1>2, <1>3, <1>5, <1>9, <2>1, <2>2, <2>3, <2>4, LaneStep
<1> QED
  BY <1>1, <1>7, <1>8, <1>9 DEF L

\* The record that a position is staged in.
LEMMA StageKeeps ==
  ASSUME Sound, NEW b \in Books, NEW shown \in Stamps, NEW val \in Positions,
         Stage(b, shown, val)
  PROVE  LET c == Staged(b, shown, val)
         IN  /\ c \in Checkpoints /\ c # None /\ c.val = val
             /\ made' \in Nat /\ made <= made' /\ c.id <= made'
             /\ c = checkpoint[b] \/ (c.id = made' /\ made' = made + 1)
             /\ checkpoint'[b] = c
             /\ \A d \in Books \ {b} : checkpoint'[d] = checkpoint[d]
             /\ checkpoint' \in [Books -> Checkpoints \cup {None}]
<1> DEFINE c == Staged(b, shown, val)
           fresh == [id |-> made + 1, shown |-> shown, val |-> val]
<1>1. made \in Nat /\ checkpoint \in [Books -> Checkpoints \cup {None}]
  BY DEF Sound, TypeOK
<1>2. /\ checkpoint' = [checkpoint EXCEPT ![b] = c]
      /\ made' = IF c.id > made THEN made + 1 ELSE made
  BY DEF Stage
<1>3. CASE checkpoint[b] # None /\ checkpoint[b].val = val
  <2>1. c = checkpoint[b] /\ c \in Checkpoints /\ c.id <= made
    BY <1>1, <1>3 DEF Staged, Sound, BookSound
  <2>2. made' = made /\ c.id \in Nat
    BY <1>1, <1>2, <2>1 DEF Checkpoints
  <2> HIDE DEF c
  <2> QED
    BY <1>1, <1>2, <1>3, <2>1, <2>2 DEF c
<1>4. CASE ~(checkpoint[b] # None /\ checkpoint[b].val = val)
  <2>1. c = fresh /\ fresh \in Checkpoints /\ fresh.id = made + 1 /\ fresh.val = val
    BY <1>1, <1>4 DEF Staged, Checkpoints
  <2>2. made' = made + 1 /\ c # None
    BY <1>1, <1>2, <2>1, NoneAssumption
  <2> HIDE DEF c, fresh
  <2> QED
    BY <1>1, <1>2, <2>1, <2>2 DEF c
<1> QED
  BY <1>3, <1>4

\* A recorded position is the last one, and staged.
LEMMA RecordedKeeps ==
  ASSUME Sound, NEW b \in Books, NEW shown \in Stamps, NEW val \in Positions,
         Recorded(b, val), Stage(b, shown, val)
  PROVE  /\ turn'[b] = turn[b] + 1 /\ position'[b] = val /\ stored'[b] = stored[b]
         /\ Frame(b) /\ BookSound(b)'
<1>1. /\ turn' = [turn EXCEPT ![b] = @ + 1] /\ position' = [position EXCEPT ![b] = val]
      /\ stored' = stored
  BY DEF Recorded
<1>2. /\ turn \in [Books -> Nat] /\ position \in [Books -> Positions \cup {None}]
      /\ stored \in [Books -> [at : Nat, val : Positions \cup {None}]]
      /\ stored[b].at \in Nat /\ stored[b].at <= turn[b]
  BY DEF Sound, TypeOK, BookSound
<1>3. turn'[b] = turn[b] + 1 /\ position'[b] = val /\ turn[b] \in Nat
  BY <1>1, <1>2
<1> HIDE DEF Staged
<1>4. Frame(b)
  BY <1>1, <1>2, StageKeeps DEF Frame
<1>5. BookSound(b)'
  BY <1>1, <1>2, <1>3, StageKeeps DEF BookSound
<1> QED
  BY <1>1, <1>3, <1>4, <1>5

\* A page turn is queued with the id of its record.
LEMMA AcceptSound ==
  ASSUME Sound, NEW l \in Leases, NEW shown \in Stamps, NEW val \in Positions,
         Accept(l, shown, val)
  PROVE  Sound'
<1> DEFINE b == BookOf[l]
           ck == Staged(b, shown, val)
           s == [at |-> turn'[b], id |-> ck.id, val |-> val]
           N == Queued(lane[l], s)
<1>1. /\ held[b] = l /\ Recorded(b, val) /\ Stage(b, shown, val)
      /\ lane' = [lane EXCEPT ![l] = N]
      /\ held' = held /\ waits' = waits /\ answer' = answer
  BY DEF Accept
<1>2. b \in Books /\ lane[l] # None /\ lane[l] \in Lanes /\ LaneOfBook(l) /\ Scheduled(lane[l])
  BY <1>1, OfLane DEF Sound, Mapped
<1>3. /\ turn[b] \in Nat /\ turn'[b] = turn[b] + 1 /\ position'[b] = val
      /\ stored'[b] = stored[b] /\ Frame(b) /\ BookSound(b)'
  BY <1>1, <1>2, OfLane, RecordedKeeps
<1>4. /\ ck \in Checkpoints /\ ck.val = val /\ ck.id <= made' /\ made' \in Nat
      /\ made <= made' /\ checkpoint'[b] = ck
      /\ ck = checkpoint[b] \/ (ck.id = made' /\ made' = made + 1)
  BY <1>1, <1>2, StageKeeps
<1>5. s \in Samples /\ s.at = turn[b] + 1 /\ s.val = val /\ s.id = ck.id
  BY <1>3, <1>4 DEF Samples, Checkpoints
<1>6. LaneSound(lane[l], turn[b], position[b], stored[b], checkpoint[b], made)
  BY <1>2 DEF LaneOfBook
<1> HIDE DEF ck, s
<1>7. /\ N \in Lanes /\ Scheduled(N)
      /\ LaneSound(N, turn'[b], val, stored[b], ck, made')
      /\ lane[l].flight # None => N.flight # None
  <2>1. /\ turn[b] \in Nat /\ stored[b] \in Deliveries /\ checkpoint[b] \in Records
        /\ made \in Nat /\ stored[b].at <= turn[b]
    BY OfLane
  <2>2. Newest(s, ck, made', lane[l], turn[b], checkpoint[b], made)
    BY <1>4, <1>5 DEF Newest
  <2>3. s.at = turn'[b] /\ s.val = val
    BY <1>3, <1>5
  <2> HIDE DEF b
  <2> QED
    BY <1>2, <1>4, <1>5, <1>6, <2>1, <2>2, <2>3, QueuedKeeps
<1> HIDE DEF N
<1>8. LaneSound(N, turn'[b], position'[b], stored'[b], checkpoint'[b], made')
  BY <1>3, <1>4, <1>7
<1>9. /\ waits' \in [Leases -> Seq(Waiting)] /\ answer' \in [Callers -> Answers \cup {None}]
      /\ waits'[l] # <<>> => N.flight # None
  BY <1>1, <1>7 DEF Sound, TypeOK, WaitsSound
<1> QED
  BY <1>1, <1>2, <1>3, <1>7, <1>8, <1>9, LaneStep

\* A position that is only staged belongs to a book without a lane.
LEMMA StageOnlySound ==
  ASSUME Sound, NEW b \in Books, NEW shown \in Stamps, NEW val \in Positions,
         StageOnly(b, shown, val)
  PROVE  Sound'
<1>1. /\ held[b] = None /\ Recorded(b, val) /\ Stage(b, shown, val)
      /\ held' = held /\ lane' = lane /\ waits' = waits /\ answer' = answer
  BY DEF StageOnly, writer
<1>2. Frame(b) /\ BookSound(b)'
  BY <1>1, RecordedKeeps
<1>3. TypeOK' /\ Mapped' /\ WaitsSound'
  BY <1>1, <1>2 DEF Sound, TypeOK, Frame, Mapped, WaitsSound
<1>4. ASSUME NEW d \in Books PROVE BookSound(d)'
  <2>1. CASE d = b
    BY <1>2, <2>1
  <2>2. CASE d # b
    <3>1. /\ made \in Nat /\ made' \in Nat /\ made <= made'
          /\ checkpoint[d] # None => checkpoint[d].id \in Nat
      BY <1>2 DEF Frame, Sound, TypeOK, Checkpoints
    <3> QED
      BY <1>2, <2>2, <3>1 DEF Frame, Sound, BookSound
  <2> QED
    BY <2>1, <2>2
<1>5. ASSUME NEW k \in Leases, lane'[k] # None PROVE LaneOfBook(k)' /\ Scheduled(lane'[k])
  <2> DEFINE d == BookOf[k]
  <2>1. lane[k] # None /\ d \in Books /\ d # b
    BY <1>1, <1>5, BookOfAssumption, NoneAssumption DEF Sound, Mapped
  <2>2. /\ LaneOfBook(k) /\ Scheduled(lane[k]) /\ lane[k] \in Lanes /\ turn[d] \in Nat
        /\ stored[d] \in Deliveries /\ checkpoint[d] \in Records
    BY <2>1, OfLane DEF Sound
  <2>3. made \in Nat /\ made' \in Nat /\ made <= made'
    BY <1>2 DEF Frame, Sound, TypeOK
  <2>4. LaneSound(lane[k], turn[d], position[d], stored[d], checkpoint[d], made')
    BY <2>2, <2>3, StaysSound DEF LaneOfBook
  <2>5. /\ turn'[d] = turn[d] /\ position'[d] = position[d]
        /\ stored'[d] = stored[d] /\ checkpoint'[d] = checkpoint[d]
    BY <1>2, <2>1 DEF Frame
  <2> QED
    BY <1>1, <2>2, <2>4, <2>5 DEF LaneOfBook
<1> QED
  BY <1>3, <1>4, <1>5 DEF Sound

\* A lane without a write under way leaves the map.
LEMMA DropStep ==
  ASSUME Sound, NEW l \in Leases, held[BookOf[l]] = l, lane[l].flight = None, Drop(l),
         Frame(BookOf[l]), BookSound(BookOf[l])'
  PROVE  Sound'
<1>1. /\ held' = [held EXCEPT ![BookOf[l]] = None] /\ lane' = [lane EXCEPT ![l] = None]
      /\ waits' = waits /\ answer' = answer
  BY DEF Drop
<1>2. lane[l] # None /\ lane'[l] = None /\ \A k \in Leases \ {l} : lane'[k] = lane[k]
  BY <1>1 DEF Sound, TypeOK, Mapped
<1>3. TypeOK'
  BY <1>1 DEF Sound, TypeOK, Frame
<1>4. Mapped'
  BY <1>1, <1>2, BookOfAssumption, NoneAssumption DEF Sound, TypeOK, Mapped
<1>5. WaitsSound'
  BY <1>1, <1>2 DEF Sound, WaitsSound
<1>6. /\ \A c \in Books \ {BookOf[l]} :
           /\ turn'[c] = turn[c] /\ position'[c] = position[c]
           /\ stored'[c] = stored[c] /\ checkpoint'[c] = checkpoint[c]
      /\ made <= made'
  BY DEF Frame
<1> QED
  BY <1>2, <1>3, <1>4, <1>5, <1>6, OnlyLane, Assembled

LEMMA RetireSound ==
  ASSUME Sound, NEW l \in Leases, Retire(l)
  PROVE  Sound'
<1>1. /\ held[BookOf[l]] = l /\ lane[l].flight = None /\ Drop(l)
      /\ UNCHANGED <<records, history>>
  BY DEF Retire, MayRetire, HasUnsaved
<1> QED
  BY <1>1, NoRecord, DropStep

\* The sample that is staged again is the last position.
LEMMA RetainKeeps ==
  ASSUME Sound, NEW l \in Leases, NEW shown \in Stamps, held[BookOf[l]] = l,
         lane[l].flight = None, Retain(l, shown), UNCHANGED history
  PROVE  Frame(BookOf[l]) /\ BookSound(BookOf[l])'
<1> DEFINE b == BookOf[l]
           L == lane[l]
<1>1. /\ held[b] = l /\ L.flight = None /\ UNCHANGED history
      /\ IF L.pending # None THEN Stage(b, shown, L.pending.val)
         ELSE IF L.failed # None THEN Stage(b, shown, L.failed.val)
         ELSE UNCHANGED records
  BY DEF Retain
<1>2. b \in Books /\ L # None /\ L \in Lanes /\ LaneOfBook(l) /\ BookSound(b)
  BY <1>1, OfLane DEF Sound, Mapped
<1>3. ASSUME NEW s \in Samples, s.val = position[b], Stage(b, shown, s.val)
      PROVE  Frame(b) /\ BookSound(b)'
  <2>1. s.val \in Positions /\ turn' = turn /\ position' = position /\ stored' = stored
    BY <1>1 DEF Samples, history
  <2> DEFINE ck == Staged(b, shown, s.val)
  <2>2. /\ ck # None /\ ck.val = s.val /\ made' \in Nat /\ made <= made'
        /\ ck.id <= made' /\ checkpoint'[b] = ck
        /\ \A d \in Books \ {b} : checkpoint'[d] = checkpoint[d]
        /\ checkpoint' \in [Books -> Checkpoints \cup {None}]
    BY <1>2, <1>3, <2>1, StageKeeps
  <2> HIDE DEF ck
  <2>3. Frame(b)
    BY <2>1, <2>2 DEF Frame, Sound, TypeOK
  <2> QED
    BY <1>2, <1>3, <2>1, <2>2, <2>3 DEF BookSound
<1>4. CASE L.pending # None
  <2>1. L.pending \in Samples /\ L.pending.val = position[b]
    BY <1>2, <1>4 DEF Lanes, LaneOfBook, LaneSound, Last
  <2> QED
    BY <1>1, <1>3, <1>4, <2>1
<1>5. CASE L.pending = None /\ L.failed # None
  <2>1. L.failed \in Samples /\ L.failed.val = position[b]
    BY <1>2, <1>5 DEF Lanes, LaneOfBook, LaneSound, Last
  <2> QED
    BY <1>1, <1>3, <1>5, <2>1
<1>6. CASE L.pending = None /\ L.failed = None
  BY <1>1, <1>2, <1>6, NoRecord
<1> QED
  BY <1>4, <1>5, <1>6

LEMMA HandoffSound ==
  ASSUME Sound, NEW l \in Leases, NEW shown \in Stamps, Handoff(l, shown)
  PROVE  Sound'
<1>1. /\ held[BookOf[l]] = l /\ lane[l].flight = None
      /\ Retain(l, shown) /\ Drop(l) /\ UNCHANGED history
  BY DEF Handoff, MayHandOff
<1> QED
  BY <1>1, RetainKeeps, DropStep

\* The new lane of a book that has none.
LEMMA RegisterStep ==
  ASSUME Sound, NEW l \in Leases, NEW N \in Lanes, Register(l, N),
         Frame(BookOf[l]), BookSound(BookOf[l])',
         LaneSound(N, turn'[BookOf[l]], position'[BookOf[l]], stored'[BookOf[l]],
                   checkpoint'[BookOf[l]], made'),
         Scheduled(N)
  PROVE  Sound'
<1> DEFINE b == BookOf[l]
<1>1. /\ held[b] = None /\ lane[l] = None
      /\ held' = [held EXCEPT ![b] = l] /\ lane' = [lane EXCEPT ![l] = N]
      /\ waits' = waits /\ answer' = answer
  BY DEF Register
<1>2. lane'[l] = N /\ N # None /\ b \in Books /\ held'[b] = l
  BY <1>1, NoneAssumption, BookOfAssumption DEF Sound, TypeOK
<1>3. \A k \in Leases \ {l} : lane'[k] = lane[k]
  BY <1>1 DEF Sound, TypeOK
<1>4. \A k \in Leases \ {l} : BookOf[k] = b => lane[k] = None
  BY <1>1, OnlyLane
<1>5. TypeOK'
  BY <1>1 DEF Sound, TypeOK, Frame
<1>6. Mapped'
  <2>1. \A c \in Books \ {b} : held'[c] = held[c]
    BY <1>1 DEF Sound, TypeOK
  <2>2. ASSUME NEW k \in Leases PROVE lane'[k] # None <=> held'[BookOf[k]] = k
    <3>1. CASE BookOf[k] = b
      BY <1>2, <1>3, <1>4, <3>1
    <3>2. CASE BookOf[k] # b
      BY <1>3, <2>1, <3>2, BookOfAssumption DEF Sound, Mapped
    <3> QED
      BY <3>1, <3>2
  <2>3. ASSUME NEW c \in Books, held'[c] # None PROVE BookOf[held'[c]] = c
    BY <1>2, <2>1, <2>3 DEF Sound, Mapped
  <2> QED
    BY <2>2, <2>3 DEF Mapped
<1>7. WaitsSound'
  BY <1>1, <1>3 DEF Sound, WaitsSound
<1>8. (LaneOfBook(l) /\ Scheduled(lane[l]))'
  BY <1>2 DEF LaneOfBook
<1>9. /\ \A c \in Books \ {b} :
           /\ turn'[c] = turn[c] /\ position'[c] = position[c]
           /\ stored'[c] = stored[c] /\ checkpoint'[c] = checkpoint[c]
      /\ made <= made'
  BY DEF Frame
<1> QED
  BY <1>3, <1>4, <1>5, <1>6, <1>7, <1>8, <1>9, Assembled

\* A new lane has nothing to write.
LEMMA NewLaneSound ==
  /\ NewLane \in Lanes /\ Scheduled(NewLane) /\ ~HasUnsaved(NewLane)
  /\ \A t, p, ck, m : \A st \in Deliveries : LaneSound(NewLane, t, p, st, ck, m)
  /\ NewLane.flight = None
BY DEF NewLane, Lanes, Scheduled, HasUnsaved, LaneSound, Deliveries

LEMMA OpenSound ==
  ASSUME Sound, NEW l \in Leases, Open(l)
  PROVE  Sound'
<1>1. Register(l, NewLane) /\ UNCHANGED <<records, history>>
  BY DEF Open
<1>2. stored'[BookOf[l]] \in Deliveries
  BY <1>1, NoRecord, OfLane
<1>3. LaneSound(NewLane, turn'[BookOf[l]], position'[BookOf[l]], stored'[BookOf[l]],
                checkpoint'[BookOf[l]], made')
  BY <1>2, NewLaneSound
<1> QED
  BY <1>1, <1>3, NoRecord, NewLaneSound, RegisterStep

\* What the store has is the last position when the record says the same.
LEMMA OpenSavedSound ==
  ASSUME Sound, NEW l \in Leases, NEW id, OpenSaved(l, id)
  PROVE  Sound'
<1> DEFINE b == BookOf[l]
           d == [at |-> turn[b], val |-> checkpoint[b].val]
<1>1. /\ Register(l, NewLane) /\ checkpoint[b] # None
      /\ checkpoint' = [checkpoint EXCEPT ![b] = None]
      /\ stored' = [stored EXCEPT ![b] = d]
      /\ made' = made /\ turn' = turn /\ position' = position
  BY DEF OpenSaved
<1>2. b \in Books /\ turn[b] \in Nat /\ BookSound(b) /\ checkpoint[b] \in Checkpoints
  BY <1>1, OfLane DEF Sound, Records
<1>3. d \in Deliveries /\ d.at = turn[b] /\ d.val = position[b]
  BY <1>1, <1>2 DEF Deliveries, Checkpoints, BookSound
<1>4. /\ stored'[b] = d /\ checkpoint'[b] = None
      /\ stored' \in [Books -> [at : Nat, val : Positions \cup {None}]]
  BY <1>1, <1>2, <1>3 DEF Sound, TypeOK, Deliveries
<1>5. Frame(b)
  BY <1>1, <1>4 DEF Frame, Sound, TypeOK
<1>6. BookSound(b)'
  BY <1>1, <1>2, <1>3, <1>4 DEF BookSound
<1>7. LaneSound(NewLane, turn'[b], position'[b], stored'[b], checkpoint'[b], made')
  BY <1>3, <1>4, NewLaneSound
<1> QED
  BY <1>1, <1>5, <1>6, <1>7, NewLaneSound, RegisterStep

\* The checkpoint's position is the last one, or becomes it.
LEMMA OpenRestoringSound ==
  ASSUME Sound, NEW l \in Leases, NEW shown \in Stamps, NEW val \in Positions,
         OpenRestoring(l, shown, val)
  PROVE  Sound'
<1> DEFINE b == BookOf[l]
           ck == Staged(b, shown, val)
           s == [at |-> turn'[b], id |-> ck.id, val |-> val]
           N == Queued(NewLane, s)
<1>1. /\ IF checkpoint[b] # None /\ val = position[b] THEN UNCHANGED history
         ELSE Recorded(b, val)
      /\ Stage(b, shown, val) /\ Register(l, N)
  BY DEF OpenRestoring
<1>2. /\ turn[b] \in Nat /\ stored[b] \in Deliveries /\ checkpoint[b] \in Records
      /\ made \in Nat /\ stored[b].at <= turn[b] /\ b \in Books /\ BookSound(b)
  BY OfLane DEF Sound
<1>3. /\ ck \in Checkpoints /\ ck # None /\ ck.val = val /\ ck.id <= made' /\ made' \in Nat
      /\ made <= made' /\ checkpoint'[b] = ck
      /\ ck = checkpoint[b] \/ (ck.id = made' /\ made' = made + 1)
      /\ \A c \in Books \ {b} : checkpoint'[c] = checkpoint[c]
      /\ checkpoint' \in [Books -> Checkpoints \cup {None}]
  BY <1>1, <1>2, StageKeeps
<1> HIDE DEF ck
<1>4. /\ turn'[b] = turn[b] \/ turn'[b] = turn[b] + 1
      /\ position'[b] = val /\ stored'[b] = stored[b] /\ Frame(b) /\ BookSound(b)'
  <2>1. CASE checkpoint[b] # None /\ val = position[b]
    <3>1. turn' = turn /\ position' = position /\ stored' = stored
      BY <1>1, <2>1 DEF history
    <3>2. Frame(b)
      BY <1>3, <3>1 DEF Frame, Sound, TypeOK
    <3> QED
      BY <1>2, <1>3, <2>1, <3>1, <3>2 DEF BookSound
  <2>2. CASE ~(checkpoint[b] # None /\ val = position[b])
    BY <1>1, <1>2, <2>2, RecordedKeeps
  <2> QED
    BY <2>1, <2>2
<1>5. s \in Samples /\ s.at = turn'[b] /\ s.val = val /\ s.id = ck.id
  BY <1>2, <1>3, <1>4 DEF Samples, Checkpoints
<1>6. s.at = turn[b] \/ s.at = turn[b] + 1
  BY <1>4, <1>5
<1> HIDE DEF s
<1>7. Newest(s, ck, made', NewLane, turn[b], checkpoint[b], made)
  BY <1>3, <1>5, <1>6, NewLaneSound DEF Newest
<1>8. LaneSound(NewLane, turn[b], position[b], stored[b], checkpoint[b], made)
  BY <1>2, NewLaneSound
<1>9. N \in Lanes /\ Scheduled(N) /\ LaneSound(N, s.at, s.val, stored[b], ck, made')
  <2> HIDE DEF b
  <2> QED
    BY <1>2, <1>3, <1>5, <1>7, <1>8, NewLaneSound, QueuedKeeps
<1>10. LaneSound(N, turn'[b], position'[b], stored'[b], checkpoint'[b], made')
  <2> HIDE DEF N
  <2> QED
    BY <1>3, <1>4, <1>5, <1>9
<1> HIDE DEF N
<1> QED
  BY <1>1, <1>4, <1>9, <1>10, RegisterStep

LEMMA CollectSound ==
  ASSUME Sound, NEW c \in Callers, Collect(c)
  PROVE  Sound'
<1>1. /\ answer' = [answer EXCEPT ![c] = None]
      /\ UNCHANGED <<held, lane, waits, records, history>>
  BY DEF Collect
<1> QED
  BY <1>1 DEF Sound, TypeOK, Mapped, WaitsSound, BookSound, LaneOfBook, records, history

\* No lane survives the process.
LEMMA VanishStep ==
  ASSUME Sound, Vanish,
         turn' \in [Books -> Nat], position' \in [Books -> Positions \cup {None}],
         stored' \in [Books -> [at : Nat, val : Positions \cup {None}]],
         checkpoint' \in [Books -> Checkpoints \cup {None}], made' \in Nat,
         \A b \in Books : BookSound(b)'
  PROVE  Sound'
<1>1. /\ held' = [b \in Books |-> None] /\ lane' = [l \in Leases |-> None]
      /\ waits' = [l \in Leases |-> <<>>] /\ answer' = [c \in Callers |-> None]
  BY DEF Vanish
<1>2. TypeOK'
  BY <1>1 DEF TypeOK
<1>3. Mapped' /\ WaitsSound'
  BY <1>1, BookOfAssumption, NoneAssumption DEF Mapped, WaitsSound
<1> QED
  BY <1>1, <1>2, <1>3 DEF Sound

LEMMA CrashSound ==
  ASSUME Sound, Crash
  PROVE  Sound'
<1>1. /\ turn' = turn /\ position' = position /\ stored' = stored
      /\ checkpoint' = checkpoint /\ made' = made /\ Vanish
  BY DEF Crash, records, history
<1>2. \A b \in Books : BookSound(b)'
  BY <1>1 DEF Sound, BookSound
<1> QED
  BY <1>1, <1>2, VanishStep DEF Sound, TypeOK

\* Only the lane that is handed off changes its book's record.
LEMMA CloseUnsavedSound ==
  ASSUME Sound, NEW l \in Leases, NEW shown \in Stamps, CloseUnsaved(l, shown)
  PROVE  Sound'
<1>1. /\ held[BookOf[l]] = l /\ lane[l].flight = None
      /\ Retain(l, shown) /\ Vanish /\ UNCHANGED history
  BY DEF CloseUnsaved, MayHandOff
<1>2. Frame(BookOf[l]) /\ BookSound(BookOf[l])'
  BY <1>1, RetainKeeps
<1>3. ASSUME NEW b \in Books, b # BookOf[l] PROVE BookSound(b)'
  <2>1. /\ turn'[b] = turn[b] /\ position'[b] = position[b]
        /\ stored'[b] = stored[b] /\ checkpoint'[b] = checkpoint[b]
        /\ made \in Nat /\ made' \in Nat /\ made <= made'
    BY <1>2, <1>3 DEF Frame, Sound, TypeOK
  <2>2. BookSound(b) /\ (checkpoint[b] # None => checkpoint[b].id \in Nat)
    BY DEF Sound, TypeOK, Checkpoints
  <2> QED
    BY <2>1, <2>2 DEF BookSound
<1> QED
  BY <1>1, <1>2, <1>3, VanishStep DEF Frame

LEMMA InitSound == Init => Sound
<1> SUFFICES ASSUME Init PROVE Sound
  OBVIOUS
<1>1. TypeOK
  BY DEF Init, TypeOK
<1>2. Mapped /\ WaitsSound
  BY BookOfAssumption, NoneAssumption DEF Init, Mapped, WaitsSound
<1>3. ASSUME NEW b \in Books PROVE BookSound(b)
  <2>1. /\ checkpoint[b] = None /\ position[b] = None /\ turn[b] = 0
        /\ stored[b] = [at |-> 0, val |-> None]
    BY DEF Init
  <2> QED
    BY <2>1 DEF BookSound
<1> QED
  BY <1>1, <1>2, <1>3 DEF Init, Sound

-----------------------------------------------------------------------------
\* The invariant and the theorems

LEMMA NextSound == Sound /\ [Next]_writerVars => Sound'
<1> SUFFICES ASSUME Sound, [Next]_writerVars PROVE Sound'
  OBVIOUS
<1>1. CASE UNCHANGED writerVars
  BY <1>1 DEF Sound, TypeOK, Mapped, WaitsSound, BookSound, LaneOfBook, writerVars, writer,
              records, history
<1>2. ASSUME NEW c \in Callers, Collect(c) \/ \E l \in Leases : Flush(c, l) PROVE Sound'
  BY <1>2, CollectSound, FlushSound
<1>3. ASSUME NEW l \in Leases,
             \/ TimerFires(l) \/ Deliver(l) \/ Confirm(l) \/ Reject(l)
             \/ Retire(l) \/ Open(l)
             \/ \E id \in 1 .. made : OpenSaved(l, id)
      PROVE  Sound'
  BY <1>3, TimerFiresSound, DeliverSound, ConfirmSound, RejectSound, RetireSound, OpenSound,
     OpenSavedSound
<1>4. ASSUME NEW l \in Leases, NEW shown \in Stamps,
             \/ Handoff(l, shown) \/ CloseUnsaved(l, shown)
             \/ \E val \in Positions : Accept(l, shown, val) \/ OpenRestoring(l, shown, val)
      PROVE  Sound'
  BY <1>4, HandoffSound, CloseUnsavedSound, AcceptSound, OpenRestoringSound
<1>5. ASSUME NEW b \in Books, NEW shown \in Stamps, NEW val \in Positions,
             StageOnly(b, shown, val)
      PROVE  Sound'
  BY <1>5, StageOnlySound
<1> QED
  BY <1>1, <1>2, <1>3, <1>4, <1>5, CrashSound DEF Next

LEMMA Soundness == Spec => []Sound
<1>1. Init => Sound
  BY InitSound
<1>2. Sound /\ [Next]_writerVars => Sound'
  BY NextSound
<1> QED
  BY <1>1, <1>2, PTL DEF Spec

\* The variables of the writer keep their shapes.
THEOREM WriterTypes == Spec => []TypeOK
<1>1. Sound => TypeOK
  BY DEF Sound
<1> QED
  BY <1>1, Soundness, PTL

\* A reading position that was recorded is in the store or in the recovery
\* record, whatever fails, is retried, is answered late or crashes.
THEOREM NothingIsLost == Spec => []NothingLost
<1>1. Sound => NothingLost
  BY DEF Sound, BookSound, NothingLost
<1> QED
  BY <1>1, Soundness, PTL

\* A queued sample has a write under way or a timer that will start one.
THEOREM NoSampleStarves == Spec => []NoStarvedSample
<1>1. Sound => NoStarvedSample
  BY DEF Sound, Scheduled, NoStarvedSample
<1> QED
  BY <1>1, Soundness, PTL

-----------------------------------------------------------------------------
\* The writer implements the channel of latest positions

Latest(l) == IF lane[l] = None THEN 0 ELSE lane[l].sequence

Said(c) == IF answer[c] # None /\ answer[c].status = "waiting" THEN None ELSE answer[c]

\* No lane operator but queueing changes the number of a lane's last sample.
LEMMA SequenceKept ==
  ASSUME NEW L \in Lanes
  PROVE  /\ Start(L).sequence = L.sequence
         /\ Schedule(L).sequence = L.sequence
         /\ Revived(L).sequence = L.sequence
BY DEF Lanes, Start, Schedule, Revived

\* What no action does: change the number of the last sample of another lane.
LEMMA LaneReplaced ==
  ASSUME Sound, NEW l \in Leases, NEW N, lane' = [lane EXCEPT ![l] = N]
  PROVE  /\ Latest(l)' = IF N = None THEN 0 ELSE N.sequence
         /\ \A k \in Leases \ {l} : Latest(k)' = Latest(k)
BY DEF Sound, TypeOK, Latest

\* A step that the channel does not see.
LEMMA Stutters ==
  ASSUME turn' = turn, stored' = stored,
         \A l \in Leases : Latest(l)' = Latest(l), \A c \in Callers : Said(c)' = Said(c)
  PROVE  UNCHANGED Channel!vars
BY DEF Channel!vars, Latest, Said

LEMMA Forgets ==
  ASSUME turn' = turn, stored' = stored,
         \A l \in Leases : Latest(l)' \in {Latest(l), 0},
         \A c \in Callers : Said(c)' \in {Said(c), None}
  PROVE  Channel!Next
BY DEF Channel!Next, Channel!Forget, Latest, Said

LEMMA Reports ==
  ASSUME turn' = turn, stored' = stored, NEW l \in Leases,
         \A k \in Leases : Latest(k)' = Latest(k),
         \A c \in Callers :
           \/ Said(c)' = Said(c)
           \/ Said(c)' = [lease |-> l, status |-> "failed"]
           \/ /\ Said(c)' = [lease |-> l, status |-> "saved"]
              /\ Latest(l) <= stored[BookOf[l]].at
  PROVE  Channel!Next
<1>1. BookOf[l] \in Books
  BY BookOfAssumption
<1>2. Channel!Report(l)
  BY <1>1 DEF Channel!Report, Latest, Said
<1> QED
  BY <1>2 DEF Channel!Next

LEMMA Delivers ==
  ASSUME Sound, NEW b \in Books, NEW d, turn' = turn, stored' = [stored EXCEPT ![b] = d],
         d.at \in Nat, stored[b].at <= d.at, d.at <= turn[b],
         \A k \in Leases : Latest(k)' = Latest(k), \A c \in Callers : Said(c)' = Said(c)
  PROVE  Channel!Next
<1>1. stored[b].at \in Nat /\ turn[b] \in Nat
  BY DEF Sound, TypeOK
<1>2. d.at \in stored[b].at .. turn[b]
  BY <1>1
<1>3. \A c \in Books : stored'[c].at = IF c = b THEN d.at ELSE stored[c].at
  BY DEF Sound, TypeOK
<1>4. [c \in Books |-> stored[c].at]' = [[c \in Books |-> stored[c].at] EXCEPT ![b] = d.at]
  BY <1>3
<1>5. Channel!Deliver(b)
  BY <1>2, <1>4 DEF Channel!Deliver, Latest, Said
<1> QED
  BY <1>5 DEF Channel!Next

LEMMA Offers ==
  ASSUME Sound, NEW b \in Books, NEW n, n = turn[b] \/ n = turn[b] + 1,
         turn' = [turn EXCEPT ![b] = n], stored' = stored,
         \/ \A k \in Leases : Latest(k)' = Latest(k)
         \/ \E l \in Leases : /\ BookOf[l] = b /\ Latest(l)' = n
                              /\ \A k \in Leases \ {l} : Latest(k)' = Latest(k),
         \A c \in Callers : Said(c)' = Said(c)
  PROVE  Channel!Next
<1> DEFINE bar == [l \in Leases |-> IF lane[l] = None THEN 0 ELSE lane[l].sequence]
<1>1. \/ bar' = bar
      \/ \E l \in Leases : BookOf[l] = b /\ bar' = [bar EXCEPT ![l] = n]
  <2>1. CASE \A k \in Leases : Latest(k)' = Latest(k)
    BY <2>1 DEF Latest
  <2>2. ASSUME NEW l \in Leases, BookOf[l] = b, Latest(l)' = n,
               \A k \in Leases \ {l} : Latest(k)' = Latest(k)
        PROVE  bar' = [bar EXCEPT ![l] = n]
    BY <2>2 DEF Latest
  <2> QED
    BY <2>1, <2>2
<1>2. Channel!Offer(b)
  BY <1>1 DEF Channel!Offer, Said
<1> QED
  BY <1>2 DEF Channel!Next

\* The end of a write replaces the lane by one with the same last sample.
LEMMA EndFlightReplaces ==
  ASSUME NEW l \in Leases, NEW E \in Lanes, EndFlight(l, E)
  PROVE  \E N \in Lanes : lane' = [lane EXCEPT ![l] = N] /\ N.sequence = E.sequence
<1> DEFINE L == Schedule(E)
<1>1. L \in Lanes /\ L.sequence = E.sequence
  <2>1. L \in Lanes
    BY DEF Schedule, Start, Lanes, Flights
  <2> QED
    BY <2>1, SequenceKept
<1> HIDE DEF L
<1>2. /\ [L EXCEPT !.timer = FALSE] \in Lanes
      /\ [L EXCEPT !.timer = FALSE].sequence = L.sequence
  BY <1>1 DEF Lanes
<1>3. Revived(L) \in Lanes /\ Revived(L).sequence = L.sequence
  <2>1. Revived(L) \in Lanes
    BY <1>1 DEF Revived, Start, Lanes, Flights
  <2> QED
    BY <1>1, <2>1, SequenceKept
<1>4. \/ lane' = [lane EXCEPT ![l] = L]
      \/ lane' = [lane EXCEPT ![l] = [L EXCEPT !.timer = FALSE]]
      \/ lane' = [lane EXCEPT ![l] = Revived(L)]
  BY DEF EndFlight, L
<1> QED
  BY <1>1, <1>2, <1>3, <1>4

\* The end of a write tells the callers of this lane only.
LEMMA EndFlightReports ==
  ASSUME Sound, NEW l \in Leases, NEW E \in Lanes, EndFlight(l, E),
         E.flight = None, E.started, E.sequence = lane[l].sequence, lane[l] # None,
         turn' = turn, stored' = stored, NEW ck \in Records,
         LaneSound(E, turn[BookOf[l]], position[BookOf[l]], stored[BookOf[l]], ck, made)
  PROVE  Channel!Next
<1> DEFINE b == BookOf[l]
<1>1. /\ turn[b] \in Nat /\ stored[b] \in Deliveries /\ made \in Nat
      /\ stored[b].at <= turn[b]
  BY OfLane
<1>2. /\ \E N \in Lanes : lane' = [lane EXCEPT ![l] = N] /\ N.sequence = E.sequence
      /\ \A c \in Callers :
           \/ answer'[c] = answer[c]
           \/ answer'[c] = [lease |-> l, status |-> "failed"]
           \/ answer'[c] = [lease |-> l, status |-> "saved"] /\ E.sequence <= stored[b].at
  <2> HIDE DEF b
  <2>1. LaneSound(E, turn[b], position[b], stored[b], ck, made)
    BY DEF b
  <2>2. \E N \in Lanes : lane' = [lane EXCEPT ![l] = N] /\ N.sequence = E.sequence
    BY EndFlightReplaces
  <2>3. \A c \in Callers :
          \/ answer'[c] = answer[c]
          \/ answer'[c] = [lease |-> l, status |-> "failed"]
          \/ answer'[c] = [lease |-> l, status |-> "saved"] /\ E.sequence <= stored[b].at
    BY <1>1, <2>1, EndFlightKeeps
  <2> QED
    BY <2>2, <2>3
<1>3. PICK N \in Lanes : lane' = [lane EXCEPT ![l] = N] /\ N.sequence = E.sequence
  BY <1>2
<1>4. \A k \in Leases : Latest(k)' = Latest(k)
  <2>1. N # None
    BY NoneAssumption
  <2> QED
    BY <1>3, <2>1, LaneReplaced DEF Latest
<1>5. ASSUME NEW c \in Callers
      PROVE  \/ Said(c)' = Said(c)
             \/ Said(c)' = [lease |-> l, status |-> "failed"]
             \/ Said(c)' = [lease |-> l, status |-> "saved"] /\ Latest(l) <= stored[b].at
  <2>1. /\ [lease |-> l, status |-> "failed"] # None
        /\ [lease |-> l, status |-> "saved"] # None
    BY NoneAssumption DEF Answers
  <2>2. Latest(l) = E.sequence
    BY DEF Latest
  <2> QED
    BY <1>2, <2>1, <2>2 DEF Said
<1> QED
  BY <1>4, <1>5, Reports

LEMMA ConfirmReports ==
  ASSUME Sound, NEW l \in Leases, Confirm(l)
  PROVE  Channel!Next
<1> DEFINE b == BookOf[l]
           E == AfterSuccess(lane[l])
<1>1. /\ lane[l] # None /\ lane[l].flight # None /\ lane[l].flight.stage = "stored"
      /\ EndFlight(l, E) /\ turn' = turn /\ stored' = stored
  BY DEF Confirm, history
<1>2. lane[l] \in Lanes /\ LaneOfBook(l)
  BY <1>1, OfLane DEF Sound
<1>3. /\ E \in Lanes /\ E.started /\ E.flight = None /\ E.sequence = lane[l].sequence
      /\ LaneSound(E, turn[b], position[b], stored[b], checkpoint[b], made)
  BY <1>1, <1>2, OfLane, AfterSuccessKeeps DEF LaneOfBook
<1> HIDE DEF E
<1> QED
  BY <1>1, <1>3, OfLane, EndFlightReports

LEMMA RejectReports ==
  ASSUME Sound, NEW l \in Leases, Reject(l)
  PROVE  Channel!Next
<1> DEFINE b == BookOf[l]
           E == AfterFailure(lane[l])
<1>1. /\ lane[l] # None /\ lane[l].flight # None
      /\ EndFlight(l, E) /\ turn' = turn /\ stored' = stored
  BY DEF Reject, history
<1>2. lane[l] \in Lanes /\ LaneOfBook(l)
  BY <1>1, OfLane DEF Sound
<1>3. /\ E \in Lanes /\ E.started /\ E.flight = None /\ E.sequence = lane[l].sequence
      /\ LaneSound(E, turn[b], position[b], stored[b], checkpoint[b], made)
  BY <1>1, <1>2, OfLane, AfterFailureKeeps DEF LaneOfBook
<1> HIDE DEF E
<1> QED
  BY <1>1, <1>3, OfLane, EndFlightReports

LEMMA DeliverDelivers ==
  ASSUME Sound, NEW l \in Leases, Deliver(l)
  PROVE  Channel!Next
<1> DEFINE b == BookOf[l]
           f == lane[l].flight
           N == [lane[l] EXCEPT !.flight.stage = "stored"]
           d == [at |-> f.sample.at, val |-> f.sample.val]
<1>1. /\ lane[l] # None /\ f # None /\ lane' = [lane EXCEPT ![l] = N]
      /\ stored' = [stored EXCEPT ![b] = d] /\ turn' = turn /\ answer' = answer
  BY DEF Deliver
<1>2. lane[l] \in Lanes /\ LaneOfBook(l) /\ b \in Books
  BY <1>1, OfLane DEF Sound
<1>3. d.at \in Nat /\ stored[b].at <= d.at /\ d.at <= turn[b]
  <2>1. f.sample \in Samples
    BY <1>1, <1>2 DEF Lanes, Flights
  <2>2. stored[b].at <= f.sample.at /\ f.sample.at <= turn[b]
    BY <1>1, <1>2 DEF LaneOfBook, LaneSound, FlightSound
  <2> QED
    BY <2>1, <2>2 DEF Samples
<1>4. N \in Lanes /\ N # None /\ N.sequence = lane[l].sequence
  BY <1>1, <1>2, NoneAssumption DEF Lanes, Flights
<1>5. \A k \in Leases : Latest(k)' = Latest(k)
  <2> HIDE DEF N
  <2> QED
    BY <1>1, <1>4, LaneReplaced DEF Latest
<1>6. \A c \in Callers : Said(c)' = Said(c)
  BY <1>1 DEF Said
<1> HIDE DEF d
<1> QED
  BY <1>1, <1>2, <1>3, <1>5, <1>6, Delivers

LEMMA FlushReports ==
  ASSUME Sound, NEW c \in Callers, NEW l \in Leases, Flush(c, l)
  PROVE  Channel!Next
<1> DEFINE b == BookOf[l]
           L == [lane[l] EXCEPT !.timer = FALSE]
<1>1. /\ held[b] = l /\ answer[c] = None /\ turn' = turn /\ stored' = stored
      /\ lane' = [lane EXCEPT ![l] = L] \/ lane' = [lane EXCEPT ![l] = Revived(L)]
      /\ \/ answer' = [answer EXCEPT ![c] = [lease |-> l, status |-> "waiting"]]
         \/ /\ answer' = [answer EXCEPT ![c] = [lease |-> l, status |-> "saved"]]
            /\ ~HasUnsaved(L)
  BY DEF Flush, history
<1>2. lane[l] # None /\ lane[l] \in Lanes /\ LaneOfBook(l)
  <2>1. lane[l] # None
    BY <1>1 DEF Sound, Mapped
  <2> QED
    BY <2>1, OfLane DEF Sound
<1>3. /\ L \in Lanes /\ L # None /\ L.sequence = lane[l].sequence
      /\ L.pending = lane[l].pending /\ L.failed = lane[l].failed /\ L.flight = lane[l].flight
  BY <1>2, NoneAssumption DEF Lanes
<1> HIDE DEF L
<1>4. Revived(L).sequence = L.sequence /\ Revived(L) # None
  <2>1. Revived(L) \in Lanes
    BY <1>3, <1>2 DEF Revived, Start, Lanes, Flights
  <2> QED
    BY <1>3, <2>1, SequenceKept, NoneAssumption
<1>5. \A k \in Leases : Latest(k)' = Latest(k)
  BY <1>1, <1>2, <1>3, <1>4, LaneReplaced DEF Latest
<1>6. ~HasUnsaved(L) => Latest(l) <= stored[b].at
  BY <1>2, <1>3 DEF HasUnsaved, LaneOfBook, LaneSound, Latest
<1>7. /\ [lease |-> l, status |-> "waiting"] # None
      /\ [lease |-> l, status |-> "saved"] # None
  BY NoneAssumption DEF Answers
<1>8. ASSUME NEW k \in Callers
      PROVE  \/ Said(k)' = Said(k)
             \/ Said(k)' = [lease |-> l, status |-> "failed"]
             \/ Said(k)' = [lease |-> l, status |-> "saved"] /\ Latest(l) <= stored[b].at
  <2>1. CASE k = c
    BY <1>1, <1>6, <1>7, <2>1 DEF Said, Sound, TypeOK
  <2>2. CASE k # c
    BY <1>1, <2>2 DEF Said, Sound, TypeOK
  <2> QED
    BY <2>1, <2>2
<1> QED
  BY <1>1, <1>5, <1>8, Reports

\* A recorded position is offered, by the lane that it is queued in.
LEMMA AcceptOffers ==
  ASSUME Sound, NEW l \in Leases, NEW shown \in Stamps, NEW val \in Positions,
         Accept(l, shown, val)
  PROVE  Channel!Next
<1> DEFINE b == BookOf[l]
           s == [at |-> turn'[b], id |-> Staged(b, shown, val).id, val |-> val]
<1>1. /\ turn' = [turn EXCEPT ![b] = turn[b] + 1] /\ stored' = stored /\ answer' = answer
      /\ lane' = [lane EXCEPT ![l] = Queued(lane[l], s)] /\ Recorded(b, val)
      /\ Stage(b, shown, val) /\ held[b] = l
  BY DEF Accept, Recorded
<1>2. /\ lane[l] \in Lanes /\ lane[l] # None /\ b \in Books /\ turn[b] \in Nat
      /\ turn'[b] = turn[b] + 1
  BY <1>1, OfLane DEF Sound, Mapped, TypeOK
<1>3. s \in Samples
  BY <1>1, <1>2, StageKeeps DEF Samples, Checkpoints
<1> HIDE DEF s
<1>4. Queued(lane[l], s).sequence = turn'[b] /\ Queued(lane[l], s) # None
  <2> DEFINE Q == [lane[l] EXCEPT !.pending = s, !.sequence = s.at, !.failed = None]
  <2>1. Q \in Lanes /\ Q.sequence = turn'[b]
    BY <1>2, <1>3 DEF Lanes, Samples, s
  <2> HIDE DEF Q
  <2>2. Schedule(Q) \in Lanes /\ Schedule(Q).sequence = turn'[b]
    BY <2>1, SequenceKept DEF Schedule, Start, Lanes, Flights
  <2> QED
    BY <2>2, NoneAssumption DEF Queued, Q
<1>5. Latest(l)' = turn[b] + 1 /\ \A k \in Leases \ {l} : Latest(k)' = Latest(k)
  BY <1>1, <1>2, <1>4, LaneReplaced
<1>6. \A c \in Callers : Said(c)' = Said(c)
  BY <1>1 DEF Said
<1> QED
  BY <1>1, <1>2, <1>5, <1>6, Offers

LEMMA StageOnlyOffers ==
  ASSUME Sound, NEW b \in Books, NEW shown \in Stamps, NEW val \in Positions,
         StageOnly(b, shown, val)
  PROVE  Channel!Next
<1>1. /\ turn' = [turn EXCEPT ![b] = turn[b] + 1] /\ stored' = stored
      /\ lane' = lane /\ answer' = answer
  BY DEF StageOnly, Recorded, writer
<1> QED
  BY <1>1, Offers DEF Latest, Said

LEMMA OpenStutters ==
  ASSUME Sound, NEW l \in Leases, Open(l)
  PROVE  UNCHANGED Channel!vars
<1>1. /\ lane[l] = None /\ lane' = [lane EXCEPT ![l] = NewLane] /\ answer' = answer
      /\ turn' = turn /\ stored' = stored
  BY DEF Open, Register, history
<1>2. NewLane # None /\ NewLane.sequence = 0
  BY NewLaneSound, NoneAssumption DEF NewLane
<1>3. \A k \in Leases : Latest(k)' = Latest(k)
  BY <1>1, <1>2, LaneReplaced DEF Latest
<1> QED
  BY <1>1, <1>3, Stutters DEF Said

LEMMA OpenSavedDelivers ==
  ASSUME Sound, NEW l \in Leases, NEW id, OpenSaved(l, id)
  PROVE  Channel!Next
<1> DEFINE b == BookOf[l]
           d == [at |-> turn[b], val |-> checkpoint[b].val]
<1>1. /\ lane[l] = None /\ lane' = [lane EXCEPT ![l] = NewLane] /\ answer' = answer
      /\ turn' = turn /\ stored' = [stored EXCEPT ![b] = d]
  BY DEF OpenSaved, Register
<1>2. NewLane # None /\ NewLane.sequence = 0
  BY NewLaneSound, NoneAssumption DEF NewLane
<1>3. \A k \in Leases : Latest(k)' = Latest(k)
  BY <1>1, <1>2, LaneReplaced DEF Latest
<1>4. d.at \in Nat /\ stored[b].at <= d.at /\ d.at <= turn[b] /\ b \in Books
  BY OfLane
<1> HIDE DEF d
<1> QED
  BY <1>1, <1>3, <1>4, Delivers DEF Said

\* A restored position is offered again, with its number or a new one.
LEMMA OpenRestoringOffers ==
  ASSUME Sound, NEW l \in Leases, NEW shown \in Stamps, NEW val \in Positions,
         OpenRestoring(l, shown, val)
  PROVE  Channel!Next
<1> DEFINE b == BookOf[l]
           s == [at |-> turn'[b], id |-> Staged(b, shown, val).id, val |-> val]
           n == turn'[b]
<1>1. /\ lane' = [lane EXCEPT ![l] = Queued(NewLane, s)] /\ answer' = answer
      /\ stored' = stored /\ Stage(b, shown, val)
      /\ turn' = turn \/ turn' = [turn EXCEPT ![b] = turn[b] + 1]
  BY DEF OpenRestoring, Register, Recorded, history
<1>2. b \in Books /\ turn[b] \in Nat /\ turn \in [Books -> Nat]
  BY OfLane DEF Sound, TypeOK
<1>3. n \in Nat /\ (n = turn[b] \/ n = turn[b] + 1) /\ turn' = [turn EXCEPT ![b] = n]
  BY <1>1, <1>2
<1>4. s \in Samples /\ s.at = n
  BY <1>1, <1>2, <1>3, StageKeeps DEF Samples, Checkpoints
<1> HIDE DEF s
<1>5. Queued(NewLane, s).sequence = n /\ Queued(NewLane, s) # None
  <2> DEFINE Q == [NewLane EXCEPT !.pending = s, !.sequence = s.at, !.failed = None]
  <2>1. Q \in Lanes /\ Q.sequence = n
    BY <1>3, <1>4, NewLaneSound DEF Lanes
  <2> HIDE DEF Q
  <2>2. Schedule(Q) \in Lanes /\ Schedule(Q).sequence = n
    BY <2>1, SequenceKept DEF Schedule, Start, Lanes, Flights
  <2> QED
    BY <2>2, NoneAssumption DEF Queued, Q
<1>6. Latest(l)' = n /\ \A k \in Leases \ {l} : Latest(k)' = Latest(k)
  BY <1>1, <1>5, LaneReplaced
<1>7. \A c \in Callers : Said(c)' = Said(c)
  BY <1>1 DEF Said
<1> HIDE DEF n
<1> QED
  BY <1>1, <1>2, <1>3, <1>6, <1>7, Offers

LEMMA DropForgets ==
  ASSUME Sound, NEW l \in Leases, Drop(l), turn' = turn, stored' = stored
  PROVE  Channel!Next
<1>1. lane' = [lane EXCEPT ![l] = None] /\ answer' = answer
  BY DEF Drop
<1>2. \A k \in Leases : Latest(k)' \in {Latest(k), 0}
  BY <1>1, LaneReplaced
<1> QED
  BY <1>1, <1>2, Forgets DEF Said

LEMMA CollectForgets ==
  ASSUME Sound, NEW c \in Callers, Collect(c)
  PROVE  Channel!Next
<1>1. /\ answer' = [answer EXCEPT ![c] = None] /\ lane' = lane
      /\ turn' = turn /\ stored' = stored
  BY DEF Collect, history
<1>2. \A k \in Callers : Said(k)' \in {Said(k), None}
  BY <1>1 DEF Said, Sound, TypeOK
<1> QED
  BY <1>1, <1>2, Forgets DEF Latest

LEMMA VanishForgets ==
  ASSUME Sound, Vanish, UNCHANGED history
  PROVE  Channel!Next
<1>1. /\ answer' = [c \in Callers |-> None] /\ lane' = [l \in Leases |-> None]
      /\ turn' = turn /\ stored' = stored
  BY DEF Vanish, history
<1> QED
  BY <1>1, Forgets DEF Latest, Said

LEMMA StepRefines == Sound /\ [Next]_writerVars => [Channel!Next]_(Channel!vars)
<1> SUFFICES ASSUME Sound, [Next]_writerVars PROVE [Channel!Next]_(Channel!vars)
  OBVIOUS
<1>1. CASE UNCHANGED writerVars
  BY <1>1, Stutters DEF writerVars, writer, records, history, Latest, Said
<1>2. ASSUME NEW c \in Callers, Collect(c) \/ \E l \in Leases : Flush(c, l)
      PROVE  Channel!Next
  BY <1>2, CollectForgets, FlushReports
<1>3. ASSUME NEW l \in Leases,
             \/ Deliver(l) \/ Confirm(l) \/ Reject(l) \/ Retire(l)
             \/ \E id \in 1 .. made : OpenSaved(l, id)
      PROVE  Channel!Next
  <2>1. CASE Retire(l)
    BY <2>1, DropForgets DEF Retire, history
  <2> QED
    BY <1>3, <2>1, DeliverDelivers, ConfirmReports, RejectReports, OpenSavedDelivers
<1>4. ASSUME NEW l \in Leases, TimerFires(l) PROVE UNCHANGED Channel!vars
  <2> DEFINE N == [lane[l] EXCEPT !.timer = FALSE]
  <2>1. /\ lane[l] # None /\ lane' = [lane EXCEPT ![l] = Start(N)] /\ answer' = answer
        /\ turn' = turn /\ stored' = stored
    BY <1>4 DEF TimerFires, history
  <2>2. lane[l] \in Lanes /\ N \in Lanes /\ N.sequence = lane[l].sequence
    BY <2>1, OfLane DEF Lanes
  <2> HIDE DEF N
  <2>3. Start(N) \in Lanes /\ Start(N).sequence = lane[l].sequence
    BY <2>2, SequenceKept DEF Start, Lanes, Flights
  <2>4. \A k \in Leases : Latest(k)' = Latest(k)
    BY <2>1, <2>3, LaneReplaced, NoneAssumption DEF Latest
  <2> QED
    BY <2>1, <2>4, Stutters DEF Said
<1>5. ASSUME NEW l \in Leases, Open(l) PROVE UNCHANGED Channel!vars
  BY <1>5, OpenStutters
<1>6. ASSUME NEW l \in Leases, NEW shown \in Stamps,
             \/ Handoff(l, shown) \/ CloseUnsaved(l, shown)
             \/ \E val \in Positions : Accept(l, shown, val) \/ OpenRestoring(l, shown, val)
      PROVE  Channel!Next
  <2>1. CASE Handoff(l, shown)
    BY <2>1, DropForgets DEF Handoff, history
  <2>2. CASE CloseUnsaved(l, shown)
    BY <2>2, VanishForgets DEF CloseUnsaved
  <2> QED
    BY <1>6, <2>1, <2>2, AcceptOffers, OpenRestoringOffers
<1>7. ASSUME NEW b \in Books, NEW shown \in Stamps, NEW val \in Positions,
             StageOnly(b, shown, val)
      PROVE  Channel!Next
  BY <1>7, StageOnlyOffers
<1> QED
  BY <1>1, <1>2, <1>3, <1>4, <1>5, <1>6, <1>7, VanishForgets DEF Next, Crash

\* The writer implements the channel in which no older position arrives after a
\* newer one, and "saved" is said only when the last position has arrived.
THEOREM WriterRefinesChannel == Spec => RefinesLatestChannel
<1>1. Init => Channel!Init
  BY DEF Init, Channel!Init
<1>2. Sound /\ [Next]_writerVars => [Channel!Next]_(Channel!vars)
  BY StepRefines
<1> QED
  BY <1>1, <1>2, Soundness, PTL DEF Spec, RefinesLatestChannel, Channel!Spec
=============================================================================
