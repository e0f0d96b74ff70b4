------------------------- MODULE CausalMergeProofs -------------------------
(***************************************************************************)
(* What the merge algebra guarantees for any devices and values: clocks    *)
(* are strictly ordered, joins of bounded clocks are clocks, frontiers     *)
(* compose, and tombstones are totally ordered.                            *)
(***************************************************************************)
EXTENDS CausalMerge, TLAPS, WellFoundedInduction

\* A clock never dominates itself, and dominating is transitive: dominates of
\* merge.rs is a strict order.
LEMMA DominatesOrder ==
  ASSUME NEW a \in Clocks, NEW b \in Clocks, NEW c \in Clocks
  PROVE  /\ ~Dominates(a, a)
         /\ Dominates(a, b) /\ Dominates(b, c) => Dominates(a, c)
<1>1. \A d \in Devices : a[d] \in Nat /\ b[d] \in Nat /\ c[d] \in Nat
  BY DEF Clocks
<1>2. ~Dominates(a, a)
  BY <1>1 DEF Dominates
<1>3. ASSUME Dominates(a, b), Dominates(b, c) PROVE Dominates(a, c)
  BY <1>1, <1>3 DEF Dominates
<1> QED
  BY <1>2, <1>3

\* The largest of a bounded set of numbers exists.
LEMMA HighestBounds ==
  ASSUME NEW S \in SUBSET Nat, NEW bound \in Nat, \A m \in S : m <= bound
  PROVE  /\ Highest(S) \in S \cup {0}
         /\ Highest(S) \in 0 .. bound
         /\ \A m \in S : Highest(S) >= m
<1> DEFINE T == {bound - m : m \in S \cup {0}}
           R == {ss \in Nat \X Nat : ss[1] < ss[2]}
<1>1. \A m \in S \cup {0} : m \in Nat /\ m <= bound
  OBVIOUS
<1>2. T \subseteq Nat
  BY <1>1
<1>3. bound - 0 \in T
  OBVIOUS
<1>4. IsWellFoundedOn(R, Nat)
  BY NatLessThanWellFounded, Zenon DEF OpToRel
<1>5. PICK x \in T : \A y \in T : ~(<<y, x>> \in R)
  <2> HIDE DEF T, R
  <2> QED
    BY <1>2, <1>3, <1>4, WFMin
<1>6. PICK n \in S \cup {0} : x = bound - n
  OBVIOUS
<1>7. ASSUME NEW m \in S PROVE n >= m
  <2>1. bound - m \in T
    OBVIOUS
  <2>2. bound - m \in Nat /\ x \in Nat
    BY <2>1, <1>2
  <2>3. ~(bound - m < x)
    BY <2>1, <2>2, <1>5
  <2> QED
    BY <2>3, <1>1, <1>6
<1>8. \E k \in S \cup {0} : \A m \in S : k >= m
  BY <1>7
<1>9. Highest(S) \in S \cup {0} /\ \A m \in S : Highest(S) >= m
  BY <1>8 DEF Highest
<1>10. Highest(S) \in 0 .. bound
  <2>1. \A m \in S \cup {0} : m \in 0 .. bound
    BY <1>1
  <2> QED
    BY <1>9, <2>1
<1> QED
  BY <1>9, <1>10

\* The join of clocks bounded by a number is a clock bounded by it, and it is at
\* or above each of them: join_clocks.
LEMMA JoinBounds ==
  ASSUME NEW C \in SUBSET Clocks, NEW bound \in Nat,
         \A c \in C, d \in Devices : c[d] <= bound
  PROVE  /\ JoinClocks(C) \in [Devices -> 0 .. bound]
         /\ \A c \in C, d \in Devices : JoinClocks(C)[d] >= c[d]
<1>1. ASSUME NEW d \in Devices
      PROVE  /\ Highest({c[d] : c \in C}) \in 0 .. bound
             /\ \A c \in C : Highest({k[d] : k \in C}) >= c[d]
  <2> DEFINE S == {c[d] : c \in C}
  <2>1. S \in SUBSET Nat /\ \A m \in S : m <= bound
    BY DEF Clocks
  <2>2. Highest(S) \in 0 .. bound /\ \A m \in S : Highest(S) >= m
    <3> HIDE DEF S
    <3> QED
      BY <2>1, HighestBounds
  <2> QED
    BY <2>2
<1> QED
  BY <1>1 DEF JoinClocks

\* v is above all of S; and its clock tells of other devices only what S tells.
Above(v, S) == \A w \in S : Dominates(v.clock, w.clock)

TellsOf(v, S) ==
  \A d \in Devices \ {v.dev} : v.clock[d] = 0 \/ \E w \in S : v.clock[d] = w.clock[d]

\* The clock of a version is its own counter for its own device, and for every
\* other device what its writer had seen: valid, above all that was seen, and
\* with nothing that was not.  write_observed and validate_clock.
LEMMA NextVersionClock ==
  ASSUME NEW current \in SUBSET Versions, NEW observed \in SUBSET Versions,
         NEW stamp, stamp.dev \in Devices, stamp.ctr \in Nat \ {0},
         ClockAdvances(current, observed, stamp), NEW value
  PROVE  LET v == NextVersion(current, observed, stamp, value)
         IN  /\ v.dev = stamp.dev /\ v.ctr = stamp.ctr /\ v.clock \in Clocks
             /\ ValidClock(v)
             /\ Above(v, Seen(current, observed, stamp.dev))
             /\ TellsOf(v, Seen(current, observed, stamp.dev))
<1> DEFINE v == NextVersion(current, observed, stamp, value)
           S == Seen(current, observed, stamp.dev)
           C == ClocksOf(S)
           J == JoinClocks(C)
<1>1. \A w \in S : w.clock \in Clocks
  BY DEF Seen, MergeVersions, Versions
<1>2. \A w \in S, d \in Devices : w.clock[d] < stamp.ctr
  BY DEF ClockAdvances
<1> HIDE DEF S
<1>3. C \in SUBSET Clocks /\ \A c \in C, d \in Devices : c[d] <= stamp.ctr - 1
  BY <1>1, <1>2 DEF ClocksOf, Clocks
<1>4. /\ J \in [Devices -> 0 .. stamp.ctr - 1]
      /\ \A c \in C, d \in Devices : J[d] >= c[d]
  <2>1. stamp.ctr - 1 \in Nat
    OBVIOUS
  <2> HIDE DEF C
  <2> QED
    BY <1>3, <2>1, JoinBounds
<1>5. ASSUME NEW d \in Devices
      PROVE  J[d] = 0 \/ \E w \in S : J[d] = w.clock[d]
  <2> DEFINE N == {c[d] : c \in C}
  <2>1. N \in SUBSET Nat /\ \A m \in N : m <= stamp.ctr - 1
    BY <1>3 DEF Clocks
  <2>2. Highest(N) \in N \cup {0}
    <3> HIDE DEF N
    <3> QED
      BY <2>1, HighestBounds
  <2>3. J[d] = Highest(N)
    BY DEF JoinClocks
  <2>4. \A m \in N : \E w \in S : m = w.clock[d]
    BY DEF ClocksOf
  <2> HIDE DEF N, J
  <2> QED
    BY <2>2, <2>3, <2>4
<1>6. v = [dev |-> stamp.dev, ctr |-> stamp.ctr,
           clock |-> [J EXCEPT ![stamp.dev] = stamp.ctr], val |-> value]
  BY DEF NextVersion, S
<1>7. \A w \in S, d \in Devices : J[d] >= w.clock[d]
  BY <1>4 DEF ClocksOf
<1> HIDE DEF J, v
<1>8. /\ v.clock[stamp.dev] = stamp.ctr
      /\ \A d \in Devices \ {stamp.dev} : v.clock[d] = J[d]
      /\ v.clock \in Clocks /\ v.dev = stamp.dev /\ v.ctr = stamp.ctr
  BY <1>4, <1>6 DEF Clocks
<1>9. ValidClock(v)
  BY <1>4, <1>8 DEF ValidClock
<1>10. ASSUME NEW w \in S PROVE Dominates(v.clock, w.clock)
  <2>1. /\ \A d \in Devices : w.clock[d] \in Nat /\ J[d] \in Nat /\ J[d] >= w.clock[d]
        /\ w.clock[stamp.dev] < stamp.ctr
    BY <1>1, <1>2, <1>4, <1>7 DEF Clocks
  <2>2. ASSUME NEW d \in Devices PROVE v.clock[d] >= w.clock[d]
    <3>1. CASE d = stamp.dev
      BY <1>8, <2>1, <3>1
    <3>2. CASE d # stamp.dev
      BY <1>8, <2>1, <3>2
    <3> QED
      BY <3>1, <3>2
  <2> QED
    BY <1>8, <2>1, <2>2 DEF Dominates
<1> QED
  BY <1>5, <1>8, <1>9, <1>10 DEF Above, TellsOf, S, v

-----------------------------------------------------------------------------
\* Frontiers

Covers(F, R) == \A v \in R : v \in F \/ Superseded(v, F)

\* F is what R leaves when every superseded version is dropped, however it came
\* about: no version of F supersedes another, and every version of R is in F or
\* superseded by one in F.
Frontier(F, R) ==
  /\ F \subseteq R
  /\ \A v \in F : ~Superseded(v, F)
  /\ Covers(F, R)

\* A frontier of R is what merge_versions makes of R.
LEMMA FrontierIsMerge ==
  ASSUME NEW R \in SUBSET Versions, NEW F, Frontier(F, R)
  PROVE  F = MergeVersions(R)
<1>1. \A v \in R : v.clock \in Clocks
  BY DEF Versions
<1>2. F \subseteq R
  BY DEF Frontier
<1>3. ASSUME NEW v \in R, ~Superseded(v, R) PROVE v \in F
  BY <1>2, <1>3 DEF Frontier, Covers, Superseded
<1>4. ASSUME NEW v \in F, NEW w \in R, Dominates(w.clock, v.clock) PROVE FALSE
  <2>1. CASE w \in F
    BY <2>1, <1>4 DEF Frontier, Superseded
  <2>2. CASE w \notin F
    <3>1. PICK u \in F : Dominates(u.clock, w.clock)
      BY <2>2 DEF Frontier, Covers, Superseded
    <3>2. Dominates(u.clock, v.clock)
      BY <3>1, <1>4, <1>1, <1>2, DominatesOrder
    <3> QED
      BY <3>2 DEF Frontier, Superseded
  <2> QED
    BY <2>1, <2>2
<1> QED
  BY <1>2, <1>3, <1>4 DEF MergeVersions, Superseded

\* Merging two frontiers gives the frontier of all that went into either, so
\* nothing depends on the order or the grouping of merges.
LEMMA FrontiersMerge ==
  ASSUME NEW R1 \in SUBSET Versions, NEW R2 \in SUBSET Versions,
         NEW F1, NEW F2, Frontier(F1, R1), Frontier(F2, R2)
  PROVE  Frontier(MergeVersions(F1 \cup F2), R1 \cup R2)
<1> DEFINE F == MergeVersions(F1 \cup F2)
<1>1. F1 \subseteq R1 /\ F2 \subseteq R2
  BY DEF Frontier
<1>2. \A v \in R1 \cup R2 : v.clock \in Clocks
  BY DEF Versions
<1>3. F \subseteq F1 \cup F2 /\ \A v \in F : ~Superseded(v, F)
  BY DEF MergeVersions, Superseded
<1>4. ASSUME NEW A, NEW B, {A, B} = {F1, F2}, NEW u \in A
      PROVE  u \in F \/ Superseded(u, F)
  <2>1. A \cup B = F1 \cup F2 /\ A \cup B \subseteq R1 \cup R2
    BY <1>4, <1>1
  <2>2. \A x, y \in A : ~Dominates(x.clock, y.clock)
    BY <1>4 DEF Frontier, Superseded
  <2>3. \A x, y \in B : ~Dominates(x.clock, y.clock)
    BY <1>4 DEF Frontier, Superseded
  <2>4. ASSUME NEW w \in A \cup B, Dominates(w.clock, u.clock)
        PROVE  w \in F
    <3>1. w \in B
      BY <2>2, <2>4, <1>4
    <3>2. ASSUME NEW z \in A \cup B, Dominates(z.clock, w.clock) PROVE FALSE
      <4>1. z \in A
        BY <2>3, <3>1, <3>2
      <4>2. Dominates(z.clock, u.clock)
        BY <2>1, <2>4, <3>2, <1>2, <1>4, DominatesOrder
      <4> QED
        BY <4>1, <4>2, <2>2, <1>4
    <3> QED
      BY <3>2, <2>1 DEF MergeVersions, Superseded
  <2> QED
    BY <2>4, <2>1, <1>4 DEF MergeVersions, Superseded
<1>5. \A u \in F1 \cup F2 : u \in F \/ Superseded(u, F)
  <2>1. {F1, F2} = {F2, F1}
    OBVIOUS
  <2> HIDE DEF F
  <2> QED
    BY <1>4, <2>1
<1>6. ASSUME NEW v \in R1 \cup R2 PROVE v \in F \/ Superseded(v, F)
  <2>1. PICK u \in F1 \cup F2 : v = u \/ Dominates(u.clock, v.clock)
    BY DEF Frontier, Covers, Superseded
  <2>2. CASE v = u
    BY <2>2, <1>5
  <2>3. CASE u \in F
    BY <2>1, <2>3 DEF Superseded
  <2>4. CASE Superseded(u, F) /\ Dominates(u.clock, v.clock)
    <3>1. PICK w \in F : Dominates(w.clock, u.clock)
      BY <2>4 DEF Superseded
    <3>2. Dominates(w.clock, v.clock)
      BY <3>1, <2>4, <1>1, <1>2, <1>3, DominatesOrder
    <3> QED
      BY <3>2 DEF Superseded
  <2> QED
    BY <2>1, <2>2, <2>3, <2>4, <1>5
<1> QED
  BY <1>1, <1>3, <1>6 DEF Frontier, Covers

\* One version is a frontier of itself.
LEMMA FrontierOfOne ==
  ASSUME NEW v \in Versions
  PROVE  Frontier({v}, {v})
<1>1. v.clock \in Clocks
  BY DEF Versions
<1> QED
  BY <1>1, DominatesOrder DEF Frontier, Covers, Superseded

-----------------------------------------------------------------------------
\* Tombstones

\* t is the last of the tombstones in S, or there is none.
Last(t, S) ==
  /\ t \in S \cup {NoStamp}
  /\ \A s \in S : t = s \/ StampBelow(s, t)

\* The later of the last tombstones of two sets is the last of both.
LEMMA LastOfBoth ==
  ASSUME NEW S \in SUBSET Stamps, NEW T \in SUBSET Stamps, NEW s, NEW t,
         Last(s, S), Last(t, T)
  PROVE  Last(LaterStamp(s, t), S \cup T)
<1> DEFINE All == Stamps \cup {NoStamp}
<1>1. ASSUME NEW x \in All
      PROVE  x = [dev |-> x.dev, ctr |-> x.ctr] /\ x.dev \in Nat /\ x.ctr \in Nat
  <2>1. CASE x \in Stamps
    BY <2>1, DevicesAssumption DEF Stamps
  <2>2. CASE x = NoStamp
    BY <2>2 DEF NoStamp
  <2> QED
    BY <2>1, <2>2
<1>2. \A x, y \in All : x = y \/ StampBelow(x, y) \/ StampBelow(y, x)
  BY <1>1 DEF StampBelow
<1>3. \A x, y, z \in All : StampBelow(x, y) /\ StampBelow(y, z) => StampBelow(x, z)
  BY <1>1 DEF StampBelow
<1>4. \A x \in Stamps : StampBelow(NoStamp, x)
  BY DevicesAssumption DEF StampBelow, NoStamp, Stamps
<1>5. s \in All /\ t \in All
  BY DEF Last
<1>6. CASE StampBelow(s, t)
  BY <1>6, <1>3, <1>4, <1>5 DEF Last, LaterStamp
<1>7. CASE ~StampBelow(s, t)
  BY <1>7, <1>2, <1>3, <1>4, <1>5 DEF Last, LaterStamp
<1> QED
  BY <1>6, <1>7
=============================================================================
