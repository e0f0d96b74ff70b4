------------------------ MODULE ReadingSessionProofs ------------------------
(***************************************************************************)
(* Reading sessions, for any books, leases, openings, positions and        *)
(* bounds: every step of theirs is one of the writer's; openings and       *)
(* leavings keep the lanes of the writer's map with sessions that are      *)
(* open, replace no version but the one that was shown, and open silently  *)
(* at the last position only.  As long as one book at a time is opened,    *)
(* what is displayed can be saved and the last position is kept.           *)
(*                                                                         *)
(* Links relates the leases that openings, the leaving and the reader hold *)
(* to the map, the sessions and the active ones; Faithful, Finds and Kept  *)
(* relate what sessions and openings remember to the store.                *)
(***************************************************************************)
EXTENDS ReadingSession, ProgressWriterProofs

\* What the phase of an opening says of its other fields.
Shaped(r) ==
  /\ r.target # None => BookOf[r.target] = r.book
  /\ r.phase = "flush" \/ r.saved # "none" => r.target # None
  /\ r.phase = "flushPrevious" \/ r.previousSaved => r.previous # None /\ BookOf[r.previous] # r.book
  /\ r.phase \in {"publish", "closeTarget", "released", "closePrevious", "takeOver", "abort"}
       => r.lease # None
  /\ r.phase = "closeTarget" => r.saved # "none"
  /\ r.phase \in {"released", "closePrevious"} => r.previousSaved
  /\ r.phase = "flush" => r.saved = "none"

LeavingShaped(r) == r.phase \in {"flush", "close"} => r.lease # None

UnderWay(o) == opening[o] # None

\* The reader, the leaving or an opening refers to the lease.
Referenced(l) ==
  \/ reader = l
  \/ leaving # None /\ leaving.lease = l
  \/ \E o \in Opens : UnderWay(o) /\ (opening[o].previous = l \/ opening[o].target = l)

\* Nobody but its opening knows the candidate of an opening.
Candidate(o) ==
  LET l == opening[o].lease
  IN  UnderWay(o) /\ l # None =>
        /\ session[l] # None /\ ~session[l].closing
        /\ BookOf[l] = opening[o].book
        /\ held[BookOf[l]] # l
        /\ ~Referenced(l)
        /\ \A p \in Opens : UnderWay(p) /\ opening[p].lease = l => p = o

\* The lane of the lease was dropped, and its session is ending.
Gone(l) == held[BookOf[l]] # l /\ (session[l] # None => session[l].closing)

Ending(o) ==
  UnderWay(o) =>
    /\ opening[o].phase = "closeTarget" => Gone(opening[o].target)
    /\ opening[o].phase = "closePrevious" => Gone(opening[o].previous)

\* The lease is released by an opening or by the leaving.
BeingReleased(l) ==
  \/ leaving # None /\ leaving.phase = "close" /\ leaving.lease = l
  \/ \E o \in Opens : /\ UnderWay(o)
                      /\ \/ opening[o].phase = "closeTarget" /\ opening[o].target = l
                         \/ opening[o].phase = "closePrevious" /\ opening[o].previous = l

Links ==
  /\ \A o \in Opens : UnderWay(o) => Shaped(opening[o])
  /\ leaving # None => LeavingShaped(leaving)
  /\ \A o \in Opens : Candidate(o)
  /\ \A o \in Opens : Ending(o)
  /\ leaving # None /\ leaving.phase = "close" => Gone(leaving.lease)
  /\ \A b \in Books : active[b] # None => held[b] = active[b] \/ BeingReleased(active[b])
  /\ \A b \in Books : held[b] # None => Live(held[b])
  /\ view # None /\ reader # None => BookOf[reader] = view

\* What a session shows is what the reader opened, or its own.
Faithful(s) ==
  /\ s.shown = s.opened \/ s.shown.by = "own"
  /\ \A v \in s.observed : v.by = "other" => StampOf(v) = s.opened
ShownIsOpened == \A l \in Leases : session[l] # None => Faithful(session[l])

\* Flights carry the last position only.
LatestOnly(b) ==
  \A l \in Leases :
    BookOf[l] = b /\ lane[l] # None /\ lane[l].flight # None =>
      lane[l].flight.sample.val = position[b]
Found(o) ==
  LET b == opening[o].book
      d == opening[o].decision
  IN  UnderWay(o) =>
        /\ opening[o].turn <= turn[b]
        /\ ~d.explicit /\ opening[o].turn = turn[b]
            => \/ d.restore = position[b]
               \/ d.sel # None /\ d.sel.val = position[b]
               \/ stored[b].val = position[b] /\ LatestOnly(b)
Finds ==
  /\ \A b \in Books : turn[b] = 0 => position[b] = None
  /\ \A o \in Opens : Found(o)


-----------------------------------------------------------------------------
\* Every step of a session is one of the writer

\* The values of a session, an opening and the leaving.
LEMMA Parts ==
  ASSUME SessionTypeOK
  PROVE  /\ \A l \in Leases : BookOf[l] \in Books
         /\ \A l \in Leases : session[l] # None => session[l] \in Sessions
         /\ \A o \in Opens : UnderWay(o) => opening[o] \in Openings
         /\ leaving # None => leaving \in Leavings
         /\ reader # None => reader \in Leases
         /\ \A b \in Books : held[b] # None => held[b] \in Leases
         /\ \A b \in Books : active[b] # None => active[b] \in Leases
         /\ None \in Stamps /\ VersionStamps \subseteq Stamps
BY BookOfAssumption, StampsAssumption DEF SessionTypeOK, TypeOK, UnderWay

\* What a session shows may be staged.
LEMMA ShownIsStamp ==
  ASSUME SessionTypeOK, NEW l \in Leases
  PROVE  /\ session[l] # None => session[l].shown \in Stamps
         /\ (IF session[l] = None THEN None ELSE session[l].shown) \in Stamps
BY Parts DEF Sessions

\* The session of a lane is open and current.
LEMMA LaneLives ==
  ASSUME Sound, Links, NEW l \in Leases, lane[l] # None
  PROVE  held[BookOf[l]] = l /\ Live(l) /\ session[l] # None /\ ~session[l].closing
<1>1. held[BookOf[l]] = l /\ l # None /\ BookOf[l] \in Books
  BY NoneAssumption, BookOfAssumption DEF Sound, Mapped
<1>2. Live(l)
  BY <1>1 DEF Links
<1> QED
  BY <1>1, <1>2 DEF Live

\* The steps outside of openings, of leaving, and of a crash.
ReadingStep ==
  \/ PageTurn \/ Timer \/ Restart \/ Shown \/ Hidden \/ HiddenFlushed
  \/ \E l \in Leases : Commit(l) \/ WriteEnds(l) \/ ProjectionFails(l) \/ RequestFails(l)
  \/ \E b \in Books : Merge(b)

OpeningStep(o) ==
  \/ \E b \in Books : OpenBegin(o, b)
  \/ OpenFlushed(o) \/ OpenFlushedPrevious(o) \/ OpenDecide(o) \/ OpenPrepare(o)
  \/ OpenReleasesTarget(o) \/ OpenReleasesPrevious(o) \/ OpenCannotRelease(o)
  \/ OpenClosed(o) \/ OpenTakesOver(o) \/ OpenCannotTakeOver(o)
  \/ OpenGivesUp(o) \/ OpenAborts(o)

LeavingStep ==
  \/ \E unsaved \in BOOLEAN : LeaveBegin(unsaved)
  \/ LeaveAgain \/ LeaveSaved \/ LeaveUnsaved \/ LeaveClosed \/ LeaveDone

EndStep == CrashSession \/ CloseAnyway

LEMMA StepKinds ==
  ASSUME NextSession
  PROVE  ReadingStep \/ (\E o \in Opens : OpeningStep(o)) \/ LeavingStep \/ EndStep
<1>1. CASE Resumes
  BY <1>1 DEF Resumes, ReadingStep, OpeningStep, LeavingStep
<1>2. CASE Events
  BY <1>2 DEF Events, Opening, Proceeds, Leaving, ReadingStep, OpeningStep, LeavingStep, EndStep
<1> QED
  BY <1>1, <1>2 DEF NextSession

WriterStep == Next \/ UNCHANGED writerVars

LEMMA ReadingIsWriting ==
  ASSUME Sound, SessionTypeOK, ReadingStep
  PROVE  WriterStep
<1>1. CASE PageTurn
  <2>1. reader \in Leases /\ BookOf[reader] \in Books /\ session[reader].shown \in Stamps
    BY <1>1, Parts, ShownIsStamp DEF PageTurn
  <2> QED
    BY <1>1, <2>1 DEF PageTurn, WriterStep, Next
<1>2. CASE Timer \/ \E l \in Leases : Commit(l) \/ WriteEnds(l) \/ ProjectionFails(l) \/ RequestFails(l)
  BY <1>2 DEF Timer, Commit, WriteEnds, Answered, StaleBasis, Refused, ProjectionFails,
     RequestFails, WriterStep, Next
<1>3. CASE Hidden \/ HiddenFlushed
  BY <1>3, Parts, OpensAssumption DEF Hidden, HiddenFlushed, WriterStep, Next
<1>4. CASE Restart \/ Shown \/ \E b \in Books : Merge(b)
  BY <1>4 DEF Restart, Shown, Merge, WriterStep
<1> QED
  BY <1>1, <1>2, <1>3, <1>4 DEF ReadingStep

LEMMA OpeningIsWriting ==
  ASSUME Sound, SessionTypeOK, Links, NEW o \in Opens, OpeningStep(o)
  PROVE  WriterStep
<1>1. o \in Callers
  BY OpensAssumption
<1>2. UnderWay(o) => opening[o] \in Openings /\ Shaped(opening[o])
  BY Parts DEF Links
<1>3. CASE \E b \in Books : OpenBegin(o, b)
  BY <1>1, <1>3, Parts DEF OpenBegin, WriterStep, Next
<1>4. CASE OpenFlushed(o) \/ OpenFlushedPrevious(o)
  BY <1>1, <1>4 DEF OpenFlushed, OpenFlushedPrevious, WriterStep, Next
<1>5. CASE OpenDecide(o)
  <2>1. FlushesPrevious(o) => opening[o].previous \in Leases
    BY <1>2, <1>5 DEF OpenDecide, FlushesPrevious, AtPhase, UnderWay, Openings
  <2> QED
    BY <1>1, <1>5, <2>1 DEF OpenDecide, WriterStep, Next
<1>6. CASE OpenReleasesTarget(o)
  <2>1. opening[o].target \in Leases
    BY <1>2, <1>6 DEF OpenReleasesTarget, AtPhase, UnderWay, Openings, Shaped
  <2> DEFINE l == opening[o].target
             shown == IF session[l] = None THEN None ELSE session[l].shown
  <2>2. shown \in Stamps
    BY <2>1, ShownIsStamp
  <2>3. Retire(l) \/ Handoff(l, shown)
    BY <1>6 DEF OpenReleasesTarget
  <2> QED
    BY <2>1, <2>2, <2>3 DEF WriterStep, Next
<1>7. CASE OpenReleasesPrevious(o)
  <2>1. opening[o].previous \in Leases /\ Retire(opening[o].previous)
    BY <1>2, <1>7 DEF OpenReleasesPrevious, AtPhase, UnderWay, Openings, Shaped
  <2> QED
    BY <2>1 DEF WriterStep, Next
<1>8. CASE OpenTakesOver(o)
  <2> DEFINE l == opening[o].lease
             b == opening[o].book
             d == opening[o].decision
  <2>1. UnderWay(o)
    BY <1>8 DEF OpenTakesOver, TakesOver, AtPhase, UnderWay
  <2>2. l \in Leases /\ BookOf[l] = b /\ b \in Books
    BY <1>2, <1>8, <2>1 DEF OpenTakesOver, TakesOver, AtPhase, Openings, Shaped, Links, Candidate
  <2>3. d.restore \in Positions \cup {None}
    BY <1>2, <2>1 DEF Openings, Choices
  <2>4. session[l].shown \in Stamps
    BY <1>8, <2>2, ShownIsStamp DEF OpenTakesOver
  <2>5. CASE d.ack # 0 /\ OpenSaved(l, d.ack)
    <3>1. d.ack <= made /\ d.ack \in Nat /\ made \in Nat
      BY <2>2, <2>5 DEF OpenSaved, Sound, BookSound, TypeOK, Checkpoints
    <3>2. d.ack \in 1 .. made
      BY <2>5, <3>1
    <3> QED
      BY <2>2, <2>5, <3>2 DEF WriterStep, Next
  <2>6. CASE d.restore # None /\ OpenRestoring(l, session[l].shown, d.restore)
    BY <2>2, <2>3, <2>4, <2>6 DEF WriterStep, Next
  <2>7. CASE Open(l)
    BY <2>2, <2>7 DEF WriterStep, Next
  <2> QED
    BY <1>8, <2>5, <2>6, <2>7 DEF OpenTakesOver
<1>9. CASE \/ OpenPrepare(o) \/ OpenCannotRelease(o) \/ OpenClosed(o) \/ OpenCannotTakeOver(o)
           \/ OpenGivesUp(o) \/ OpenAborts(o)
  BY <1>9 DEF OpenPrepare, OpenCannotRelease, OpenClosed, OpenCannotTakeOver, OpenGivesUp,
     OpenAborts, WriterStep
<1> QED
  BY <1>3, <1>4, <1>5, <1>6, <1>7, <1>8, <1>9 DEF OpeningStep

LEMMA LeavingIsWriting ==
  ASSUME Sound, SessionTypeOK, Links, LeavingStep
  PROVE  WriterStep
<1>1. "leave" \in Callers
  BY OpensAssumption
<1>2. LeaveSaved \/ LeaveUnsaved => leaving.lease \in Leases
  BY Parts DEF LeaveSaved, LeaveUnsaved, LeaveSettled, Leavings, Links, LeavingShaped
<1>3. CASE \E unsaved \in BOOLEAN : LeaveBegin(unsaved)
  BY <1>1, <1>3, Parts DEF LeaveBegin, WriterStep, Next
<1>4. CASE LeaveSaved
  BY <1>2, <1>4 DEF LeaveSaved, WriterStep, Next
<1>5. CASE LeaveUnsaved
  <2> DEFINE l == leaving.lease
             shown == IF session[l] = None THEN None ELSE session[l].shown
  <2>1. shown \in Stamps
    BY <1>2, <1>5, ShownIsStamp
  <2>2. Collect("leave") \/ Handoff(l, shown) \/ UNCHANGED writerVars
    BY <1>5 DEF LeaveUnsaved
  <2> QED
    BY <1>1, <1>2, <1>5, <2>1, <2>2 DEF WriterStep, Next
<1>6. CASE LeaveClosed \/ LeaveDone \/ LeaveAgain
  BY <1>1, <1>6 DEF LeaveClosed, LeaveDone, LeaveAgain, WriterStep, Next
<1> QED
  BY <1>3, <1>4, <1>5, <1>6 DEF LeavingStep

LEMMA EndIsWriting ==
  ASSUME SessionTypeOK, EndStep
  PROVE  WriterStep
<1>1. CASE CrashSession
  BY <1>1 DEF CrashSession, WriterStep, Next
<1>2. CASE CloseAnyway
  <2>1. PICK l \in Leases : session[l] # None /\ CloseUnsaved(l, session[l].shown)
    BY <1>2 DEF CloseAnyway
  <2>2. session[l].shown \in Stamps
    BY <2>1, ShownIsStamp
  <2> QED
    BY <2>1, <2>2 DEF WriterStep, Next
<1> QED
  BY <1>1, <1>2 DEF EndStep

LEMMA SessionsWrite ==
  ASSUME Sound, SessionTypeOK, Links, [NextSession]_vars
  PROVE  [Next]_writerVars /\ Sound'
<1>1. WriterStep
  <2>1. CASE NextSession
    BY <2>1, StepKinds, ReadingIsWriting, OpeningIsWriting, LeavingIsWriting, EndIsWriting
  <2>2. CASE UNCHANGED vars
    BY <2>2 DEF vars, WriterStep
  <2> QED
    BY <2>1, <2>2
<1> QED
  BY <1>1, NextSound DEF WriterStep

-----------------------------------------------------------------------------
\* Types

LEMMA StampOfVersion ==
  ASSUME NEW v \in Versions
  PROVE  StampOf(v) \in VersionStamps
BY DEF Versions, VersionStamps, StampOf

LEMMA AdoptedType ==
  ASSUME SessionTypeOK, NEW b \in Books, NEW shown \in VersionStamps \cup {None}
  PROVE  Adopted(b, shown) \in Sessions
<1>1. Observed(b, shown) \subseteq Versions /\ revision[b] \in Nat /\ generation \in Nat
  BY BoundsAssumption DEF SessionTypeOK, Observed
<1> QED
  BY <1>1 DEF Adopted, Sessions

LEMMA ReboundType ==
  ASSUME SessionTypeOK, NEW l \in Leases, session[l] # None
  PROVE  Rebound(l) \in Sessions
<1>1. session[l] \in Sessions /\ BookOf[l] \in Books
  BY Parts
<1>2. session[l].shown \in VersionStamps \cup {None}
  BY <1>1 DEF Sessions
<1>3. Adopted(BookOf[l], session[l].shown) \in Sessions
  BY <1>1, <1>2, AdoptedType
<1>4. Again(l, session[l].shown) \in Sessions
  BY <1>1, <1>3 DEF Again, Sessions
<1>5. [session[l] EXCEPT !.invalid = TRUE] \in Sessions
  BY <1>1 DEF Sessions
<1> QED
  BY <1>4, <1>5 DEF Rebound

LEMMA ContinuedType ==
  ASSUME SessionTypeOK, NEW l \in Leases, session[l] # None
  PROVE  Continued(l) \in Sessions
<1> DEFINE b == BookOf[l]
           own == {v \in versions[b] : v.by = "own" /\ v.n = revision[b]}
<1>1. session[l] \in Sessions /\ b \in Books
  BY Parts
<1>2. own \subseteq Versions /\ revision[b] \in 0 .. MaxWrites
  BY <1>1 DEF SessionTypeOK
<1>3. [by |-> "own", n |-> revision[b]] \in VersionStamps /\ revision[b] \in Nat
  BY <1>2, BoundsAssumption DEF VersionStamps
<1> HIDE DEF own
<1>4. [session[l] EXCEPT !.observed = own, !.revision = revision[b],
                         !.shown = [by |-> "own", n |-> revision[b]]] \in Sessions
  BY <1>1, <1>2, <1>3 DEF Sessions
<1> QED
  BY <1>1, <1>4 DEF Continued, own

\* The variables of sessions and of the shelf beside the writer's.
Shapes ==
  /\ versions \in [Books -> SUBSET Versions]
  /\ revision \in [Books -> 0 .. MaxWrites]
  /\ session \in [Leases -> Sessions \cup {None}]
  /\ active \in [Books -> Leases \cup {None}]
  /\ reader \in Leases \cup {None}
  /\ view \in Books \cup {None}
  /\ busy \in BOOLEAN /\ refused \in BOOLEAN
  /\ opening \in [Opens -> Openings \cup {None}]
  /\ leaving \in Leavings \cup {None}
  /\ generation \in Nat /\ faults \in 0 .. MaxFaults
  /\ remote \in 0 .. MaxRemote
  /\ superseded \in [Books -> BOOLEAN]

LEMMA ShapesAreTypes == SessionTypeOK <=> TypeOK /\ Shapes
BY DEF SessionTypeOK, Shapes

\* A failing request stays within its bound.
LEMMA FaultBounded ==
  ASSUME SessionTypeOK, Fault
  PROVE  faults' \in 0 .. MaxFaults
BY BoundsAssumption DEF SessionTypeOK, Fault

\* A version that is written or arrives.
LEMMA CommitShapes ==
  ASSUME SessionTypeOK, NEW l \in Leases, Commit(l)
  PROVE  Shapes'
<1> DEFINE b == BookOf[l]
<1>1. /\ Sending(l) /\ b \in Books
      /\ UNCHANGED <<remote, sessions, screen, opening, leaving, generation, faults>>
  BY Parts DEF Commit
<1>2. CASE Unchanged(l)
  BY <1>1, <1>2 DEF Commit, SessionTypeOK, Shapes, sessions, screen
<1>3. CASE ~Unchanged(l)
  <2>1. /\ revision[b] < MaxWrites
        /\ versions' = [versions EXCEPT ![b] = AfterWrite(l)]
        /\ revision' = [revision EXCEPT ![b] = revision[b] + 1]
        /\ superseded' = [superseded EXCEPT ![b] = FALSE]
    BY <1>3 DEF Commit
  <2>2. revision[b] \in 0 .. MaxWrites /\ MaxWrites \in Nat /\ MaxRemote \in Nat
    BY <1>1, BoundsAssumption DEF SessionTypeOK
  <2>3. revision[b] + 1 \in 0 .. MaxWrites /\ revision[b] + 1 \in 0 .. MaxWrites + MaxRemote
    BY <2>1, <2>2
  <2>4. Sample(l).val \in Positions
    BY <1>1 DEF Sending, Sample, SessionTypeOK, TypeOK, Lanes, Flights, Samples
  <2>5. Written(l) \in Versions
    BY <2>3, <2>4 DEF Written, Versions
  <2>6. AfterWrite(l) \subseteq Versions
    BY <1>1, <2>5 DEF AfterWrite, SessionTypeOK
  <2>7. /\ versions' \in [Books -> SUBSET Versions] /\ revision' \in [Books -> 0 .. MaxWrites]
        /\ superseded' \in [Books -> BOOLEAN]
    BY <1>1, <2>1, <2>3, <2>6 DEF SessionTypeOK
  <2> QED
    BY <1>1, <2>7 DEF SessionTypeOK, Shapes, sessions, screen
<1> QED
  BY <1>2, <1>3

LEMMA MergeShapes ==
  ASSUME SessionTypeOK, NEW b \in Books, Merge(b)
  PROVE  Shapes'
<1>1. /\ remote < MaxRemote /\ remote' = remote + 1
      /\ UNCHANGED <<writerVars, revision, sessions, screen, opening, leaving, generation, faults>>
  BY DEF Merge
<1>2. remote' \in 0 .. MaxRemote /\ remote' \in 0 .. MaxWrites + MaxRemote
  BY <1>1, BoundsAssumption DEF SessionTypeOK
<1>3. PICK val \in Positions, seen \in BOOLEAN :
        LET v == [by |-> "other", n |-> remote', val |-> val]
        IN  /\ versions' = [versions EXCEPT ![b] =
                 {v} \cup (IF seen THEN {} ELSE {w \in @ : w.by = "own"})]
            /\ superseded' = [superseded EXCEPT ![b] = @ \/ ~(versions[b] \subseteq versions'[b])]
  BY DEF Merge
<1>4. [by |-> "other", n |-> remote', val |-> val] \in Versions
  BY <1>2 DEF Versions
<1>5. versions' \in [Books -> SUBSET Versions]
  BY <1>3, <1>4 DEF SessionTypeOK
<1>6. superseded' \in [Books -> BOOLEAN]
  BY <1>3 DEF SessionTypeOK
<1> QED
  BY <1>1, <1>2, <1>5, <1>6 DEF SessionTypeOK, Shapes, sessions, screen

\* A step that changes one session, and at most the counters.
LEMMA SessionShapes ==
  ASSUME SessionTypeOK, NEW l \in Leases, NEW s \in Sessions,
         session' = [session EXCEPT ![l] = s],
         UNCHANGED <<store, active, screen, opening, leaving, generation>>,
         faults' \in 0 .. MaxFaults
  PROVE  Shapes'
BY DEF SessionTypeOK, Shapes, store, screen

LEMMA ReadingShapes ==
  ASSUME Sound, SessionTypeOK, Links, ReadingStep
  PROVE  Shapes'
<1>0. faults \in 0 .. MaxFaults
  BY DEF SessionTypeOK
<1>1. CASE PageTurn \/ Timer \/ Hidden \/ HiddenFlushed
  BY <1>1 DEF PageTurn, Timer, Hidden, HiddenFlushed, SessionTypeOK, Shapes, store, sessions, screen
<1>2. CASE Restart
  BY <1>2, FaultBounded DEF Restart, SessionTypeOK, Shapes, store, sessions, screen
<1>3. CASE Shown
  <2>1. reader \in Leases /\ session[reader] # None
    BY <1>3, Parts DEF Shown, Live
  <2> QED
    BY <1>0, <1>3, <2>1, ReboundType, SessionShapes DEF Shown
<1>4. ASSUME NEW l \in Leases, StaleBasis(l) PROVE Shapes'
  <2>1. session[l] # None
    BY <1>4 DEF StaleBasis, Live
  <2> QED
    BY <1>0, <1>4, <2>1, ReboundType, SessionShapes DEF StaleBasis
<1>5. ASSUME NEW l \in Leases, Answered(l) \/ ProjectionFails(l) PROVE Shapes'
  <2>1. lane[l] # None
    BY <1>5 DEF Answered, Confirm, ProjectionFails
  <2>2. session[l] # None
    BY <2>1, LaneLives
  <2>3. faults' \in 0 .. MaxFaults
    BY <1>0, <1>5, FaultBounded DEF Answered, ProjectionFails
  <2>4. /\ session' = [session EXCEPT ![l] = Continued(l)]
        /\ UNCHANGED <<store, active, screen, opening, leaving, generation>>
    BY <1>5 DEF Answered, ProjectionFails
  <2> QED
    BY <2>2, <2>3, <2>4, ContinuedType, SessionShapes
<1>6. ASSUME NEW l \in Leases, Refused(l) \/ RequestFails(l) PROVE Shapes'
  BY <1>6, FaultBounded DEF Refused, RequestFails, SessionTypeOK, Shapes, store, sessions, screen
<1> QED
  BY <1>1, <1>2, <1>3, <1>4, <1>5, <1>6, CommitShapes, MergeShapes DEF ReadingStep, WriteEnds

LEMMA DecisionsType ==
  ASSUME SessionTypeOK, NEW b \in Books, NEW d \in Decisions(b)
  PROVE  d \in Choices
<1> DEFINE V == versions[b]
           c == checkpoint[b]
<1>1. V \subseteq Versions /\ c \in Checkpoints \cup {None}
  BY DEF SessionTypeOK, TypeOK
<1>2. /\ NoDecision \in Choices /\ NoDecision.sel = None /\ NoDecision.restore = None
      /\ NoDecision.ack = 0 /\ NoDecision.explicit = FALSE
  BY DEF NoDecision, Choices
<1>3. c # None => c.id \in Nat /\ c.val \in Positions
  BY <1>1 DEF Checkpoints
<1> HIDE DEF V, c
<1>5. CASE c = None
  <2>1. \/ \E v \in V, e \in BOOLEAN : d = [NoDecision EXCEPT !.sel = v, !.explicit = e]
        \/ \E e \in BOOLEAN : d = [NoDecision EXCEPT !.explicit = e]
    BY <1>5 DEF Decisions, V, c
  <2>2. ASSUME NEW v \in V, NEW e \in BOOLEAN,
               d = [NoDecision EXCEPT !.sel = v, !.explicit = e]
        PROVE  d \in Choices
    BY <1>1, <1>2, <2>2 DEF Choices
  <2>3. ASSUME NEW e \in BOOLEAN, d = [NoDecision EXCEPT !.explicit = e]
        PROVE  d \in Choices
    BY <1>2, <2>3 DEF Choices
  <2> QED
    BY <2>1, <2>2, <2>3
<1>6. CASE c # None
  <2>1. ASSUME NEW v \in V, d = [NoDecision EXCEPT !.sel = v, !.ack = c.id] PROVE d \in Choices
    BY <1>1, <1>2, <1>3, <1>6, <2>1 DEF Choices
  <2>2. ASSUME NEW v \in V, NEW e \in BOOLEAN,
               \/ d = [NoDecision EXCEPT !.sel = v, !.restore = c.val, !.explicit = e]
               \/ d = [NoDecision EXCEPT !.sel = v, !.explicit = e]
        PROVE  d \in Choices
    BY <1>1, <1>2, <1>3, <1>6, <2>2 DEF Choices
  <2>3. ASSUME NEW e \in BOOLEAN,
               \/ d = [NoDecision EXCEPT !.restore = c.val, !.explicit = e]
               \/ d = [NoDecision EXCEPT !.explicit = e]
        PROVE  d \in Choices
    BY <1>2, <1>3, <1>6, <2>3 DEF Choices
  <2>4. \/ \E v \in V : d = [NoDecision EXCEPT !.sel = v, !.ack = c.id]
        \/ \E v \in V, e \in BOOLEAN :
             \/ d = [NoDecision EXCEPT !.sel = v, !.restore = c.val, !.explicit = e]
             \/ d = [NoDecision EXCEPT !.sel = v, !.explicit = e]
        \/ \E e \in BOOLEAN :
             \/ d = [NoDecision EXCEPT !.restore = c.val, !.explicit = e]
             \/ d = [NoDecision EXCEPT !.explicit = e]
    BY <1>6 DEF Decisions, V, c
  <2> QED
    BY <2>1, <2>2, <2>3, <2>4
<1> QED
  BY <1>5, <1>6

\* A step of an opening or of the leaving, which changes the screen and the
\* sessions, and no version.
LEMMA ScreenShapes ==
  ASSUME SessionTypeOK, UNCHANGED <<store, generation>>,
         session' \in [Leases -> Sessions \cup {None}],
         active' \in [Books -> Leases \cup {None}],
         reader' \in Leases \cup {None}, view' \in Books \cup {None},
         busy' \in BOOLEAN, refused' \in BOOLEAN,
         opening' \in [Opens -> Openings \cup {None}],
         leaving' \in Leavings \cup {None}, faults' \in 0 .. MaxFaults
  PROVE  Shapes'
BY DEF SessionTypeOK, Shapes, store

LEMMA OpeningGoes ==
  ASSUME SessionTypeOK, NEW o \in Opens, NEW r \in Openings \cup {None},
         opening' = [opening EXCEPT ![o] = r],
         UNCHANGED <<store, sessions, reader, view, refused, leaving, generation, faults>>,
         busy' \in BOOLEAN
  PROVE  Shapes'
<1>1. opening' \in [Opens -> Openings \cup {None}]
  BY DEF SessionTypeOK
<1> QED
  BY <1>1, ScreenShapes DEF SessionTypeOK, sessions

LEMMA ClosingShapes ==
  ASSUME SessionTypeOK, NEW l \in Leases
  PROVE  /\ CloseBegins(l) => session' \in [Leases -> Sessions \cup {None}]
         /\ Closed(l) => /\ session' \in [Leases -> Sessions \cup {None}]
                         /\ active' \in [Books -> Leases \cup {None}]
<1>1. session[l] # None => session[l] \in Sessions
  BY Parts
<1>2. session[l] # None => [session[l] EXCEPT !.closing = TRUE] \in Sessions
  BY <1>1 DEF Sessions
<1>3. ASSUME CloseBegins(l) PROVE session' \in [Leases -> Sessions \cup {None}]
  BY <1>2, <1>3 DEF CloseBegins, SessionTypeOK
<1> QED
  BY <1>3 DEF Closed, SessionTypeOK

\* The fields of an opening under way.
LEMMA OpeningParts ==
  ASSUME SessionTypeOK, Links, NEW o \in Opens, UnderWay(o)
  PROVE  /\ opening[o] \in Openings /\ opening[o] # None /\ Shaped(opening[o])
         /\ opening[o].book \in Books /\ opening[o].decision \in Choices
         /\ opening[o].target # None => opening[o].target \in Leases
         /\ opening[o].previous # None => opening[o].previous \in Leases
         /\ opening[o].lease # None => opening[o].lease \in Leases
BY Parts DEF Links, Openings, UnderWay

LEMMA OpeningShapes ==
  ASSUME Sound, SessionTypeOK, Links, NEW o \in Opens, OpeningStep(o)
  PROVE  Shapes'
<1> DEFINE r == opening[o]
<1>0. UnderWay(o) => r \in Openings
  BY OpeningParts
<1>1. ASSUME NEW b \in Books, OpenBegin(o, b) PROVE Shapes'
  <2> DEFINE n == [book |-> b, phase |-> IF held[b] = None THEN "read" ELSE "flush",
                   previous |-> reader, target |-> held[b], saved |-> "none",
                   previousSaved |-> FALSE, turn |-> 0, lease |-> None, decision |-> NoDecision]
  <2>1. NoDecision \in Choices
    BY DEF NoDecision, Choices
  <2>2. n \in Openings
    BY <2>1 DEF SessionTypeOK, TypeOK, Openings
  <2>3. /\ opening' = [opening EXCEPT ![o] = n] /\ busy' = TRUE
        /\ UNCHANGED <<store, sessions, reader, view, refused, leaving, generation, faults>>
    BY <1>1 DEF OpenBegin, Goes
  <2> HIDE DEF n
  <2> QED
    BY <2>2, <2>3, OpeningGoes
<1>2. CASE OpenGivesUp(o)
  <2>1. /\ opening' = [opening EXCEPT ![o] = None] /\ busy' = FALSE
        /\ UNCHANGED <<store, sessions, reader, view, refused, leaving, generation, faults>>
    BY <1>2 DEF OpenGivesUp, Ends
  <2> QED
    BY <2>1, OpeningGoes
<1>3. CASE OpenFlushed(o) \/ OpenFlushedPrevious(o)
  <2>1. UnderWay(o) /\ o \in Callers /\ answer[o] # None /\ answer[o].status # "waiting"
    BY <1>3, OpensAssumption DEF OpenFlushed, OpenFlushedPrevious, AtPhase, UnderWay, Collect
  <2>2. answer[o].status \in {"saved", "failed"}
    BY <2>1 DEF SessionTypeOK, TypeOK, Answers
  <2>3. /\ [r EXCEPT !.phase = "read", !.saved = answer[o].status] \in Openings
        /\ [r EXCEPT !.phase = "prepare",
                     !.previousSaved = (answer[o].status = "saved")] \in Openings
    BY <1>0, <2>1, <2>2 DEF Openings
  <2>4. \E n \in Openings : opening' = [opening EXCEPT ![o] = n]
    BY <1>3, <2>3 DEF OpenFlushed, OpenFlushedPrevious, Goes
  <2> QED
    BY <1>3, <2>4, OpeningGoes DEF OpenFlushed, OpenFlushedPrevious, screen, SessionTypeOK
<1>4. CASE OpenDecide(o)
  <2>1. UnderWay(o) /\ r.book \in Books
    BY <1>4, OpeningParts DEF OpenDecide, AtPhase, UnderWay
  <2>2. PICK d \in Decisions(r.book) :
          Goes(o, [opening[o] EXCEPT
            !.phase = IF FlushesPrevious(o) THEN "flushPrevious" ELSE "prepare",
            !.decision = d, !.turn = turn[opening[o].book]])
    BY <1>4 DEF OpenDecide
  <2>3. d \in Choices /\ turn[r.book] \in Nat
    BY <2>1, DecisionsType DEF SessionTypeOK, TypeOK
  <2>4. \E n \in Openings : opening' = [opening EXCEPT ![o] = n]
    BY <1>0, <2>1, <2>2, <2>3 DEF Goes, Openings
  <2> QED
    BY <1>4, <2>4, OpeningGoes DEF OpenDecide, screen, SessionTypeOK
<1>5. CASE OpenPrepare(o)
  <2> DEFINE shown == Shows(r.decision)
  <2>1. UnderWay(o) /\ r.book \in Books /\ r.decision \in Choices
    BY <1>5, OpeningParts DEF OpenPrepare, AtPhase, UnderWay
  <2>2. shown \in VersionStamps \cup {None}
    BY <2>1, StampOfVersion DEF Shows, Choices
  <2>3. PICK l \in Leases :
          /\ session' = [session EXCEPT ![l] = Adopted(r.book, shown)]
          /\ Goes(o, [opening[o] EXCEPT !.phase = "publish", !.lease = l])
    BY <1>5 DEF OpenPrepare
  <2>4. Adopted(r.book, shown) \in Sessions
    BY <2>1, <2>2, AdoptedType
  <2>5. session' \in [Leases -> Sessions \cup {None}]
    BY <2>3, <2>4 DEF SessionTypeOK
  <2>6. [opening[o] EXCEPT !.phase = "publish", !.lease = l] \in Openings
    BY <1>0, <2>1 DEF Openings
  <2>7. opening' \in [Opens -> Openings \cup {None}]
    BY <2>3, <2>6 DEF Goes, SessionTypeOK
  <2> QED
    BY <1>5, <2>5, <2>7, ScreenShapes DEF OpenPrepare, screen, SessionTypeOK
<1>6. CASE OpenAborts(o)
  <2>1. UnderWay(o) /\ r.lease \in Leases
    BY <1>6, OpeningParts DEF OpenAborts, UnderWay, Shaped
  <2>2. opening' \in [Opens -> Openings \cup {None}] /\ busy' = FALSE
    BY <1>6 DEF OpenAborts, Ends, SessionTypeOK
  <2>3. /\ Closed(r.lease) /\ reader' \in Leases \cup {None}
        /\ UNCHANGED <<writerVars, store, view, refused, leaving, generation, faults>>
    BY <1>6 DEF OpenAborts, SessionTypeOK
  <2> QED
    BY <2>1, <2>2, <2>3, ClosingShapes, ScreenShapes DEF SessionTypeOK
<1>7. CASE OpenReleasesTarget(o) \/ OpenReleasesPrevious(o)
  <2>1. UnderWay(o)
    BY <1>7 DEF OpenReleasesTarget, OpenReleasesPrevious, AtPhase, UnderWay
  <2>2. \E l \in Leases : CloseBegins(l)
    BY <1>7, <2>1, OpeningParts DEF OpenReleasesTarget, OpenReleasesPrevious, AtPhase, Shaped
  <2>3. session' \in [Leases -> Sessions \cup {None}]
    BY <2>2, ClosingShapes
  <2>4. \E n \in Openings : opening' = [opening EXCEPT ![o] = n]
    BY <1>0, <1>7, <2>1 DEF OpenReleasesTarget, OpenReleasesPrevious, Goes, Openings
  <2>5. opening' \in [Opens -> Openings \cup {None}]
    BY <2>4 DEF SessionTypeOK
  <2> QED
    BY <1>7, <2>3, <2>5, ScreenShapes
       DEF OpenReleasesTarget, OpenReleasesPrevious, screen, SessionTypeOK
<1>8. CASE OpenCannotRelease(o)
  <2>1. UnderWay(o)
    BY <1>8 DEF OpenCannotRelease, AtPhase, UnderWay
  <2>2. \E n \in Openings : opening' = [opening EXCEPT ![o] = n]
    BY <1>0, <1>8, <2>1 DEF OpenCannotRelease, Goes, Openings
  <2> QED
    BY <1>8, <2>2, OpeningGoes DEF OpenCannotRelease, screen, SessionTypeOK
<1>9. CASE OpenClosed(o)
  <2>1. UnderWay(o)
    BY <1>9 DEF OpenClosed, AtPhase, UnderWay
  <2>2. Releasing(o) \in Leases /\ Closed(Releasing(o))
    BY <1>9, <2>1, OpeningParts DEF OpenClosed, AtPhase, Shaped, Releasing
  <2>3. \E n \in Openings : opening' = [opening EXCEPT ![o] = n]
    <3>1. PICK phase \in {"released", "takeOver", "abort"} :
            opening' = [opening EXCEPT ![o] = [r EXCEPT !.phase = phase]]
      BY <1>9 DEF OpenClosed, Goes
    <3>2. [r EXCEPT !.phase = phase] \in Openings
      BY <1>0, <2>1 DEF Openings
    <3> QED
      BY <3>1, <3>2
  <2>4. opening' \in [Opens -> Openings \cup {None}]
    BY <2>3 DEF SessionTypeOK
  <2>5. reader' \in Leases \cup {None} /\ faults' \in 0 .. MaxFaults
    BY <1>9, FaultBounded DEF OpenClosed, SessionTypeOK
  <2> QED
    BY <1>9, <2>2, <2>4, <2>5, ClosingShapes, ScreenShapes DEF OpenClosed, SessionTypeOK
<1>10. CASE OpenTakesOver(o)
  <2>1. UnderWay(o)
    BY <1>10 DEF OpenTakesOver, TakesOver, AtPhase, UnderWay
  <2>2. r.lease \in Leases /\ r.book \in Books
    BY <1>10, <2>1, OpeningParts DEF OpenTakesOver, TakesOver, AtPhase, Shaped
  <2>3. /\ active' = [active EXCEPT ![r.book] = r.lease] /\ reader' = r.lease /\ view' = r.book
        /\ opening' = [opening EXCEPT ![o] = None] /\ busy' = FALSE
        /\ UNCHANGED <<store, session, refused, leaving, generation, faults>>
    BY <1>10 DEF OpenTakesOver, Ends
  <2> QED
    BY <2>2, <2>3, ScreenShapes DEF SessionTypeOK
<1>11. CASE OpenCannotTakeOver(o)
  <2>1. UnderWay(o)
    BY <1>11 DEF OpenCannotTakeOver, TakesOver, AtPhase, UnderWay
  <2>2. r.lease \in Leases /\ r.book \in Books
    BY <1>11, <2>1, OpeningParts DEF OpenCannotTakeOver, TakesOver, AtPhase, Shaped
  <2>3. \E n \in Openings : opening' = [opening EXCEPT ![o] = n]
    BY <1>0, <1>11, <2>1 DEF OpenCannotTakeOver, Goes, Openings
  <2>4. opening' \in [Opens -> Openings \cup {None}]
    BY <2>3 DEF SessionTypeOK
  <2>5. active' \in [Books -> Leases \cup {None}]
    BY <1>11, <2>2 DEF OpenCannotTakeOver, SessionTypeOK
  <2> QED
    BY <1>11, <2>4, <2>5, ScreenShapes DEF OpenCannotTakeOver, screen, SessionTypeOK
<1> QED
  BY <1>1, <1>2, <1>3, <1>4, <1>5, <1>6, <1>7, <1>8, <1>9, <1>10, <1>11 DEF OpeningStep

LEMMA LeavingShapes ==
  ASSUME Sound, SessionTypeOK, Links, LeavingStep
  PROVE  Shapes'
<1>0. /\ leaving # None => leaving \in Leavings
      /\ LeaveSettled \/ (leaving # None /\ leaving.phase = "close") => leaving.lease \in Leases
  BY Parts DEF LeaveSettled, Leavings, Links, LeavingShaped
<1>1. ASSUME NEW unsaved \in BOOLEAN, LeaveBegin(unsaved) PROVE Shapes'
  <2>0. ASSUME NEW l \in Leases \cup {None}, NEW phase \in {"flush", "done"}
        PROVE  [lease |-> l, phase |-> phase, unsaved |-> unsaved, caught |-> FALSE] \in Leavings
    BY DEF Leavings
  <2>1. leaving' \in Leavings \cup {None} /\ busy' \in BOOLEAN /\ refused' \in BOOLEAN
    BY <1>1, <2>0 DEF LeaveBegin, LeaveRefused, SessionTypeOK
  <2> QED
    BY <1>1, <2>1, ScreenShapes DEF LeaveBegin, sessions, SessionTypeOK
<1>2. CASE LeaveSaved
  <2>1. leaving.lease \in Leases /\ leaving \in Leavings
    BY <1>0, <1>2 DEF LeaveSaved, LeaveSettled
  <2>2. [leaving EXCEPT !.phase = "close"] \in Leavings
    BY <2>1 DEF Leavings
  <2> QED
    BY <1>2, <2>1, <2>2, ClosingShapes, ScreenShapes DEF LeaveSaved, screen, SessionTypeOK
<1>3. CASE LeaveUnsaved
  <2>1. leaving.lease \in Leases /\ leaving \in Leavings
    BY <1>0, <1>3 DEF LeaveUnsaved, LeaveSettled
  <2>2. /\ [leaving EXCEPT !.phase = "close", !.caught = TRUE] \in Leavings
        /\ [leaving EXCEPT !.phase = "done"] \in Leavings
    BY <2>1 DEF Leavings
  <2>3. session' \in [Leases -> Sessions \cup {None}]
    BY <1>3, <2>1, ClosingShapes DEF LeaveUnsaved, SessionTypeOK
  <2>4. leaving' \in Leavings \cup {None} /\ busy' \in BOOLEAN /\ refused' \in BOOLEAN
    BY <1>3, <2>2 DEF LeaveUnsaved, LeaveRefused, SessionTypeOK
  <2> QED
    BY <1>3, <2>3, <2>4, ScreenShapes DEF LeaveUnsaved, SessionTypeOK
<1>4. CASE LeaveClosed
  <2>1. leaving.lease \in Leases /\ leaving \in Leavings /\ Closed(leaving.lease)
    BY <1>0, <1>4 DEF LeaveClosed
  <2>2. [leaving EXCEPT !.phase = "done"] \in Leavings
    BY <2>1 DEF Leavings
  <2>3. /\ leaving' \in Leavings \cup {None} /\ busy' \in BOOLEAN /\ refused' \in BOOLEAN
        /\ reader' \in Leases \cup {None} /\ faults' \in 0 .. MaxFaults
    BY <1>4, <2>2, FaultBounded DEF LeaveClosed, LeaveRefused, SessionTypeOK
  <2> QED
    BY <1>4, <2>1, <2>3, ClosingShapes, ScreenShapes DEF LeaveClosed, SessionTypeOK
<1>5. CASE LeaveDone \/ LeaveAgain
  BY <1>5, ScreenShapes DEF LeaveDone, LeaveAgain, sessions, SessionTypeOK
<1> QED
  BY <1>1, <1>2, <1>3, <1>4, <1>5 DEF LeavingStep

LEMMA TypesStep ==
  ASSUME Sound, SessionTypeOK, Links, [NextSession]_vars
  PROVE  SessionTypeOK'
<1>1. TypeOK'
  BY SessionsWrite DEF Sound
<1>2. Shapes'
  <2>1. CASE NextSession
    <3>1. CASE EndStep
      BY <3>1 DEF EndStep, CrashSession, CloseAnyway, WindowGone, SessionTypeOK, Shapes, store
    <3> QED
      BY <2>1, <3>1, StepKinds, ReadingShapes, OpeningShapes, LeavingShapes
  <2>2. CASE UNCHANGED vars
    BY <2>2 DEF vars, SessionTypeOK, Shapes, store, sessions, screen
  <2> QED
    BY <2>1, <2>2
<1> QED
  BY <1>1, <1>2 DEF SessionTypeOK, Shapes

-----------------------------------------------------------------------------
\* Links between the leases

SameLife ==
  \A l \in Leases :
    /\ session'[l] = None <=> session[l] = None
    /\ session[l] # None => session'[l].closing = session[l].closing

\* What is said of one opening does not change.
LEMMA OpeningKept ==
  ASSUME SessionTypeOK, Links, NEW o \in Opens, SameLife,
         UNCHANGED <<held, reader, opening, leaving>>
  PROVE  Candidate(o)' /\ Ending(o)' /\ (UnderWay(o) => Shaped(opening[o]))'
<1>1. /\ held' = held /\ reader' = reader /\ opening' = opening /\ leaving' = leaving
      /\ Candidate(o) /\ Ending(o) /\ (UnderWay(o) => Shaped(opening[o]))
  BY DEF Links
<1>2. UnderWay(o)' <=> UnderWay(o)
  BY <1>1 DEF UnderWay
<1>3. UnderWay(o) => (UnderWay(o) => Shaped(opening[o]))'
  BY <1>1, <1>2 DEF Shaped
<1>4. \A l \in Leases : Gone(l) => Gone(l)'
  BY <1>1 DEF Gone, SameLife
<1>5. Ending(o)'
  <2>1. CASE UnderWay(o)
    BY <1>1, <1>2, <1>4, <2>1, OpeningParts DEF Ending, Shaped
  <2> QED
    BY <1>2, <2>1 DEF Ending
<1>6. \A l : Referenced(l)' <=> Referenced(l)
  BY <1>1 DEF Referenced, UnderWay
<1>7. Candidate(o)'
  <2>1. CASE UnderWay(o) /\ opening[o].lease # None
    <3>1. opening[o].lease \in Leases
      BY <2>1, OpeningParts
    <3> QED
      BY <1>1, <1>2, <1>6, <2>1, <3>1 DEF Candidate, SameLife, UnderWay
  <2> QED
    BY <1>1, <1>2, <2>1 DEF Candidate
<1> QED
  BY <1>1, <1>2, <1>3, <1>5, <1>7

LEMMA QuietLinks ==
  ASSUME SessionTypeOK, Links, SameLife,
         UNCHANGED <<held, active, reader, opening, leaving>>, view' \in {view, None}
  PROVE  Links'
<1>1. /\ held' = held /\ reader' = reader /\ opening' = opening /\ leaving' = leaving
      /\ active' = active /\ view' \in {view, None}
  OBVIOUS
<1>2. \A l \in Leases : (Gone(l) => Gone(l)') /\ (Live(l) => Live(l)')
  BY <1>1 DEF Gone, Live, SameLife
<1>3. \A l : BeingReleased(l)' <=> BeingReleased(l)
  BY <1>1 DEF BeingReleased, UnderWay
<1>4. (leaving # None => LeavingShaped(leaving))'
  BY <1>1 DEF Links, LeavingShaped
<1>5. (leaving # None /\ leaving.phase = "close" => Gone(leaving.lease))'
  BY <1>1, <1>2, Parts DEF Links, LeavingShaped, Leavings
<1>6. \A b \in Books : (active[b] # None => held[b] = active[b] \/ BeingReleased(active[b]))'
  BY <1>1, <1>3 DEF Links
<1>7. \A b \in Books : (held[b] # None => Live(held[b]))'
  BY <1>1, <1>2, Parts DEF Links
<1>8. (view # None /\ reader # None => BookOf[reader] = view)'
  BY <1>1 DEF Links
<1>9. \A o \in Opens : Candidate(o)' /\ Ending(o)' /\ (UnderWay(o) => Shaped(opening[o]))'
  BY OpeningKept
<1> QED
  BY <1>4, <1>5, <1>6, <1>7, <1>8, <1>9 DEF Links

\* Binding again and going on end no session and open none.
LEMMA SessionLives ==
  ASSUME SessionTypeOK, NEW l \in Leases, session[l] # None,
         \/ session' = [session EXCEPT ![l] = Rebound(l)] /\ Live(l)
         \/ session' = [session EXCEPT ![l] = Continued(l)]
  PROVE  SameLife
<1>1. session[l] \in Sessions
  BY Parts
<1>2. session'[l] # None
  BY ReboundType, ContinuedType, RecordsAssumption DEF SessionTypeOK
<1>3. session'[l].closing = session[l].closing
  <2>1. CASE session' = [session EXCEPT ![l] = Rebound(l)] /\ Live(l)
    <3>1. Rebound(l).closing = FALSE /\ session[l].closing = FALSE
      <4>1. [session[l] EXCEPT !.invalid = TRUE].closing = session[l].closing
        BY <1>1 DEF Sessions
      <4>2. Again(l, session[l].shown).closing = FALSE
        BY DEF Again, Adopted
      <4>3. session[l].closing = FALSE
        BY <1>1, <2>1 DEF Live, Sessions
      <4> QED
        BY <4>1, <4>2, <4>3 DEF Rebound
    <3> QED
      BY <2>1, <3>1 DEF SessionTypeOK
  <2>2. CASE session' = [session EXCEPT ![l] = Continued(l)]
    <3>1. Continued(l).closing = session[l].closing
      BY <1>1 DEF Continued, Sessions
    <3> QED
      BY <2>2, <3>1 DEF SessionTypeOK
  <2> QED
    BY <2>1, <2>2
<1>4. \A k \in Leases \ {l} : session'[k] = session[k]
  BY DEF SessionTypeOK
<1> QED
  BY <1>2, <1>3, <1>4 DEF SameLife

LEMMA ReadingLinks ==
  ASSUME Sound, SessionTypeOK, Links, ReadingStep
  PROVE  Links' /\ UNCHANGED <<held, active, reader, view, opening, leaving>> /\ SameLife
<1>0. UNCHANGED sessions => SameLife /\ active' = active
  BY DEF SameLife, sessions
<1>1. /\ UNCHANGED <<active, reader, view, opening, leaving>>
      /\ SameLife
  <2>1. CASE PageTurn \/ Timer \/ Restart \/ Hidden \/ HiddenFlushed
    BY <1>0, <2>1 DEF PageTurn, Timer, Restart, Hidden, HiddenFlushed, screen
  <2>2. CASE Shown
    BY <2>2, Parts, SessionLives DEF Shown, Live, screen
  <2>3. CASE \E l \in Leases : Commit(l) \/ RequestFails(l) \/ Refused(l)
    BY <1>0, <2>3 DEF Commit, RequestFails, Refused, screen
  <2>4. ASSUME NEW l \in Leases, StaleBasis(l)
        PROVE  UNCHANGED <<active, reader, view, opening, leaving>> /\ SameLife
    BY <2>4, SessionLives DEF StaleBasis, Live, screen
  <2>5. ASSUME NEW l \in Leases, Answered(l) \/ ProjectionFails(l)
        PROVE  UNCHANGED <<active, reader, view, opening, leaving>> /\ SameLife
    <3>1. session[l] # None
      BY <2>5, LaneLives DEF Answered, Confirm, ProjectionFails
    <3> QED
      BY <2>5, <3>1, SessionLives DEF Answered, ProjectionFails, screen
  <2>6. CASE \E b \in Books : Merge(b)
    BY <1>0, <2>6 DEF Merge, screen
  <2> QED
    BY <2>1, <2>2, <2>3, <2>4, <2>5, <2>6 DEF ReadingStep, WriteEnds
<1>2. held' = held
  <2>1. CASE PageTurn \/ Timer \/ Hidden \/ HiddenFlushed
    BY <2>1 DEF PageTurn, Timer, Hidden, HiddenFlushed, Accept, StageOnly, TimerFires, Flush,
       Collect, writer
  <2>2. CASE Restart \/ Shown \/ \E b \in Books : Merge(b)
    BY <2>2 DEF Restart, Shown, Merge, writerVars, writer
  <2>3. CASE \E l \in Leases : Commit(l) \/ WriteEnds(l) \/ ProjectionFails(l) \/ RequestFails(l)
    BY <2>3 DEF Commit, WriteEnds, Answered, StaleBasis, Refused, ProjectionFails, RequestFails,
       Deliver, Confirm, Reject
  <2> QED
    BY <2>1, <2>2, <2>3 DEF ReadingStep
<1> QED
  BY <1>1, <1>2, QuietLinks

\* An opening goes on and neither drops a lane nor ends a session.
LEMMA PhaseLinks ==
  ASSUME SessionTypeOK, Links, NEW o \in Opens, NEW r \in Openings \cup {None},
         opening' = [opening EXCEPT ![o] = r],
         UNCHANGED <<held, session, active, reader, view, leaving>>,
         UnderWay(o) => opening[o].phase \notin {"closeTarget", "closePrevious"},
         r # None =>
           /\ Shaped(r) /\ r.phase \notin {"closeTarget", "closePrevious"}
           /\ \/ r.lease = None
              \/ UnderWay(o) /\ r.lease = opening[o].lease /\ r.book = opening[o].book
           /\ \/ r.previous \in {None, reader}
              \/ UnderWay(o) /\ r.previous = opening[o].previous
           /\ \/ r.target = None \/ held[BookOf[r.target]] = r.target
              \/ UnderWay(o) /\ r.target = opening[o].target
  PROVE  Links'
<1>1. /\ held' = held /\ session' = session /\ active' = active /\ reader' = reader
      /\ view' = view /\ leaving' = leaving
      /\ opening'[o] = r /\ \A p \in Opens \ {o} : opening'[p] = opening[p]
  BY DEF SessionTypeOK
<1>2. /\ UnderWay(o)' <=> r # None
      /\ \A p \in Opens \ {o} : UnderWay(p)' <=> UnderWay(p)
  BY <1>1 DEF UnderWay
<1>3. \A l : BeingReleased(l)' <=> BeingReleased(l)
  BY <1>1, <1>2 DEF BeingReleased
<1>4. \A l \in Leases : (Gone(l)' <=> Gone(l)) /\ (Live(l)' <=> Live(l))
  BY <1>1 DEF Gone, Live
<1>5. \A p \in Opens : Ending(p)' /\ (UnderWay(p) => Shaped(opening[p]))'
  BY <1>1, <1>2, <1>4, OpeningParts DEF Links, Ending, Shaped
<1>6. ASSUME NEW l \in Leases, held[BookOf[l]] # l, Referenced(l)' PROVE Referenced(l)
  <2>0. l # None
    BY NoneAssumption
  <2>1. CASE r # None /\ (r.previous = l \/ r.target = l)
    <3>1. CASE r.previous = l
      BY <2>0, <2>1, <3>1 DEF Referenced
    <3>2. CASE r.target = l
      BY <1>6, <2>0, <2>1, <3>2 DEF Referenced
    <3> QED
      BY <2>1, <3>1, <3>2
  <2>2. CASE \E p \in Opens \ {o} :
               UnderWay(p)' /\ (opening'[p].previous = l \/ opening'[p].target = l)
    BY <1>1, <1>2, <2>2 DEF Referenced
  <2>3. CASE reader' = l \/ (leaving' # None /\ leaving'.lease = l)
    BY <1>1, <2>3 DEF Referenced
  <2> QED
    BY <1>1, <1>2, <1>6, <2>1, <2>2, <2>3 DEF Referenced
<1>7. ASSUME NEW p \in Opens PROVE Candidate(p)'
  <2> DEFINE l == opening[p].lease
  <2>1. SUFFICES ASSUME UnderWay(p)', opening'[p].lease # None
                 PROVE  Candidate(p)'
    BY DEF Candidate
  <2>2. UnderWay(p) /\ l # None /\ opening'[p].lease = l /\ opening'[p].book = opening[p].book
    BY <1>1, <1>2, <2>1
  <2>3. Candidate(p) /\ l \in Leases
    BY <2>2, OpeningParts DEF Links
  <2>4. \A q \in Opens : UnderWay(q)' /\ opening'[q].lease = l =>
          UnderWay(q) /\ opening[q].lease = l
    BY <1>1, <1>2, <2>2
  <2> HIDE DEF l
  <2>5. ~Referenced(l)'
    BY <1>6, <2>2, <2>3 DEF Candidate, l
  <2> QED
    BY <1>1, <2>2, <2>3, <2>4, <2>5 DEF Candidate, l
<1>8. (leaving # None => LeavingShaped(leaving))'
  BY <1>1 DEF Links, LeavingShaped
<1>9. (leaving # None /\ leaving.phase = "close" => Gone(leaving.lease))'
  BY <1>1, <1>4, Parts DEF Links, LeavingShaped, Leavings
<1>10. \A b \in Books : (active[b] # None => held[b] = active[b] \/ BeingReleased(active[b]))'
  BY <1>1, <1>3 DEF Links
<1>11. \A b \in Books : (held[b] # None => Live(held[b]))'
  BY <1>1, <1>4, Parts DEF Links
<1>12. (view # None /\ reader # None => BookOf[reader] = view)'
  BY <1>1 DEF Links
<1> QED
  BY <1>5, <1>7, <1>8, <1>9, <1>10, <1>11, <1>12 DEF Links

\* The leaving begins, is refused or is done.
LEMMA LeavingLinks ==
  ASSUME SessionTypeOK, Links, NEW r \in Leavings \cup {None}, leaving' = r,
         UNCHANGED <<held, session, active, reader, opening>>, view' \in {view, None},
         leaving # None => leaving.phase # "close",
         r # None => /\ r.phase # "close" /\ LeavingShaped(r)
                     /\ \/ r.lease \in {None, reader}
                        \/ leaving # None /\ r.lease = leaving.lease
  PROVE  Links'
<1>1. /\ held' = held /\ session' = session /\ active' = active /\ reader' = reader
      /\ opening' = opening
  OBVIOUS
<1>2. \A p \in Opens : UnderWay(p)' <=> UnderWay(p)
  BY <1>1 DEF UnderWay
<1>3. \A l : BeingReleased(l)' <=> BeingReleased(l)
  BY <1>1, <1>2 DEF BeingReleased
<1>4. \A l \in Leases : (Gone(l)' <=> Gone(l)) /\ (Live(l)' <=> Live(l))
  BY <1>1 DEF Gone, Live
<1>5. \A p \in Opens : Ending(p)' /\ (UnderWay(p) => Shaped(opening[p]))'
  BY <1>1, <1>2, <1>4, OpeningParts DEF Links, Ending, Shaped
<1>6. ASSUME NEW l \in Leases, Referenced(l)' PROVE Referenced(l)
  <2>0. l # None
    BY NoneAssumption
  <2>1. CASE leaving' # None /\ leaving'.lease = l
    BY <2>0, <2>1 DEF Referenced
  <2>2. CASE reader' = l \/ \E p \in Opens :
               UnderWay(p)' /\ (opening'[p].previous = l \/ opening'[p].target = l)
    BY <1>1, <1>2, <2>2 DEF Referenced
  <2> QED
    BY <1>6, <2>1, <2>2 DEF Referenced
<1>7. ASSUME NEW p \in Opens PROVE Candidate(p)'
  BY <1>1, <1>2, <1>6, OpeningParts DEF Links, Candidate
<1>8. \A b \in Books : (active[b] # None => held[b] = active[b] \/ BeingReleased(active[b]))'
  BY <1>1, <1>3 DEF Links
<1>9. \A b \in Books : (held[b] # None => Live(held[b]))'
  BY <1>1, <1>4, Parts DEF Links
<1>10. (view # None /\ reader # None => BookOf[reader] = view)'
  BY <1>1 DEF Links
<1> QED
  BY <1>5, <1>7, <1>8, <1>9, <1>10 DEF Links

\* What dropping the lane of l, whose session begins to close, leaves alone.
LEMMA Dropping ==
  ASSUME SessionTypeOK, Links, NEW l \in Leases, held[BookOf[l]] = l, Drop(l),
         CloseBegins(l)
  PROVE  /\ \A b \in Books : held'[b] = IF b = BookOf[l] THEN None ELSE held[b]
         /\ \A k \in Leases \ {l} : session'[k] = session[k]
         /\ Gone(l)'
         /\ \A k \in Leases : Gone(k) => Gone(k)'
         /\ Live(l) /\ \A k \in Leases \ {l} : active' = active /\ Live(k) => Live(k)'
         /\ \A p \in Opens : UnderWay(p) => opening[p].lease # l
<1>1. BookOf[l] \in Books /\ l # None
  BY NoneAssumption, BookOfAssumption
<1>2. /\ \A b \in Books : held'[b] = IF b = BookOf[l] THEN None ELSE held[b]
      /\ held'[BookOf[l]] # l
  BY <1>1 DEF Drop, SessionTypeOK, TypeOK
<1>3. Live(l)
  BY <1>1 DEF Links
<1>4. /\ session' = [session EXCEPT ![l].closing = TRUE]
      /\ session[l] \in Sessions
  BY <1>3, Parts DEF CloseBegins, Live
<1>5. /\ session'[l] = [session[l] EXCEPT !.closing = TRUE]
      /\ \A k \in Leases \ {l} : session'[k] = session[k]
  BY <1>4 DEF SessionTypeOK
<1>6. session'[l].closing
  BY <1>4, <1>5 DEF Sessions
<1>7. \A k \in Leases : BookOf[k] \in Books
  BY BookOfAssumption
<1>8. ASSUME NEW k \in Leases, Gone(k) PROVE Gone(k)'
  <2>1. held'[BookOf[k]] # k
    BY <1>2, <1>7, <1>8, NoneAssumption DEF Gone
  <2> QED
    BY <1>5, <1>6, <1>8, <2>1 DEF Gone
<1> QED
  BY <1>1, <1>2, <1>3, <1>5, <1>6, <1>8 DEF Gone, Live, Links, Candidate

\* An opening goes on with its leases, ...
Continues(o) ==
  /\ UnderWay(o)
  /\ opening'[o].lease = opening[o].lease /\ opening'[o].book = opening[o].book
  /\ opening'[o].target = opening[o].target
  /\ opening'[o].previous = opening[o].previous
  /\ Shaped(opening'[o])

\* ... and releases none but l, ...
Releases(o, l) ==
  \/ opening'[o].phase = opening[o].phase
  \/ /\ opening[o].phase \notin {"closeTarget", "closePrevious"}
     /\ opening'[o].phase = "closeTarget" => opening[o].target = l
     /\ opening'[o].phase = "closePrevious" => opening[o].previous = l

\* ... or none that it did not release before.
StopsReleasing(o) ==
  \/ opening'[o].phase = opening[o].phase
  \/ opening'[o].phase \notin {"closeTarget", "closePrevious"}

\* An opening or the leaving drops a lane.
LEMMA DropLinks ==
  ASSUME Sound, SessionTypeOK, SessionTypeOK', Links, NEW l \in Leases, held[BookOf[l]] = l,
         Drop(l), CloseBegins(l), UNCHANGED <<active, reader, view>>, BeingReleased(l)',
         \A o \in Opens : UnderWay(o)' <=> UnderWay(o),
         \A o \in Opens : UnderWay(o) => Continues(o) /\ Releases(o, l),
         leaving' # None =>
           leaving # None /\ leaving'.lease = leaving.lease /\ LeavingShaped(leaving'),
         leaving' = leaving \/ (leaving.phase # "close" /\ leaving.lease = l)
  PROVE  Links'
<1>0. \A p \in Opens : UnderWay(p) =>
        /\ opening'[p].lease = opening[p].lease /\ opening'[p].book = opening[p].book
        /\ opening'[p].target = opening[p].target
        /\ opening'[p].previous = opening[p].previous
        /\ Shaped(opening'[p])
        /\ \/ opening'[p].phase = opening[p].phase
           \/ /\ opening[p].phase \notin {"closeTarget", "closePrevious"}
              /\ opening'[p].phase = "closeTarget" => opening[p].target = l
              /\ opening'[p].phase = "closePrevious" => opening[p].previous = l
  BY DEF Continues, Releases
<1>1. /\ active' = active /\ reader' = reader /\ view' = view
      /\ \A b \in Books : held'[b] = IF b = BookOf[l] THEN None ELSE held[b]
      /\ \A k \in Leases \ {l} : session'[k] = session[k]
      /\ Gone(l)'
      /\ Live(l) /\ \A k \in Leases \ {l} : Live(k) => Live(k)'
  BY Dropping
<1>2. \A k \in Leases : Gone(k) => Gone(k)'
  BY Dropping
<1>3. \A p \in Opens : UnderWay(p) => opening[p].lease # l
  BY Dropping
<1>4. BookOf[l] \in Books /\ active[BookOf[l]] = l /\ l # None
  BY <1>1, NoneAssumption, BookOfAssumption DEF Live
<1>5. ASSUME NEW p \in Opens PROVE Ending(p)' /\ (UnderWay(p) => Shaped(opening[p]))'
  <2>1. CASE UnderWay(p)
    <3>1. /\ opening[p].target # None => opening[p].target \in Leases
          /\ opening[p].previous # None => opening[p].previous \in Leases
          /\ Shaped(opening[p]) /\ Ending(p)
      BY <2>1, OpeningParts DEF Links
    <3>2. opening'[p].phase = "closeTarget" => Gone(opening[p].target)'
      BY <1>0, <1>1, <1>2, <2>1, <3>1 DEF Ending, Shaped
    <3>3. opening'[p].phase = "closePrevious" => Gone(opening[p].previous)'
      BY <1>0, <1>1, <1>2, <2>1, <3>1 DEF Ending, Shaped
    <3>4. /\ opening'[p].target = opening[p].target /\ opening'[p].previous = opening[p].previous
          /\ Shaped(opening'[p])
      BY <1>0, <2>1
    <3> QED
      BY <3>2, <3>3, <3>4 DEF Ending, Gone
  <2> QED
    BY <2>1 DEF Ending
<1>6. \A k \in Leases : Referenced(k)' => Referenced(k)
  BY <1>0, <1>1 DEF Referenced
<1>7. ASSUME NEW p \in Opens PROVE Candidate(p)'
  <2> DEFINE k == opening[p].lease
  <2>1. SUFFICES ASSUME UnderWay(p)', opening'[p].lease # None
                 PROVE  Candidate(p)'
    BY DEF Candidate
  <2>2. /\ UnderWay(p) /\ k # None /\ opening'[p].lease = k /\ opening'[p].book = opening[p].book
        /\ Candidate(p) /\ k \in Leases
    BY <1>0, <2>1, OpeningParts DEF Links
  <2>3. \A q \in Opens : UnderWay(q)' /\ opening'[q].lease = k =>
          UnderWay(q) /\ opening[q].lease = k
    BY <1>0
  <2>4. k # l /\ session'[k] = session[k] /\ BookOf[k] \in Books
    BY <1>1, <1>3, <2>2, BookOfAssumption
  <2> HIDE DEF k
  <2>5. ~Referenced(k)' /\ held'[BookOf[k]] # k
    BY <1>1, <1>6, <2>2, <2>4 DEF Candidate, k
  <2> QED
    BY <1>1, <2>2, <2>3, <2>4, <2>5 DEF Candidate, k
<1>8. (leaving # None => LeavingShaped(leaving))'
  OBVIOUS
<1>9. (leaving # None /\ leaving.phase = "close" => Gone(leaving.lease))'
  BY <1>1, <1>2, Parts DEF Links, LeavingShaped, Leavings, Gone
<1>10. \A k \in Leases \ {l} : BeingReleased(k) => BeingReleased(k)'
  BY <1>0 DEF BeingReleased
<1>11. \A b \in Books : (active[b] # None => held[b] = active[b] \/ BeingReleased(active[b]))'
  BY <1>1, <1>4, <1>10, Parts DEF Links
<1>12. \A b \in Books : (held[b] # None => Live(held[b]))'
  <2>1. ASSUME NEW b \in Books, held'[b] # None PROVE Live(held[b])'
    <3>1. b # BookOf[l] /\ held'[b] = held[b] /\ Live(held[b]) /\ held[b] \in Leases
      BY <1>1, <2>1, Parts DEF Links
    <3>2. held[b] # l
      BY <2>1, <3>1 DEF Sound, Mapped
    <3> QED
      BY <1>1, <3>1, <3>2 DEF Live
  <2> QED
    BY <2>1
<1>13. (view # None /\ reader # None => BookOf[reader] = view)'
  BY <1>1 DEF Links
<1> QED
  BY <1>5, <1>7, <1>8, <1>9, <1>11, <1>12, <1>13 DEF Links


\* A session whose lane is gone is over: its opening or the leaving goes on.
LEMMA CloseLinks ==
  ASSUME Sound, SessionTypeOK, SessionTypeOK', Links, NEW l \in Leases, held[BookOf[l]] # l,
         Closed(l), UNCHANGED <<held, view>>, reader' \in {reader, None},
         \A o \in Opens : UnderWay(o)' =>
           Continues(o) /\ opening[o].lease # l /\ StopsReleasing(o),
         leaving' # None =>
           /\ leaving # None /\ leaving'.lease = leaving.lease /\ LeavingShaped(leaving')
           /\ leaving'.phase = leaving.phase \/ leaving'.phase # "close",
         \A k \in Leases \ {l} : BeingReleased(k) => BeingReleased(k)'
  PROVE  Links'
<1>0. \A p \in Opens : UnderWay(p)' =>
        /\ UnderWay(p) /\ opening[p].lease # l
        /\ opening'[p].lease = opening[p].lease /\ opening'[p].book = opening[p].book
        /\ opening'[p].target = opening[p].target
        /\ opening'[p].previous = opening[p].previous
        /\ Shaped(opening'[p])
        /\ \/ opening'[p].phase = opening[p].phase
           \/ opening'[p].phase \notin {"closeTarget", "closePrevious"}
  BY DEF Continues, StopsReleasing
<1>1. /\ held' = held /\ view' = view
      /\ \A k \in Leases \ {l} : session'[k] = session[k]
      /\ session'[l] = None
      /\ \A b \in Books : active'[b] = IF active[b] = l THEN None ELSE active[b]
  BY DEF Closed, SessionTypeOK
<1>2. \A k \in Leases : Gone(k) => Gone(k)'
  BY <1>1 DEF Gone
<1>3. ASSUME NEW p \in Opens PROVE Ending(p)' /\ (UnderWay(p) => Shaped(opening[p]))'
  <2>1. SUFFICES ASSUME UnderWay(p)' PROVE Ending(p)' /\ Shaped(opening[p])'
    BY DEF Ending
  <2>2. /\ UnderWay(p) /\ Ending(p) /\ Shaped(opening'[p])
        /\ opening'[p].target # None => opening'[p].target \in Leases
        /\ opening'[p].previous # None => opening'[p].previous \in Leases
        /\ Shaped(opening[p])
    BY <1>0, <2>1, OpeningParts DEF Links
  <2>3. opening'[p].phase = "closeTarget" => Gone(opening[p].target)'
    <3>1. SUFFICES ASSUME opening'[p].phase = "closeTarget" PROVE Gone(opening[p].target)'
      OBVIOUS
    <3>2. /\ opening[p].phase = "closeTarget" /\ opening'[p].target = opening[p].target
          /\ opening[p].target \in Leases /\ Gone(opening[p].target)
      BY <1>0, <2>1, <2>2, <3>1 DEF Ending, Shaped
    <3> QED
      BY <1>1, <3>2 DEF Gone
  <2>4. opening'[p].phase = "closePrevious" => Gone(opening[p].previous)'
    <3>1. SUFFICES ASSUME opening'[p].phase = "closePrevious" PROVE Gone(opening[p].previous)'
      OBVIOUS
    <3>2. /\ opening[p].phase = "closePrevious" /\ opening'[p].previous = opening[p].previous
          /\ opening[p].previous \in Leases /\ Gone(opening[p].previous)
      BY <1>0, <2>1, <2>2, <3>1 DEF Ending, Shaped
    <3> QED
      BY <1>1, <3>2 DEF Gone
  <2> QED
    BY <2>2, <2>3, <2>4 DEF Ending
<1>4. ASSUME NEW k \in Leases, Referenced(k)' PROVE Referenced(k)
  <2>0. k # None
    BY NoneAssumption
  <2>1. CASE reader' = k
    BY <2>0, <2>1 DEF Referenced
  <2>2. CASE leaving' # None /\ leaving'.lease = k
    BY <2>2 DEF Referenced
  <2>3. CASE \E p \in Opens : UnderWay(p)' /\ (opening'[p].previous = k \/ opening'[p].target = k)
    BY <1>0, <2>3 DEF Referenced
  <2> QED
    BY <1>4, <2>1, <2>2, <2>3 DEF Referenced
<1>5. ASSUME NEW p \in Opens PROVE Candidate(p)'
  <2> DEFINE k == opening[p].lease
  <2>1. SUFFICES ASSUME UnderWay(p)', opening'[p].lease # None
                 PROVE  Candidate(p)'
    BY DEF Candidate
  <2>2. /\ UnderWay(p) /\ k # None /\ opening'[p].lease = k /\ opening'[p].book = opening[p].book
        /\ Candidate(p) /\ k \in Leases /\ k # l
    BY <1>0, <2>1, OpeningParts DEF Links
  <2>3. \A q \in Opens : UnderWay(q)' /\ opening'[q].lease = k =>
          UnderWay(q) /\ opening[q].lease = k
    BY <1>0
  <2> HIDE DEF k
  <2>4. ~Referenced(k)'
    BY <1>4, <2>2 DEF Candidate, k
  <2> QED
    BY <1>1, <2>2, <2>3, <2>4 DEF Candidate, k
<1>6. (leaving # None => LeavingShaped(leaving))'
  OBVIOUS
<1>7. (leaving # None /\ leaving.phase = "close" => Gone(leaving.lease))'
  BY <1>1, <1>2, Parts DEF Links, LeavingShaped, Leavings, Gone
<1>8. \A b \in Books : (active[b] # None => held[b] = active[b] \/ BeingReleased(active[b]))'
  BY <1>1, Parts DEF Links
<1>9. ASSUME NEW b \in Books, held'[b] # None PROVE Live(held[b])'
  <2>1. /\ held'[b] = held[b] /\ Live(held[b]) /\ held[b] \in Leases /\ BookOf[held[b]] = b
        /\ held[b] # l
    BY <1>1, <1>9, Parts DEF Links, Sound, Mapped
  <2> QED
    BY <1>1, <2>1 DEF Live
<1>10. (view # None /\ reader # None => BookOf[reader] = view)'
  BY <1>1 DEF Links
<1> QED
  BY <1>3, <1>5, <1>6, <1>7, <1>8, <1>9, <1>10 DEF Links

\* A fresh lease becomes the candidate of an opening.
LEMMA PrepareLinks ==
  ASSUME Sound, SessionTypeOK, SessionTypeOK', Links, NEW o \in Opens, OpenPrepare(o)
  PROVE  Links'
<1> DEFINE r == opening[o]
           b == opening[o].book
           shown == Shows(opening[o].decision)
<1>1. PICK l \in Leases :
        /\ BookOf[l] = b /\ Fresh(l)
        /\ session' = [session EXCEPT ![l] = Adopted(b, shown)]
        /\ Goes(o, [opening[o] EXCEPT !.phase = "publish", !.lease = l])
  BY DEF OpenPrepare
<1>2. UnderWay(o) /\ r.phase = "prepare" /\ l # None /\ b \in Books
  BY NoneAssumption, OpeningParts DEF OpenPrepare, AtPhase, UnderWay
<1>3. r \in Openings /\ Shaped(r)
  BY <1>2, OpeningParts
<1>4. /\ UNCHANGED <<held, active, reader, view, leaving>>
      /\ held' = held /\ active' = active /\ reader' = reader /\ view' = view
      /\ leaving' = leaving
  BY DEF OpenPrepare, writerVars, writer, screen
<1>5. /\ opening'[o] = [r EXCEPT !.phase = "publish", !.lease = l]
      /\ \A p \in Opens \ {o} : opening'[p] = opening[p]
  BY <1>1 DEF Goes, SessionTypeOK
<1>6. /\ opening'[o].phase = "publish" /\ opening'[o].lease = l /\ opening'[o].book = b
      /\ opening'[o].previous = r.previous /\ opening'[o].target = r.target
      /\ opening'[o].saved = r.saved /\ opening'[o].previousSaved = r.previousSaved
      /\ opening'[o] \in Openings
  BY <1>3, <1>5 DEF Openings
<1>7. /\ session'[l] = Adopted(b, shown)
      /\ \A k \in Leases \ {l} : session'[k] = session[k]
  BY <1>1 DEF SessionTypeOK
<1>8. session'[l] # None /\ ~session'[l].closing
  <2>1. Adopted(b, shown).closing = FALSE
    BY DEF Adopted
  <2>2. Adopted(b, shown) \in Sessions
    <3>1. r.decision \in Choices
      BY <1>2, OpeningParts
    <3>2. shown \in VersionStamps \cup {None}
      BY <3>1, StampOfVersion DEF Shows, Choices
    <3> QED
      BY <1>2, <3>2, AdoptedType
  <2> QED
    BY <1>7, <2>1, <2>2, RecordsAssumption
<1>9. held[BookOf[l]] # l
  BY <1>1, <1>2 DEF Fresh, Sound, Mapped
<1>10. \A p \in Opens : UnderWay(p)' <=> UnderWay(p)
  BY <1>2, <1>5, <1>6, RecordsAssumption DEF UnderWay
<1>11. ~Referenced(l) /\ \A k \in Leases : Referenced(k)' => Referenced(k)
  <2>1. ~Referenced(l)
    BY <1>1 DEF Referenced, Fresh, UnderWay
  <2>2. ASSUME NEW k \in Leases, Referenced(k)' PROVE Referenced(k)
    <3>1. CASE reader' = k \/ (leaving' # None /\ leaving'.lease = k)
      BY <1>4, <3>1 DEF Referenced
    <3>2. CASE \E p \in Opens : UnderWay(p)' /\ (opening'[p].previous = k \/ opening'[p].target = k)
      <4>1. PICK p \in Opens : UnderWay(p)' /\ (opening'[p].previous = k \/ opening'[p].target = k)
        BY <3>2
      <4>2. UnderWay(p) /\ (opening[p].previous = k \/ opening[p].target = k)
        BY <1>5, <1>6, <1>10, <4>1
      <4> QED
        BY <4>2 DEF Referenced
    <3> QED
      BY <2>2, <3>1, <3>2 DEF Referenced
  <2> QED
    BY <2>1, <2>2
<1>12. \A k \in Leases : BeingReleased(k)' <=> BeingReleased(k)
  BY <1>2, <1>4, <1>5, <1>6, <1>10 DEF BeingReleased
<1>13. \A p \in Opens : UnderWay(p) => opening[p].lease # l
  BY <1>1, <1>2 DEF Links, Candidate, Fresh
<1>14. ASSUME NEW p \in Opens PROVE Ending(p)' /\ (UnderWay(p) => Shaped(opening[p]))'
  <2>1. CASE p = o
    BY <1>2, <1>3, <1>6, <2>1 DEF Ending, Shaped
  <2>2. CASE p # o /\ UnderWay(p)
    <3>1. /\ opening'[p] = opening[p] /\ Ending(p) /\ Shaped(opening[p])
          /\ opening[p].target # None => opening[p].target \in Leases
          /\ opening[p].previous # None => opening[p].previous \in Leases
          /\ opening[p].target # l /\ opening[p].previous # l
      BY <1>5, <1>11, <2>2, OpeningParts DEF Links, Referenced
    <3> QED
      BY <1>4, <1>7, <2>2, <3>1 DEF Ending, Gone, Shaped, UnderWay
  <2> QED
    BY <1>10, <2>1, <2>2 DEF Ending
<1>15. ASSUME NEW p \in Opens PROVE Candidate(p)'
  <2>1. CASE p = o
    <3>1. ~Referenced(l)'
      BY <1>11
    <3>2. \A q \in Opens : UnderWay(q)' /\ opening'[q].lease = l => q = o
      BY <1>5, <1>10, <1>13
    <3> QED
      BY <1>1, <1>4, <1>6, <1>8, <1>9, <2>1, <3>1, <3>2 DEF Candidate
  <2>2. CASE p # o
    <3> DEFINE k == opening[p].lease
    <3>1. SUFFICES ASSUME UnderWay(p)', opening'[p].lease # None
                   PROVE  Candidate(p)'
      BY DEF Candidate
    <3>2. /\ UnderWay(p) /\ k # None /\ opening'[p] = opening[p]
          /\ Candidate(p) /\ k \in Leases /\ k # l
      BY <1>5, <1>10, <1>13, <2>2, <3>1, OpeningParts DEF Links
    <3>3. \A q \in Opens : UnderWay(q)' /\ opening'[q].lease = k =>
            UnderWay(q) /\ opening[q].lease = k
      BY <1>5, <1>6, <1>10, <3>2
    <3> HIDE DEF k
    <3>4. ~Referenced(k)'
      BY <1>11, <3>2 DEF Candidate, k
    <3> QED
      BY <1>4, <1>7, <3>2, <3>3, <3>4 DEF Candidate, k
  <2> QED
    BY <2>1, <2>2
<1>16. (leaving # None => LeavingShaped(leaving))'
  BY <1>4 DEF Links, LeavingShaped
<1>17. (leaving # None /\ leaving.phase = "close" => Gone(leaving.lease))'
  <2>1. SUFFICES ASSUME leaving # None, leaving.phase = "close" PROVE Gone(leaving.lease)'
    BY <1>4
  <2>2. leaving.lease \in Leases /\ leaving.lease # l /\ Gone(leaving.lease)
    BY <1>11, <2>1, Parts DEF Links, LeavingShaped, Leavings, Referenced
  <2> QED
    BY <1>4, <1>7, <2>2 DEF Gone
<1>18. \A a \in Books : (active[a] # None => held[a] = active[a] \/ BeingReleased(active[a]))'
  BY <1>4, <1>12, Parts DEF Links
<1>19. ASSUME NEW a \in Books, held'[a] # None PROVE Live(held[a])'
  <2>1. held'[a] = held[a] /\ Live(held[a]) /\ held[a] \in Leases /\ held[a] # l
    BY <1>4, <1>9, <1>19, Parts DEF Links, Sound, Mapped
  <2> QED
    BY <1>4, <1>7, <2>1 DEF Live
<1>20. (view # None /\ reader # None => BookOf[reader] = view)'
  BY <1>4 DEF Links
<1> QED
  BY <1>14, <1>15, <1>16, <1>17, <1>18, <1>19, <1>20 DEF Links

\* The candidate becomes the session of its book and of the reader.
LEMMA TakeOverLinks ==
  ASSUME Sound, SessionTypeOK, SessionTypeOK', Links, NEW o \in Opens, OpenTakesOver(o)
  PROVE  Links'
<1> DEFINE r == opening[o]
           b == opening[o].book
           l == opening[o].lease
<1>1. UnderWay(o) /\ r.phase \in {"takeOver", "publish"}
  BY DEF OpenTakesOver, TakesOver, AtPhase, UnderWay
<1>2. r \in Openings /\ Shaped(r) /\ l \in Leases /\ b \in Books /\ l # None
  BY <1>1, OpeningParts DEF Shaped
<1>3. Candidate(o) /\ BookOf[l] = b /\ ~Referenced(l) /\ session[l] # None /\ ~session[l].closing
  BY <1>1, <1>2 DEF Links, Candidate
<1> HIDE DEF r, b, l
<1>4. /\ active' = [active EXCEPT ![b] = l] /\ reader' = l /\ view' = b
      /\ opening' = [opening EXCEPT ![o] = None]
      /\ session' = session /\ leaving' = leaving
      /\ \E L : Register(l, L)
  BY DEF OpenTakesOver, Ends, r, b, l, Open, OpenSaved, OpenRestoring
<1>5. /\ held[b] = None
      /\ \A a \in Books : held'[a] = IF a = b THEN l ELSE held[a]
      /\ \A a \in Books : active'[a] = IF a = b THEN l ELSE active[a]
      /\ opening'[o] = None /\ \A p \in Opens \ {o} : opening'[p] = opening[p]
  BY <1>3, <1>4 DEF Register, SessionTypeOK, TypeOK
<1>6. /\ ~UnderWay(o)' /\ \A p \in Opens \ {o} : UnderWay(p)' <=> UnderWay(p)
  BY <1>5 DEF UnderWay
<1>7. \A k \in Leases \ {l} : Referenced(k)' => Referenced(k)
  BY <1>4, <1>5, <1>6 DEF Referenced
<1>8. \A k \in Leases : BeingReleased(k)' <=> BeingReleased(k)
  BY <1>1, <1>4, <1>5, <1>6 DEF BeingReleased, r
<1>9. ASSUME NEW k \in Leases, k # l PROVE held'[BookOf[k]] = k <=> held[BookOf[k]] = k
  BY <1>5, <1>9, BookOfAssumption, NoneAssumption
<1>10. \A k \in Leases \ {l} : Gone(k) => Gone(k)'
  BY <1>4, <1>9 DEF Gone
<1>11. ASSUME NEW p \in Opens PROVE Ending(p)' /\ (UnderWay(p) => Shaped(opening[p]))'
  <2>1. CASE p = o
    BY <1>6, <2>1 DEF Ending
  <2>2. CASE p # o /\ UnderWay(p)
    <3>1. /\ opening'[p] = opening[p] /\ Ending(p) /\ Shaped(opening[p])
          /\ opening[p].target # None => opening[p].target \in Leases
          /\ opening[p].previous # None => opening[p].previous \in Leases
          /\ opening[p].target # l /\ opening[p].previous # l
      BY <1>3, <1>5, <2>2, OpeningParts DEF Links, Referenced
    <3>2. opening[p].phase = "closeTarget" => Gone(opening[p].target)'
      BY <1>10, <2>2, <3>1 DEF Ending, Shaped
    <3>3. opening[p].phase = "closePrevious" => Gone(opening[p].previous)'
      BY <1>10, <2>2, <3>1 DEF Ending, Shaped
    <3> QED
      BY <3>1, <3>2, <3>3 DEF Ending, Gone, Shaped
  <2> QED
    BY <1>6, <2>1, <2>2 DEF Ending
<1>12. ASSUME NEW p \in Opens PROVE Candidate(p)'
  <2> DEFINE k == opening[p].lease
  <2>1. SUFFICES ASSUME UnderWay(p)', opening'[p].lease # None
                 PROVE  Candidate(p)'
    BY DEF Candidate
  <2>2. /\ p # o /\ UnderWay(p) /\ k # None /\ opening'[p] = opening[p]
        /\ Candidate(p) /\ k \in Leases
    BY <1>5, <1>6, <2>1, OpeningParts DEF Links
  <2>3. k # l
    BY <1>1, <1>2, <1>3, <2>2 DEF Candidate, l
  <2>4. \A q \in Opens : UnderWay(q)' /\ opening'[q].lease = k =>
          UnderWay(q) /\ opening[q].lease = k
    BY <1>5, <1>6
  <2> HIDE DEF k
  <2>5. ~Referenced(k)' /\ held'[BookOf[k]] # k
    BY <1>7, <1>9, <2>2, <2>3 DEF Candidate, k
  <2> QED
    BY <1>4, <2>2, <2>4, <2>5 DEF Candidate, k
<1>13. (leaving # None => LeavingShaped(leaving))'
  BY <1>4 DEF Links, LeavingShaped
<1>14. (leaving # None /\ leaving.phase = "close" => Gone(leaving.lease))'
  <2>1. SUFFICES ASSUME leaving # None, leaving.phase = "close" PROVE Gone(leaving.lease)'
    BY <1>4
  <2>2. leaving.lease \in Leases /\ leaving.lease # l /\ Gone(leaving.lease)
    BY <1>3, <2>1, Parts DEF Links, LeavingShaped, Leavings, Referenced
  <2>3. Gone(leaving.lease)'
    <3> DEFINE k == leaving.lease
    <3>1. k \in Leases \ {l} /\ Gone(k) /\ leaving'.lease = k
      BY <1>4, <2>2
    <3> QED
      BY <1>4, <1>10, <3>1 DEF Gone
  <2> QED
    BY <2>3
<1>15. \A a \in Books : (active[a] # None => held[a] = active[a] \/ BeingReleased(active[a]))'
  BY <1>5, <1>8, Parts DEF Links
<1>16. ASSUME NEW a \in Books, held'[a] # None PROVE Live(held[a])'
  <2>1. CASE a = b
    BY <1>3, <1>4, <1>5, <2>1 DEF Live
  <2>2. CASE a # b
    <3>1. held'[a] = held[a] /\ Live(held[a]) /\ held[a] \in Leases /\ BookOf[held[a]] = a
      BY <1>5, <1>16, <2>2, Parts DEF Links, Sound, Mapped
    <3> QED
      BY <1>4, <1>5, <2>2, <3>1 DEF Live
  <2> QED
    BY <2>1, <2>2
<1>17. (view # None /\ reader # None => BookOf[reader] = view)'
  BY <1>3, <1>4
<1> QED
  BY <1>11, <1>12, <1>13, <1>14, <1>15, <1>16, <1>17 DEF Links

LEMMA OpeningLinks ==
  ASSUME Sound, SessionTypeOK, SessionTypeOK', Links, NEW o \in Opens, OpeningStep(o)
  PROVE  Links'
<1> DEFINE r == opening[o]
<1>0. UnderWay(o) => r \in Openings /\ Shaped(r) /\ Ending(o) /\ Candidate(o)
  BY OpeningParts DEF Links
<1>1. ASSUME NEW b \in Books, OpenBegin(o, b) PROVE Links'
  <2> DEFINE n == [book |-> b, phase |-> IF held[b] = None THEN "read" ELSE "flush",
                   previous |-> reader, target |-> held[b], saved |-> "none",
                   previousSaved |-> FALSE, turn |-> 0, lease |-> None, decision |-> NoDecision]
  <2>1. NoDecision \in Choices
    BY DEF NoDecision, Choices
  <2>2. n \in Openings
    BY <2>1 DEF SessionTypeOK, TypeOK, Openings
  <2>3. /\ opening' = [opening EXCEPT ![o] = n] /\ held' = held
        /\ UNCHANGED <<session, active, reader, view, leaving>> /\ ~UnderWay(o)
    BY <1>1 DEF OpenBegin, Goes, Flush, writerVars, writer, sessions, UnderWay
  <2>4. /\ Shaped(n) /\ n.phase \in {"read", "flush"} /\ n.lease = None /\ n.previous = reader
        /\ n.target = held[b]
    BY DEF Shaped, Sound, Mapped
  <2>5. n.target = None \/ held[BookOf[n.target]] = n.target
    BY <2>4 DEF Sound, Mapped
  <2> HIDE DEF n
  <2> QED
    BY <2>2, <2>3, <2>4, <2>5, PhaseLinks
<1>2. CASE OpenGivesUp(o)
  <2>1. /\ opening' = [opening EXCEPT ![o] = None] /\ r.phase \in {"read", "prepare"}
        /\ UNCHANGED <<held, session, active, reader, view, leaving>>
    BY <1>2 DEF OpenGivesUp, Ends, AtPhase, writerVars, writer, sessions
  <2> QED
    BY <2>1, PhaseLinks
<1>3. CASE OpenFlushed(o)
  <2> DEFINE n == [r EXCEPT !.phase = "read", !.saved = answer[o].status]
  <2>1. /\ UnderWay(o) /\ r.phase = "flush" /\ opening' = [opening EXCEPT ![o] = n]
        /\ UNCHANGED <<held, session, active, reader, view, leaving>>
    BY <1>3 DEF OpenFlushed, AtPhase, UnderWay, Goes, Collect, sessions, screen
  <2>3. n \in Openings \cup {None}
    BY <2>1 DEF SessionTypeOK
  <2>4. /\ n.book = r.book /\ n.target = r.target /\ n.previous = r.previous /\ n.lease = r.lease
        /\ n.phase = "read" /\ n.previousSaved = r.previousSaved
    BY <1>0, <2>1 DEF Openings
  <2>5. Shaped(n)
    BY <1>0, <2>1, <2>4 DEF Shaped
  <2> HIDE DEF n
  <2> QED
    BY <2>1, <2>3, <2>4, <2>5, PhaseLinks
<1>4. CASE OpenFlushedPrevious(o)
  <2> DEFINE n == [r EXCEPT !.phase = "prepare", !.previousSaved = (answer[o].status = "saved")]
  <2>1. /\ UnderWay(o) /\ r.phase = "flushPrevious" /\ opening' = [opening EXCEPT ![o] = n]
        /\ UNCHANGED <<held, session, active, reader, view, leaving>>
    BY <1>4 DEF OpenFlushedPrevious, AtPhase, UnderWay, Goes, Collect, sessions, screen
  <2>3. n \in Openings \cup {None}
    BY <2>1 DEF SessionTypeOK
  <2>4. /\ n.book = r.book /\ n.target = r.target /\ n.previous = r.previous /\ n.lease = r.lease
        /\ n.phase = "prepare" /\ n.saved = r.saved
    BY <1>0, <2>1 DEF Openings
  <2>5. Shaped(n)
    BY <1>0, <2>1, <2>4 DEF Shaped
  <2> HIDE DEF n
  <2> QED
    BY <2>1, <2>3, <2>4, <2>5, PhaseLinks
<1>5. CASE OpenDecide(o)
  <2>1. PICK d \in Decisions(r.book) :
          Goes(o, [opening[o] EXCEPT
            !.phase = IF FlushesPrevious(o) THEN "flushPrevious" ELSE "prepare",
            !.decision = d, !.turn = turn[opening[o].book]])
    BY <1>5 DEF OpenDecide
  <2> DEFINE n == [r EXCEPT !.phase = IF FlushesPrevious(o) THEN "flushPrevious" ELSE "prepare",
                            !.decision = d, !.turn = turn[r.book]]
  <2>2. /\ UnderWay(o) /\ r.phase = "read" /\ opening' = [opening EXCEPT ![o] = n]
        /\ UNCHANGED <<held, session, active, reader, view, leaving>>
    BY <1>5, <2>1 DEF OpenDecide, AtPhase, UnderWay, Goes, Flush, writerVars, writer, sessions,
       screen
  <2>4. n \in Openings \cup {None}
    BY <2>2 DEF SessionTypeOK
  <2>5. /\ n.book = r.book /\ n.target = r.target /\ n.previous = r.previous /\ n.lease = r.lease
        /\ n.saved = r.saved /\ n.previousSaved = r.previousSaved
        /\ n.phase = IF FlushesPrevious(o) THEN "flushPrevious" ELSE "prepare"
    BY <1>0, <2>2 DEF Openings
  <2>6. Shaped(n)
    BY <1>0, <2>2, <2>5 DEF Shaped, FlushesPrevious
  <2>7. n.phase \in {"flushPrevious", "prepare"}
    BY <2>5
  <2> HIDE DEF n
  <2> QED
    BY <2>2, <2>4, <2>5, <2>6, <2>7, PhaseLinks
<1>6. CASE OpenCannotRelease(o)
  <2> DEFINE n == [r EXCEPT !.phase = "abort"]
  <2>1. /\ UnderWay(o) /\ r.phase \in {"publish", "released"}
        /\ opening' = [opening EXCEPT ![o] = n]
        /\ UNCHANGED <<held, session, active, reader, view, leaving>>
    BY <1>6 DEF OpenCannotRelease, AtPhase, UnderWay, Goes, writerVars, writer, sessions, screen
  <2>2. n \in Openings
    BY <1>0, <2>1 DEF Openings
  <2>3. /\ n.book = r.book /\ n.target = r.target /\ n.previous = r.previous /\ n.lease = r.lease
        /\ n.saved = r.saved /\ n.previousSaved = r.previousSaved /\ n.phase = "abort"
    BY <1>0, <2>1 DEF Openings
  <2>4. Shaped(n)
    BY <1>0, <2>1, <2>3 DEF Shaped
  <2> HIDE DEF n
  <2> QED
    BY <2>1, <2>2, <2>3, <2>4, PhaseLinks
<1>7. CASE OpenCannotTakeOver(o)
  <2> DEFINE n == [r EXCEPT !.phase = "abort"]
             b == r.book
             l == r.lease
  <2>1. /\ UnderWay(o) /\ r.phase \in {"publish", "takeOver"}
        /\ opening' = [opening EXCEPT ![o] = n]
        /\ UNCHANGED <<held, session, reader, view, leaving>>
    BY <1>7 DEF OpenCannotTakeOver, TakesOver, AtPhase, UnderWay, Goes, writerVars, writer, screen
  <2>2. n \in Openings
    BY <1>0, <2>1 DEF Openings
  <2>3. /\ n.book = r.book /\ n.target = r.target /\ n.previous = r.previous /\ n.lease = r.lease
        /\ n.saved = r.saved /\ n.previousSaved = r.previousSaved /\ n.phase = "abort"
    BY <1>0, <2>1 DEF Openings
  <2>4. Shaped(n)
    BY <1>0, <2>1, <2>3 DEF Shaped
  <2>5. active' = active
    <3>1. b \in Books /\ l \in Leases /\ l # None /\ held[b] # l
      BY <1>0, <2>1, OpeningParts DEF Shaped, Candidate
    <3>2. CASE active[b] \in {None, l}
      <4>1. held[b] # None
        BY <1>7, <3>2 DEF OpenCannotTakeOver
      <4>2. active[b] = held[b]
        BY <3>1, <4>1 DEF Links, Live, Sound, Mapped
      <4> QED
        BY <3>1, <3>2, <4>1, <4>2
    <3>3. CASE active[b] \notin {None, l}
      BY <1>7, <3>3 DEF OpenCannotTakeOver
    <3> QED
      BY <3>2, <3>3
  <2> HIDE DEF n
  <2> QED
    BY <2>1, <2>2, <2>3, <2>4, <2>5, PhaseLinks
<1>8. CASE OpenReleasesTarget(o)
  <2> DEFINE n == [r EXCEPT !.phase = "closeTarget"]
  <2>1. /\ UnderWay(o) /\ r.phase = "publish" /\ r.saved # "none"
        /\ opening' = [opening EXCEPT ![o] = n] /\ CloseBegins(r.target)
        /\ UNCHANGED <<active, reader, view>> /\ leaving' = leaving
        /\ held[BookOf[r.target]] = r.target /\ Drop(r.target)
    BY <1>8 DEF OpenReleasesTarget, AtPhase, UnderWay, Goes, Retire, MayRetire, Handoff,
       MayHandOff, screen
  <2>2. PICK l \in Leases : l = r.target
    BY <1>0, <2>1, OpeningParts DEF Shaped
  <2>3. /\ n.book = r.book /\ n.target = r.target /\ n.previous = r.previous /\ n.lease = r.lease
        /\ n.saved = r.saved /\ n.previousSaved = r.previousSaved /\ n.phase = "closeTarget"
        /\ n # None
    <3>1. n \in Openings
      BY <1>0, <2>1 DEF Openings
    <3> QED
      BY <1>0, <2>1, <3>1, RecordsAssumption DEF Openings
  <2>4. Shaped(n)
    BY <1>0, <2>1, <2>3 DEF Shaped
  <2>5. opening'[o] = n /\ \A p \in Opens \ {o} : opening'[p] = opening[p]
    BY <2>1 DEF SessionTypeOK
  <2> HIDE DEF n
  <2>6. \A p \in Opens : UnderWay(p)' <=> UnderWay(p)
    BY <2>1, <2>3, <2>5 DEF UnderWay
  <2>7. BeingReleased(l)'
    BY <2>1, <2>2, <2>3, <2>5, <2>6 DEF BeingReleased
  <2>8. ASSUME NEW p \in Opens, UnderWay(p)
        PROVE  Continues(p) /\ Releases(p, l)
    BY <2>1, <2>2, <2>3, <2>4, <2>5, <2>8, OpeningParts DEF Continues, Releases
  <2>9. leaving' # None =>
           leaving # None /\ leaving'.lease = leaving.lease /\ LeavingShaped(leaving')
    BY <2>1 DEF Links
  <2> QED
    BY <2>1, <2>2, <2>6, <2>7, <2>8, <2>9, DropLinks
<1>9. CASE OpenReleasesPrevious(o)
  <2> DEFINE n == [r EXCEPT !.phase = "closePrevious"]
  <2>1. /\ UnderWay(o) /\ r.phase \in {"publish", "released"} /\ r.previousSaved
        /\ opening' = [opening EXCEPT ![o] = n] /\ CloseBegins(r.previous)
        /\ UNCHANGED <<active, reader, view>> /\ leaving' = leaving
        /\ held[BookOf[r.previous]] = r.previous /\ Drop(r.previous)
    BY <1>9 DEF OpenReleasesPrevious, AtPhase, UnderWay, Goes, Retire, MayRetire, screen
  <2>2. PICK l \in Leases : l = r.previous
    BY <1>0, <2>1, OpeningParts DEF Shaped
  <2>3. /\ n.book = r.book /\ n.target = r.target /\ n.previous = r.previous /\ n.lease = r.lease
        /\ n.saved = r.saved /\ n.previousSaved = r.previousSaved /\ n.phase = "closePrevious"
        /\ n # None
    <3>1. n \in Openings
      BY <1>0, <2>1 DEF Openings
    <3> QED
      BY <1>0, <2>1, <3>1, RecordsAssumption DEF Openings
  <2>4. Shaped(n)
    BY <1>0, <2>1, <2>3 DEF Shaped
  <2>5. opening'[o] = n /\ \A p \in Opens \ {o} : opening'[p] = opening[p]
    BY <2>1 DEF SessionTypeOK
  <2> HIDE DEF n
  <2>6. \A p \in Opens : UnderWay(p)' <=> UnderWay(p)
    BY <2>1, <2>3, <2>5 DEF UnderWay
  <2>7. BeingReleased(l)'
    BY <2>1, <2>2, <2>3, <2>5, <2>6 DEF BeingReleased
  <2>8. ASSUME NEW p \in Opens, UnderWay(p)
        PROVE  Continues(p) /\ Releases(p, l)
    BY <2>1, <2>2, <2>3, <2>4, <2>5, <2>8, OpeningParts DEF Continues, Releases
  <2>9. leaving' # None =>
           leaving # None /\ leaving'.lease = leaving.lease /\ LeavingShaped(leaving')
    BY <2>1 DEF Links
  <2> QED
    BY <2>1, <2>2, <2>6, <2>7, <2>8, <2>9, DropLinks
<1>10. CASE OpenClosed(o)
  <2> DEFINE l == Releasing(o)
  <2>1. PICK phase \in {"released", "takeOver", "abort"} :
          opening' = [opening EXCEPT ![o] = [r EXCEPT !.phase = phase]]
    BY <1>10 DEF OpenClosed, Goes
  <2>2. /\ UnderWay(o) /\ r.phase \in {"closeTarget", "closePrevious"} /\ Closed(l)
        /\ held' = held /\ UNCHANGED <<held, view>> /\ reader' \in {reader, None}
        /\ leaving' = leaving
    BY <1>10 DEF OpenClosed, AtPhase, UnderWay, writerVars, writer
  <2>3. phase = "released" => r.previousSaved
    <3>1. \A x, y : [r EXCEPT !.phase = x] = [r EXCEPT !.phase = y] => x = y
      BY <1>0, <2>2 DEF Openings
    <3>2. opening'[o] = [r EXCEPT !.phase = phase]
      BY <2>1 DEF SessionTypeOK
    <3>3. \/ opening'[o] = [r EXCEPT !.phase =
               IF r.phase = "closeTarget" /\ r.previousSaved THEN "released" ELSE "takeOver"]
          \/ opening'[o] = [r EXCEPT !.phase = "abort"]
      BY <1>10 DEF OpenClosed, Goes, SessionTypeOK
    <3> QED
      BY <3>1, <3>2, <3>3
  <2> DEFINE n == [r EXCEPT !.phase = phase]
  <2>4. /\ n.book = r.book /\ n.target = r.target /\ n.previous = r.previous /\ n.lease = r.lease
        /\ n.saved = r.saved /\ n.previousSaved = r.previousSaved /\ n.phase = phase
    BY <1>0, <2>2 DEF Openings
  <2>5. Shaped(n)
    BY <1>0, <2>2, <2>3, <2>4 DEF Shaped
  <2>6. opening'[o] = n /\ \A p \in Opens \ {o} : opening'[p] = opening[p]
    BY <2>1 DEF SessionTypeOK
  <2> HIDE DEF n
  <2>7. l \in Leases /\ held[BookOf[l]] # l /\ Referenced(l)
    BY <1>0, <2>2, OpeningParts DEF Releasing, Ending, Gone, Referenced, Shaped
  <2>8. ASSUME NEW p \in Opens, UnderWay(p)'
        PROVE  Continues(p) /\ opening[p].lease # l /\ StopsReleasing(p)
    <3>1. UnderWay(p)
      BY <2>2, <2>6, <2>8 DEF UnderWay
    <3>2. opening[p].lease # l /\ Shaped(opening[p])
      BY <2>7, <3>1, NoneAssumption DEF Links, Candidate
    <3> QED
      BY <2>4, <2>5, <2>6, <3>1, <3>2 DEF Continues, StopsReleasing
  <2>9. leaving' # None =>
          /\ leaving # None /\ leaving'.lease = leaving.lease /\ LeavingShaped(leaving')
          /\ leaving'.phase = leaving.phase \/ leaving'.phase # "close"
    BY <2>2 DEF Links
  <2>10. ASSUME NEW k \in Leases \ {l}, BeingReleased(k) PROVE BeingReleased(k)'
    <3>1. CASE leaving # None /\ leaving.phase = "close" /\ leaving.lease = k
      BY <2>2, <3>1 DEF BeingReleased
    <3>2. CASE \E p \in Opens :
                 /\ UnderWay(p)
                 /\ \/ opening[p].phase = "closeTarget" /\ opening[p].target = k
                    \/ opening[p].phase = "closePrevious" /\ opening[p].previous = k
      <4>1. PICK p \in Opens :
                 /\ UnderWay(p)
                 /\ \/ opening[p].phase = "closeTarget" /\ opening[p].target = k
                    \/ opening[p].phase = "closePrevious" /\ opening[p].previous = k
        BY <3>2
      <4>2. p # o
        BY <4>1 DEF Releasing
      <4> QED
        BY <2>6, <4>1, <4>2 DEF BeingReleased, UnderWay
    <3> QED
      BY <2>10, <3>1, <3>2 DEF BeingReleased
  <2> HIDE DEF l
  <2> QED
    BY <2>2, <2>7, <2>8, <2>9, <2>10, CloseLinks
<1>11. CASE OpenAborts(o)
  <2> DEFINE l == r.lease
  <2>1. /\ UnderWay(o) /\ r.phase \in {"publish", "abort"} /\ Closed(l)
        /\ UNCHANGED <<held, view>> /\ reader' \in {reader, None} /\ leaving' = leaving
        /\ opening' = [opening EXCEPT ![o] = None]
    BY <1>11 DEF OpenAborts, UnderWay, writerVars, writer, Ends
  <2>2. l \in Leases /\ held[BookOf[l]] # l
    BY <1>0, <2>1, OpeningParts DEF Shaped, Candidate
  <2>3. opening'[o] = None /\ \A p \in Opens \ {o} : opening'[p] = opening[p]
    BY <2>1 DEF SessionTypeOK
  <2>4. ASSUME NEW p \in Opens, UnderWay(p)'
        PROVE  Continues(p) /\ opening[p].lease # l /\ StopsReleasing(p)
    <3>1. p # o /\ UnderWay(p) /\ opening'[p] = opening[p]
      BY <2>3, <2>4 DEF UnderWay
    <3>2. opening[p].lease # l /\ Shaped(opening[p])
      BY <1>0, <2>1, <2>2, <3>1, NoneAssumption DEF Links, Candidate
    <3> QED
      BY <3>1, <3>2 DEF Continues, StopsReleasing
  <2>5. leaving' # None =>
          /\ leaving # None /\ leaving'.lease = leaving.lease /\ LeavingShaped(leaving')
          /\ leaving'.phase = leaving.phase \/ leaving'.phase # "close"
    BY <2>1 DEF Links
  <2>6. \A k \in Leases \ {l} : BeingReleased(k) => BeingReleased(k)'
    BY <2>1, <2>3 DEF BeingReleased, UnderWay
  <2> HIDE DEF l
  <2> QED
    BY <2>1, <2>2, <2>4, <2>5, <2>6, CloseLinks
<1> QED
  BY <1>1, <1>2, <1>3, <1>4, <1>5, <1>6, <1>7, <1>8, <1>9, <1>10, <1>11, PrepareLinks,
     TakeOverLinks DEF OpeningStep

\* What the leaving holds, while it flushes and while it closes.
LEMMA LeavingParts ==
  ASSUME SessionTypeOK, Links, leaving # None
  PROVE  /\ leaving \in Leavings /\ LeavingShaped(leaving)
         /\ leaving.phase \in {"flush", "close"} => leaving.lease \in Leases
BY Parts DEF Links, Leavings, LeavingShaped

LEMMA LeaveLinks ==
  ASSUME Sound, SessionTypeOK, SessionTypeOK', Links, LeavingStep
  PROVE  Links'
<1>1. ASSUME NEW unsaved \in BOOLEAN, LeaveBegin(unsaved) PROVE Links'
  <2>1. /\ leaving = None /\ view' = view
        /\ UNCHANGED <<held, session, active, reader, opening>>
    BY <1>1 DEF LeaveBegin, Flush, writerVars, writer, sessions
  <2>2. leaving' # None => /\ leaving'.phase # "close" /\ LeavingShaped(leaving')
                           /\ leaving'.lease \in {None, reader}
    BY <1>1 DEF LeaveBegin, LeaveRefused, LeavingShaped
  <2>3. PICK r \in Leavings \cup {None} : leaving' = r
    BY DEF SessionTypeOK
  <2> QED
    BY <2>1, <2>2, <2>3, LeavingLinks
<1>2. ASSUME NEW l \in Leases, LeaveSettled, l = leaving.lease, held[BookOf[l]] = l, Drop(l),
             CloseBegins(l), UNCHANGED <<active, reader, view>>, opening' = opening,
             \/ leaving' = [leaving EXCEPT !.phase = "close"]
             \/ leaving' = [leaving EXCEPT !.phase = "close", !.caught = TRUE]
      PROVE  Links'
  <2>1. leaving # None /\ leaving.phase = "flush" /\ leaving \in Leavings
    BY <1>2, LeavingParts DEF LeaveSettled
  <2>2. leaving'.phase = "close" /\ leaving'.lease = l /\ LeavingShaped(leaving')
    BY <1>2, <2>1, NoneAssumption DEF Leavings, LeavingShaped
  <2>3. leaving' # None
    <3>1. leaving' \in Leavings
      BY <1>2, <2>1 DEF Leavings
    <3> QED
      BY <3>1, RecordsAssumption
  <2>4. BeingReleased(l)'
    BY <2>2, <2>3 DEF BeingReleased
  <2>5. \A p \in Opens : /\ UnderWay(p)' <=> UnderWay(p)
                         /\ UnderWay(p) => Continues(p) /\ Releases(p, l)
    BY <1>2 DEF UnderWay, Continues, Releases, Links
  <2> QED
    BY <1>2, <2>1, <2>2, <2>4, <2>5, DropLinks
<1>3. CASE LeaveSaved
  <2>1. LeaveSettled /\ leaving # None /\ leaving.phase = "flush"
    BY <1>3 DEF LeaveSaved, LeaveSettled
  <2>2. PICK l \in Leases : l = leaving.lease
    BY <2>1, LeavingParts
  <2>3. /\ held[BookOf[l]] = l /\ Drop(l) /\ CloseBegins(l) /\ UNCHANGED <<active, reader, view>>
        /\ opening' = opening /\ leaving' = [leaving EXCEPT !.phase = "close"]
    BY <1>3, <2>2 DEF LeaveSaved, Retire, MayRetire, screen
  <2> QED
    BY <1>2, <2>1, <2>2, <2>3
<1>4. CASE LeaveUnsaved
  <2>1. LeaveSettled /\ leaving # None /\ leaving.phase = "flush" /\ leaving \in Leavings
    BY <1>4, LeavingParts DEF LeaveUnsaved, LeaveSettled
  <2>2. PICK l \in Leases : l = leaving.lease
    BY <2>1, LeavingParts
  <2> DEFINE shown == IF session[l] = None THEN None ELSE session[l].shown
  <2>3. CASE Collect("leave") /\ LeaveRefused /\ UNCHANGED session
    <3>1. /\ leaving' = None /\ view' = view
          /\ UNCHANGED <<held, session, active, reader, opening>>
      BY <1>4, <2>3 DEF LeaveUnsaved, LeaveRefused, Collect
    <3> QED
      BY <2>1, <3>1, LeavingLinks
  <2>4. CASE /\ Handoff(l, shown) /\ CloseBegins(l)
             /\ leaving' = [leaving EXCEPT !.phase = "close", !.caught = TRUE]
    <3>1. /\ held[BookOf[l]] = l /\ Drop(l) /\ UNCHANGED <<active, reader, view>>
          /\ opening' = opening
      BY <1>4, <2>4 DEF LeaveUnsaved, Handoff, MayHandOff
    <3> QED
      BY <1>2, <2>1, <2>2, <2>4, <3>1
  <2>5. CASE /\ leaving' = [leaving EXCEPT !.phase = "done"] /\ UNCHANGED <<writerVars, session>>
    <3> DEFINE r == [leaving EXCEPT !.phase = "done"]
    <3>1. r \in Leavings /\ r.phase = "done" /\ r.lease = leaving.lease /\ LeavingShaped(r)
      BY <2>1 DEF Leavings, LeavingShaped
    <3>2. /\ leaving' = r /\ view' = view
          /\ UNCHANGED <<held, session, active, reader, opening>>
      BY <1>4, <2>5 DEF LeaveUnsaved, writerVars, writer
    <3> HIDE DEF r
    <3> QED
      BY <2>1, <3>1, <3>2, LeavingLinks
  <2> QED
    BY <1>4, <2>2, <2>3, <2>4, <2>5 DEF LeaveUnsaved
<1>5. CASE LeaveClosed
  <2>1. leaving # None /\ leaving.phase = "close" /\ leaving \in Leavings
    BY <1>5, LeavingParts DEF LeaveClosed
  <2>2. PICK l \in Leases : l = leaving.lease
    BY <2>1, LeavingParts
  <2>3. /\ Closed(l) /\ reader' \in {reader, None} /\ opening' = opening
        /\ UNCHANGED <<held, view>>
    BY <1>5, <2>2 DEF LeaveClosed, Collect, writerVars, writer
  <2>4. held[BookOf[l]] # l /\ Referenced(l)
    BY <2>1, <2>2 DEF Links, Gone, Referenced
  <2>5. \A p \in Opens : UnderWay(p)' =>
          Continues(p) /\ opening[p].lease # l /\ StopsReleasing(p)
    BY <2>3, <2>4, NoneAssumption DEF UnderWay, Continues, StopsReleasing, Links, Candidate
  <2>6. leaving' # None =>
           /\ leaving # None /\ leaving'.lease = leaving.lease /\ LeavingShaped(leaving')
           /\ leaving'.phase = leaving.phase \/ leaving'.phase # "close"
    BY <1>5, <2>1 DEF LeaveClosed, LeaveRefused, LeavingShaped, Leavings
  <2>7. \A k \in Leases \ {l} : BeingReleased(k) => BeingReleased(k)'
    BY <2>2, <2>3 DEF BeingReleased, UnderWay
  <2> QED
    BY <2>3, <2>4, <2>5, <2>6, <2>7, CloseLinks
<1>6. CASE LeaveDone
  <2>1. /\ leaving' = None /\ view' = None /\ leaving.phase = "done"
        /\ UNCHANGED <<held, session, active, reader, opening>>
    BY <1>6 DEF LeaveDone, Collect, writerVars, writer, sessions
  <2> QED
    BY <2>1, LeavingLinks
<1>7. CASE LeaveAgain
  <2>1. SameLife /\ UNCHANGED <<held, active, reader, opening, leaving>> /\ view' \in {view, None}
    BY <1>7 DEF LeaveAgain, SameLife, sessions, writerVars, writer
  <2> QED
    BY <2>1, QuietLinks
<1> QED
  BY <1>1, <1>3, <1>4, <1>5, <1>6, <1>7 DEF LeavingStep

LEMMA EndLinks ==
  ASSUME SessionTypeOK', EndStep
  PROVE  Links'
<1>1. /\ leaving' = None /\ view' = None
      /\ \A o \in Opens : ~UnderWay(o)'
      /\ \A b \in Books : held'[b] = None /\ active'[b] = None
  BY DEF EndStep, CrashSession, CloseAnyway, WindowGone, Crash, CloseUnsaved, Vanish, UnderWay
<1> QED
  BY <1>1 DEF Links, Candidate, Ending

LEMMA LinksStep ==
  ASSUME Sound, SessionTypeOK, Links, [NextSession]_vars
  PROVE  Links'
<1>1. SessionTypeOK'
  BY TypesStep
<1>2. CASE NextSession
  BY <1>1, <1>2, StepKinds, ReadingLinks, OpeningLinks, LeaveLinks, EndLinks
<1>3. CASE UNCHANGED vars
  BY <1>3, QuietLinks DEF vars, SameLife, writerVars, writer, sessions, screen
<1> QED
  BY <1>2, <1>3

-----------------------------------------------------------------------------
\* The first theorems

LEMMA InitLinks ==
  ASSUME InitSession
  PROVE  Sound /\ SessionTypeOK /\ Links
<1>1. Sound /\ TypeOK
  BY InitSound DEF InitSession, Sound
<1>2. SessionTypeOK
  <2>1. 0 \in 0 .. MaxWrites /\ 0 \in 0 .. MaxRemote /\ 0 \in 0 .. MaxFaults
    BY BoundsAssumption
  <2>2. Shapes
    BY <2>1 DEF InitSession, Shapes
  <2> QED
    BY <1>1, <2>2 DEF SessionTypeOK, Shapes
<1>3. Links
  BY DEF InitSession, Init, Links, Candidate, Ending, UnderWay
<1> QED
  BY <1>1, <1>2, <1>3

\* What all sessions keep: the writer's lanes sound, the shapes, and the links
\* between the leases.
Linked == Sound /\ SessionTypeOK /\ Links

LEMMA LinkedStep == Linked /\ [NextSession]_vars => Linked'
BY SessionsWrite, TypesStep, LinksStep DEF Linked

LEMMA Linking == SessionSpec => []Linked
<1>1. InitSession => Linked
  BY InitLinks DEF Linked
<1> QED
  BY <1>1, LinkedStep, PTL DEF SessionSpec

\* Every variable of the sessions, openings and leavings keeps its shape.
THEOREM SessionTypes == SessionSpec => []SessionTypeOK
<1>1. Linked => SessionTypeOK
  BY DEF Linked
<1> QED
  BY <1>1, Linking, PTL

\* The sessions, openings and leavings of the application use the writer as
\* ProgressWriter says: no step of theirs does to lanes, flushes and recovery
\* records what no operation of the writer does.
THEOREM SessionsUseWriter == SessionSpec => Spec
<1>1. InitSession => Init
  BY DEF InitSession
<1>2. Linked /\ [NextSession]_vars => [Next]_writerVars
  BY SessionsWrite DEF Linked
<1> QED
  BY <1>1, <1>2, Linking, PTL DEF SessionSpec, Spec

\* So no position is lost in between either, whoever opens and leaves meanwhile:
\* the last one recorded is the store's last, or is in the recovery record.
THEOREM SessionsLoseNothing == SessionSpec => []NothingLost
BY SessionsUseWriter, NothingIsLost, PTL

\* And no older position of a book arrives in the store after a newer one.
THEOREM SessionsRefineChannel == SessionSpec => RefinesLatestChannel
BY SessionsUseWriter, WriterRefinesChannel, PTL

-----------------------------------------------------------------------------
\* What a session replaces

\* The ways in which sessions change.
SessionStep ==
  \/ session' = session
  \/ \E l \in Leases :
       \/ session[l] # None /\ session' = [session EXCEPT ![l] = Rebound(l)]
       \/ session[l] # None /\ session' = [session EXCEPT ![l] = Continued(l)]
       \/ \E shown \in VersionStamps \cup {None} :
            session' = [session EXCEPT ![l] = Adopted(BookOf[l], shown)]
       \/ CloseBegins(l)
       \/ session' = [session EXCEPT ![l] = None]
  \/ session' = [l \in Leases |-> None]

LEMMA SessionSteps ==
  ASSUME Linked, NextSession
  PROVE  SessionStep
<1> USE DEF Linked
<1>1. CASE ReadingStep
  <2>1. CASE \/ PageTurn \/ Timer \/ Restart \/ Hidden \/ HiddenFlushed
             \/ \E b \in Books : Merge(b)
             \/ \E l \in Leases : Commit(l) \/ RequestFails(l) \/ Refused(l)
    BY <2>1 DEF PageTurn, Timer, Restart, Hidden, HiddenFlushed, Merge, Commit, RequestFails,
       Refused, sessions, SessionStep
  <2>2. CASE Shown
    BY <2>2, Parts DEF Shown, Live, SessionStep
  <2>3. ASSUME NEW l \in Leases, StaleBasis(l) PROVE SessionStep
    BY <2>3 DEF StaleBasis, Live, SessionStep
  <2>4. ASSUME NEW l \in Leases, Answered(l) \/ ProjectionFails(l) PROVE SessionStep
    <3>1. session[l] # None
      BY <2>4, LaneLives DEF Answered, Confirm, ProjectionFails
    <3>2. session' = [session EXCEPT ![l] = Continued(l)]
      BY <2>4 DEF Answered, ProjectionFails
    <3> QED
      BY <3>1, <3>2 DEF SessionStep
  <2> QED
    BY <1>1, <2>1, <2>2, <2>3, <2>4 DEF ReadingStep, WriteEnds
<1>2. ASSUME NEW o \in Opens, OpeningStep(o) PROVE SessionStep
  <2>1. CASE \/ \E b \in Books : OpenBegin(o, b)
             \/ OpenFlushed(o) \/ OpenFlushedPrevious(o) \/ OpenDecide(o) \/ OpenCannotRelease(o)
             \/ OpenTakesOver(o) \/ OpenCannotTakeOver(o) \/ OpenGivesUp(o)
    BY <2>1 DEF OpenBegin, OpenFlushed, OpenFlushedPrevious, OpenDecide, OpenCannotRelease,
       OpenTakesOver, OpenCannotTakeOver, OpenGivesUp, sessions, SessionStep
  <2>2. CASE OpenPrepare(o)
    <3> DEFINE b == opening[o].book
               shown == Shows(opening[o].decision)
    <3>1. PICK l \in Leases : BookOf[l] = b /\ session' = [session EXCEPT ![l] = Adopted(b, shown)]
      BY <2>2 DEF OpenPrepare
    <3>2. b \in Books /\ opening[o].decision \in Choices
      BY <2>2, OpeningParts DEF OpenPrepare, AtPhase, UnderWay
    <3>3. shown \in VersionStamps \cup {None}
      BY <3>2, StampOfVersion DEF Shows, Choices
    <3> QED
      BY <3>1, <3>2, <3>3 DEF SessionStep
  <2>3. CASE OpenReleasesTarget(o) \/ OpenReleasesPrevious(o)
    <3>1. UnderWay(o)
      BY <2>3 DEF OpenReleasesTarget, OpenReleasesPrevious, AtPhase, UnderWay
    <3>2. \E l \in Leases : CloseBegins(l)
      BY <2>3, <3>1, OpeningParts DEF OpenReleasesTarget, OpenReleasesPrevious, AtPhase, Shaped
    <3> QED
      BY <3>2 DEF SessionStep
  <2>4. CASE OpenClosed(o) \/ OpenAborts(o)
    <3>1. UnderWay(o)
      BY <2>4 DEF OpenClosed, OpenAborts, AtPhase, UnderWay
    <3>2. \E l \in Leases : Closed(l)
      BY <2>4, <3>1, OpeningParts DEF OpenClosed, OpenAborts, Releasing, AtPhase, Shaped
    <3> QED
      BY <3>2 DEF SessionStep, Closed
  <2> QED
    BY <1>2, <2>1, <2>2, <2>3, <2>4 DEF OpeningStep
<1>3. CASE LeavingStep
  <2>1. CASE LeaveSaved \/ LeaveUnsaved
    <3>1. leaving.lease \in Leases
      BY <2>1, LeavingParts DEF LeaveSaved, LeaveUnsaved, LeaveSettled
    <3> QED
      BY <2>1, <3>1 DEF LeaveSaved, LeaveUnsaved, SessionStep
  <2>2. CASE LeaveClosed
    <3>1. leaving.lease \in Leases
      BY <2>2, LeavingParts DEF LeaveClosed
    <3> QED
      BY <2>2, <3>1 DEF LeaveClosed, Closed, SessionStep
  <2>3. CASE LeaveAgain \/ LeaveDone \/ \E unsaved \in BOOLEAN : LeaveBegin(unsaved)
    BY <2>3 DEF LeaveAgain, LeaveDone, LeaveBegin, sessions, SessionStep
  <2> QED
    BY <1>3, <2>1, <2>2, <2>3 DEF LeavingStep
<1>4. CASE EndStep
  BY <1>4 DEF EndStep, CrashSession, CloseAnyway, WindowGone, SessionStep
<1> QED
  BY <1>1, <1>2, <1>3, <1>4, StepKinds

\* Adopted, bound again or continued, a session is faithful.
LEMMA AdoptedFaithful ==
  ASSUME NEW b \in Books, NEW shown
  PROVE  Faithful(Adopted(b, shown))
BY DEF Adopted, Observed, Faithful

LEMMA ReboundFaithful ==
  ASSUME SessionTypeOK, NEW l \in Leases, session[l] # None, Faithful(session[l])
  PROVE  Faithful(Rebound(l))
<1> DEFINE s == session[l]
           N == Again(l, s.shown)
<1>1. s \in Sessions /\ BookOf[l] \in Books
  BY Parts
<1>2. N.shown = s.shown /\ N.opened = s.opened /\ N.observed = Observed(BookOf[l], s.shown)
  BY DEF Again, Adopted
<1>3. ASSUME NEW v \in N.observed, v.by = "other" PROVE StampOf(v) = s.opened
  <2>1. StampOf(v) = s.shown
    BY <1>2, <1>3 DEF Observed
  <2>2. StampOf(v).by = "other"
    BY <1>3 DEF StampOf
  <2> QED
    BY <2>1, <2>2 DEF Faithful
<1>4. Faithful(N)
  BY <1>2, <1>3 DEF Faithful
<1>5. Faithful([s EXCEPT !.invalid = TRUE])
  <2>1. /\ [s EXCEPT !.invalid = TRUE].shown = s.shown
        /\ [s EXCEPT !.invalid = TRUE].opened = s.opened
        /\ [s EXCEPT !.invalid = TRUE].observed = s.observed
    BY <1>1 DEF Sessions
  <2> QED
    BY <2>1 DEF Faithful
<1> QED
  BY <1>4, <1>5 DEF Rebound

LEMMA ContinuedFaithful ==
  ASSUME SessionTypeOK, NEW l \in Leases, session[l] # None, Faithful(session[l])
  PROVE  Faithful(Continued(l))
<1> DEFINE s == session[l]
           b == BookOf[l]
           own == {v \in versions[b] : v.by = "own" /\ v.n = revision[b]}
           N == [s EXCEPT !.observed = own, !.revision = revision[b],
                          !.shown = [by |-> "own", n |-> revision[b]]]
<1>1. s \in Sessions
  BY Parts
<1>2. N.shown = [by |-> "own", n |-> revision[b]] /\ N.observed = own
  BY <1>1 DEF Sessions
<1>3. Faithful(N)
  BY <1>2 DEF Faithful
<1> QED
  BY <1>3 DEF Continued

LEMMA ShownStep ==
  ASSUME Linked, ShownIsOpened, [NextSession]_vars
  PROVE  ShownIsOpened'
<1> USE DEF Linked
<1>0. session \in [Leases -> Sessions \cup {None}]
  BY DEF SessionTypeOK
<1>1. SUFFICES ASSUME NEW k \in Leases, session'[k] # None PROVE Faithful(session'[k])
  BY DEF ShownIsOpened, Faithful, StampOf
<1>2. session[k] # None => session[k] \in Sessions /\ Faithful(session[k])
  BY Parts DEF ShownIsOpened
<1>3. CASE session' = session
  BY <1>1, <1>2, <1>3
<1>4. ASSUME NEW l \in Leases, session[l] # None,
             \/ session' = [session EXCEPT ![l] = Rebound(l)]
             \/ session' = [session EXCEPT ![l] = Continued(l)]
      PROVE  Faithful(session'[k])
  BY <1>0, <1>1, <1>2, <1>4, ReboundFaithful, ContinuedFaithful
<1>5. ASSUME NEW l \in Leases, NEW shown,
             session' = [session EXCEPT ![l] = Adopted(BookOf[l], shown)]
      PROVE  Faithful(session'[k])
  BY <1>0, <1>1, <1>2, <1>5, AdoptedFaithful, Parts
<1>6. ASSUME NEW l \in Leases, CloseBegins(l) PROVE Faithful(session'[k])
  <2>1. CASE k # l \/ session[l] = None
    BY <1>0, <1>1, <1>2, <1>6, <2>1 DEF CloseBegins
  <2>2. CASE k = l /\ session[l] # None
    <3>1. session'[k] = [session[k] EXCEPT !.closing = TRUE]
      BY <1>0, <1>6, <2>2 DEF CloseBegins
    <3>2. /\ session'[k].shown = session[k].shown /\ session'[k].opened = session[k].opened
          /\ session'[k].observed = session[k].observed
      BY <1>2, <2>2, <3>1 DEF Sessions
    <3> QED
      BY <1>2, <2>2, <3>2 DEF Faithful
  <2> QED
    BY <2>1, <2>2
<1>7. ASSUME NEW l \in Leases, session' = [session EXCEPT ![l] = None]
      PROVE  Faithful(session'[k])
  BY <1>0, <1>1, <1>2, <1>7
<1>8. CASE session' = [l \in Leases |-> None]
  BY <1>1, <1>8
<1>9. session' = session \/ SessionStep
  BY SessionSteps DEF vars, sessions
<1> QED
  BY <1>3, <1>4, <1>5, <1>6, <1>7, <1>8, <1>9 DEF SessionStep

LEMMA Showing == SessionSpec => []ShownIsOpened
<1>1. InitSession => ShownIsOpened
  BY DEF InitSession, ShownIsOpened
<1>2. Linked /\ ShownIsOpened /\ [NextSession]_vars => ShownIsOpened'
  BY ShownStep
<1> QED
  BY <1>1, <1>2, Linking, PTL DEF SessionSpec

\* However often its basis was lost, overtaken or bound again, a session's writes
\* replace no version of another device but the one the book was opened at.
THEOREM OnlyShownReplaced == SessionSpec => []ReplacesOnlyShown
<1>1. ShownIsOpened => ReplacesOnlyShown
  BY DEF ShownIsOpened, Faithful, ReplacesOnlyShown
<1> QED
  BY <1>1, Showing, PTL

-----------------------------------------------------------------------------
\* Flights carry the last position, or one that flew before

\* A write under way has taken the last sample that waited, or it is the old one.
Flies(L, N) ==
  N.flight # None =>
    N.pending = None \/ (L.flight # None /\ N.flight.sample = L.flight.sample)

LEMMA OperatorsFly ==
  ASSUME NEW L \in Lanes
  PROVE  /\ Flies(L, L) /\ Flies(L, [L EXCEPT !.timer = FALSE])
         /\ Flies(L, Start(L)) /\ Flies(L, Start([L EXCEPT !.timer = FALSE]))
         /\ L.flight = None => Flies(L, Revived(L))
         /\ \A s \in Samples : Flies(L, Queued(L, s))
<1>1. ASSUME NEW M \in Lanes, M.flight = L.flight PROVE Flies(L, Start(M)) /\ Flies(L, M)
  BY <1>1 DEF Flies, Start, Lanes
<1>2. /\ [L EXCEPT !.timer = FALSE] \in Lanes
      /\ [L EXCEPT !.timer = FALSE].flight = L.flight
  BY DEF Lanes
<1>3. L.flight = None => Flies(L, Revived(L))
  <2> DEFINE M == [L EXCEPT !.timer = FALSE,
                            !.pending = IF L.pending = None THEN L.failed ELSE L.pending,
                            !.failed = IF L.pending = None THEN None ELSE L.failed]
  <2>1. M \in Lanes /\ M.flight = L.flight /\ Revived(L) = Start(M)
    BY DEF Lanes, Revived
  <2> HIDE DEF M
  <2> QED
    BY <1>1, <2>1
<1>4. ASSUME NEW s \in Samples PROVE Flies(L, Queued(L, s))
  <2> DEFINE M == [L EXCEPT !.pending = s, !.sequence = s.at, !.failed = None]
  <2>1. M \in Lanes /\ M.flight = L.flight
    BY DEF Lanes, Samples
  <2>2. /\ [M EXCEPT !.timer = TRUE] \in Lanes
        /\ [M EXCEPT !.timer = TRUE].flight = L.flight
    BY <2>1 DEF Lanes
  <2>3. Queued(L, s) \in {M, [M EXCEPT !.timer = TRUE], Start(M)}
    BY DEF Queued, Schedule
  <2> HIDE DEF M
  <2> QED
    BY <1>1, <2>1, <2>2, <2>3
<1> QED
  BY <1>1, <1>2, <1>3, <1>4

\* At the end of a write no new one leaves a sample behind.
LEMMA EndFlies ==
  ASSUME Sound, NEW l \in Leases, NEW E \in Lanes, EndFlight(l, E), E.flight = None,
         E.failed # None => E.pending = None
  PROVE  Flies(E, lane'[l])
<1> DEFINE L == Schedule(E)
<1>1. L \in Lanes
  BY DEF Schedule, Start, Lanes, Flights
<1>2. L.flight # None => L.pending = None /\ L.failed = None
  BY DEF Schedule, Start, Lanes
<1> HIDE DEF L
<1>3. Revived(L).flight # None => Revived(L).pending = None
  <2> DEFINE M == [L EXCEPT !.timer = FALSE,
                            !.pending = IF L.pending = None THEN L.failed ELSE L.pending,
                            !.failed = IF L.pending = None THEN None ELSE L.failed]
  <2>1. /\ M \in Lanes /\ M.flight = L.flight /\ Revived(L) = Start(M)
        /\ L.flight # None => M.pending = None
    BY <1>1, <1>2 DEF Lanes, Revived
  <2> HIDE DEF M
  <2> QED
    BY <2>1 DEF Start, Lanes
<1>4. [L EXCEPT !.timer = FALSE].flight = L.flight /\ [L EXCEPT !.timer = FALSE].pending = L.pending
  BY <1>1 DEF Lanes
<1>5. \/ lane' = [lane EXCEPT ![l] = L]
      \/ lane' = [lane EXCEPT ![l] = [L EXCEPT !.timer = FALSE]]
      \/ lane' = [lane EXCEPT ![l] = Revived(L)]
  BY DEF EndFlight, L
<1> QED
  BY <1>2, <1>3, <1>4, <1>5 DEF Flies, Sound, TypeOK

\* Per step: the lane of l flies on, or is a new one.
LaneFlies(l) ==
  lane'[l] # None /\ lane'[l].flight # None =>
    \/ lane'[l].pending = None
    \/ lane[l] # None /\ lane[l].flight # None /\ lane'[l].flight.sample = lane[l].flight.sample

LEMMA StepFlies ==
  ASSUME Sound, [Next]_writerVars, NEW k \in Leases
  PROVE  LaneFlies(k)
<1>0. /\ lane \in [Leases -> Lanes \cup {None}]
      /\ \A l \in Leases : lane[l] # None => lane[l] \in Lanes
  BY DEF Sound, TypeOK
<1>1. ASSUME NEW l \in Leases, NEW N, lane' = [lane EXCEPT ![l] = N],
             lane[l] # None, Flies(lane[l], N)
      PROVE  LaneFlies(k)
  <2>1. lane'[k] = IF k = l THEN N ELSE lane[k]
    BY <1>0, <1>1
  <2> QED
    BY <1>1, <2>1 DEF LaneFlies, Flies
<1>2. CASE lane' = lane
  BY <1>2 DEF LaneFlies
<1>3. ASSUME NEW l \in Leases, TimerFires(l) PROVE LaneFlies(k)
  <2>1. lane' = [lane EXCEPT ![l] = Start([lane[l] EXCEPT !.timer = FALSE])] /\ lane[l] # None
    BY <1>3 DEF TimerFires
  <2> QED
    BY <1>0, <1>1, <2>1, OperatorsFly
<1>4. ASSUME NEW l \in Leases, Deliver(l) PROVE LaneFlies(k)
  <2>1. lane' = [lane EXCEPT ![l].flight.stage = "stored"] /\ lane[l] # None /\ lane[l].flight # None
    BY <1>4 DEF Deliver
  <2>2. lane[l] \in Lanes /\ lane[l].flight \in Flights
    BY <1>0, <2>1 DEF Lanes
  <2>3. lane'[k] = IF k = l THEN [lane[l] EXCEPT !.flight.stage = "stored"] ELSE lane[k]
    BY <1>0, <2>1
  <2>4. [lane[l] EXCEPT !.flight.stage = "stored"].flight.sample = lane[l].flight.sample
    BY <2>2 DEF Lanes, Flights
  <2> QED
    BY <2>1, <2>3, <2>4 DEF LaneFlies
<1>5. ASSUME NEW l \in Leases, Confirm(l) \/ Reject(l) PROVE LaneFlies(k)
  <2> DEFINE b == BookOf[l]
             L == lane[l]
  <2>1. L # None /\ L.flight # None /\ L \in Lanes /\ b \in Books
    BY <1>0, <1>5, BookOfAssumption DEF Confirm, Reject
  <2>2. /\ LaneSound(L, turn[b], position[b], stored[b], checkpoint[b], made)
        /\ turn[b] \in Nat /\ made \in Nat /\ stored[b] \in Deliveries /\ checkpoint[b] \in Records
        /\ stored[b].at <= turn[b]
    BY <2>1 DEF Sound, LaneOfBook, BookSound, TypeOK, Deliveries, Records
  <2>3. ASSUME NEW E \in Lanes, EndFlight(l, E), E.flight = None,
               LaneSound(E, turn[b], position[b], stored[b], checkpoint[b], made)
        PROVE  LaneFlies(k)
    <3>1. E.failed # None => E.pending = None
      BY <2>3 DEF LaneSound
    <3>2. Flies(E, lane'[l])
      BY <2>3, <3>1, EndFlies
    <3>3. \A j \in Leases \ {l} : lane'[j] = lane[j]
      BY <1>0, <2>3 DEF EndFlight
    <3> QED
      BY <2>3, <3>2, <3>3 DEF LaneFlies, Flies
  <2>4. CASE Confirm(l)
    BY <2>1, <2>2, <2>3, <2>4, AfterSuccessKeeps DEF Confirm
  <2>5. CASE Reject(l)
    BY <2>1, <2>2, <2>3, <2>5, AfterFailureKeeps DEF Reject
  <2> QED
    BY <1>5, <2>4, <2>5
<1>6. ASSUME NEW c \in Callers, NEW l \in Leases, Flush(c, l) PROVE LaneFlies(k)
  <2>1. lane[l] # None
    BY <1>6 DEF Flush, Sound, Mapped
  <2> DEFINE M == [lane[l] EXCEPT !.timer = FALSE]
  <2>2. lane[l] \in Lanes /\ M \in Lanes /\ M.flight = lane[l].flight
    BY <1>0, <2>1 DEF Lanes
  <2>3. \/ lane' = [lane EXCEPT ![l] = M]
        \/ lane' = [lane EXCEPT ![l] = Revived(M)] /\ M.flight = None
    BY <1>6 DEF Flush
  <2>4. Flies(lane[l], M)
    BY <2>2, OperatorsFly
  <2> HIDE DEF M
  <2>5. M.flight = None => Flies(lane[l], Revived(M))
    BY <2>2, OperatorsFly DEF Flies
  <2> QED
    BY <1>1, <2>1, <2>3, <2>4, <2>5
<1>7. ASSUME NEW l \in Leases, Drop(l) PROVE LaneFlies(k)
  BY <1>0, <1>7 DEF Drop, LaneFlies
<1>8. ASSUME NEW l \in Leases, NEW N \in Lanes, Register(l, N), Flies(NewLane, N)
      PROVE  LaneFlies(k)
  <2>1. NewLane.flight = None
    BY DEF NewLane
  <2> QED
    BY <1>0, <1>8, <2>1 DEF Register, LaneFlies, Flies
<1>9. NewLane \in Lanes /\ Flies(NewLane, NewLane)
  BY NewLaneSound, OperatorsFly
<1>10. ASSUME NEW l \in Leases, NEW shown \in Stamps, NEW val \in Positions,
              Accept(l, shown, val) \/ OpenRestoring(l, shown, val)
       PROVE  LaneFlies(k)
  <2> DEFINE b == BookOf[l]
             s == [at |-> turn'[b], id |-> Staged(b, shown, val).id, val |-> val]
  <2>1. b \in Books
    BY BookOfAssumption
  <2>2. s \in Samples
    <3>1. turn'[b] \in Nat
      BY <1>10, <2>1 DEF Accept, OpenRestoring, Recorded, history, Sound, TypeOK
    <3>2. Staged(b, shown, val).id \in Nat
      BY <2>1 DEF Staged, Sound, TypeOK, Checkpoints
    <3> QED
      BY <3>1, <3>2 DEF Samples
  <2>3. CASE Accept(l, shown, val)
    <3>1. lane' = [lane EXCEPT ![l] = Queued(lane[l], s)] /\ lane[l] # None
      BY <2>3 DEF Accept, Sound, Mapped
    <3> HIDE DEF s
    <3> QED
      BY <1>0, <1>1, <2>2, <3>1, OperatorsFly
  <2>4. CASE OpenRestoring(l, shown, val)
    <3>1. Register(l, Queued(NewLane, s))
      BY <2>4 DEF OpenRestoring
    <3> HIDE DEF s
    <3>2. Queued(NewLane, s) \in Lanes
      BY <1>9, <2>2 DEF Queued, Schedule, Start, Lanes, Flights, Samples
    <3> QED
      BY <1>8, <1>9, <2>2, <3>1, <3>2, OperatorsFly
  <2> QED
    BY <1>10, <2>3, <2>4
<1>11. CASE Vanish
  BY <1>11 DEF Vanish, LaneFlies
<1>12. CASE \/ \E c \in Callers : Collect(c)
            \/ \E b \in Books, shown \in Stamps, val \in Positions : StageOnly(b, shown, val)
            \/ UNCHANGED writerVars
  BY <1>2, <1>12 DEF Collect, StageOnly, writer, writerVars
<1>13. ASSUME NEW l \in Leases,
              \/ Retire(l) \/ Open(l)
              \/ \E id \in 1 .. made : OpenSaved(l, id)
              \/ \E shown \in Stamps : Handoff(l, shown)
       PROVE  LaneFlies(k)
  BY <1>7, <1>8, <1>9, <1>13 DEF Retire, Open, OpenSaved, Handoff
<1> QED
  BY <1>3, <1>4, <1>5, <1>6, <1>10, <1>11, <1>12, <1>13 DEF Next, Crash, CloseUnsaved

\* What is recorded of a book, and what the store has taken of it, in a step.
LEMMA HistorySteps ==
  ASSUME Sound, [Next]_writerVars, NEW b \in Books
  PROVE  /\ \/ turn'[b] = turn[b] + 1
            \/ turn'[b] = turn[b] /\ position'[b] = position[b]
         /\ \/ stored'[b] = stored[b]
            \/ stored'[b].val = position[b]
            \/ \E l \in Leases : /\ BookOf[l] = b /\ lane[l] # None /\ lane[l].flight # None
                                 /\ stored'[b].val = lane[l].flight.sample.val
<1>0. /\ turn \in [Books -> Nat] /\ position \in [Books -> Positions \cup {None}]
      /\ stored \in [Books -> [at : Nat, val : Positions \cup {None}]]
      /\ \A l \in Leases : BookOf[l] \in Books
  BY BookOfAssumption DEF Sound, TypeOK
<1>1. CASE UNCHANGED history
  BY <1>1 DEF history
<1>2. ASSUME NEW a \in Books, NEW val, Recorded(a, val)
      PROVE  /\ stored' = stored
             /\ \/ turn'[b] = turn[b] + 1
                \/ turn'[b] = turn[b] /\ position'[b] = position[b]
  BY <1>0, <1>2 DEF Recorded
<1>3. CASE \E l \in Leases : Deliver(l)
  BY <1>0, <1>3 DEF Deliver
<1>4. CASE \E l \in Leases, id \in 1 .. made : OpenSaved(l, id)
  BY <1>0, <1>4 DEF OpenSaved, Sound, BookSound
<1>5. CASE \E l \in Leases, shown \in Stamps, val \in Positions :
             Accept(l, shown, val) \/ OpenRestoring(l, shown, val)
  BY <1>0, <1>1, <1>2, <1>5 DEF Accept, OpenRestoring
<1>6. CASE \E a \in Books, shown \in Stamps, val \in Positions : StageOnly(a, shown, val)
  BY <1>0, <1>2, <1>6 DEF StageOnly
<1>7. CASE \/ Crash \/ UNCHANGED writerVars
           \/ \E c \in Callers : Collect(c) \/ \E l \in Leases : Flush(c, l)
           \/ \E l \in Leases : TimerFires(l) \/ Confirm(l) \/ Reject(l) \/ Retire(l) \/ Open(l)
           \/ \E l \in Leases, shown \in Stamps : Handoff(l, shown) \/ CloseUnsaved(l, shown)
  BY <1>1, <1>7 DEF Crash, Collect, Flush, TimerFires, Confirm, Reject, Retire, Open, Handoff,
     CloseUnsaved, writerVars
<1> QED
  BY <1>3, <1>4, <1>5, <1>6, <1>7 DEF Next

\* While no position is recorded, what was said of the last one stays.
LEMMA LatestKept ==
  ASSUME Sound, [Next]_writerVars, NEW b \in Books, turn'[b] = turn[b],
         stored[b].val = position[b], LatestOnly(b)
  PROVE  stored'[b].val = position'[b] /\ LatestOnly(b)'
<1>1. position'[b] = position[b]
  BY HistorySteps DEF Sound, TypeOK
<1>2. stored'[b].val = position'[b]
  BY <1>1, HistorySteps DEF LatestOnly
<1>3. Sound'
  BY NextSound
<1>4. ASSUME NEW l \in Leases, BookOf[l] = b, lane'[l] # None, lane'[l].flight # None
      PROVE  lane'[l].flight.sample.val = position'[b]
  <2>1. CASE lane'[l].pending = None
    BY <1>3, <1>4, <2>1 DEF Sound, LaneOfBook, LaneSound, FlightSound, Last
  <2>2. CASE /\ lane[l] # None /\ lane[l].flight # None
             /\ lane'[l].flight.sample = lane[l].flight.sample
    BY <1>1, <1>4, <2>2 DEF LatestOnly
  <2> QED
    BY <1>4, <2>1, <2>2, StepFlies DEF LaneFlies
<1> QED
  BY <1>2, <1>4 DEF LatestOnly

-----------------------------------------------------------------------------
\* Where a book opens

FoundBy(b, d) ==
  \/ d.restore = position[b]
  \/ d.sel # None /\ d.sel.val = position[b]
  \/ stored[b].val = position[b] /\ LatestOnly(b)

\* A decision that asks no question leads to the last position.
LEMMA DecisionFinds ==
  ASSUME Sound, SessionTypeOK, NEW b \in Books, NEW d \in Decisions(b), ~d.explicit
  PROVE  FoundBy(b, d)
<1> DEFINE V == versions[b]
           c == checkpoint[b]
<1>1. V \subseteq Versions
  BY DEF SessionTypeOK
<1>2. /\ NoDecision \in Choices /\ NoDecision.explicit = FALSE
  BY DEF NoDecision, Choices
<1>3. CASE c = None
  <2>1. stored[b].val = position[b]
    BY <1>3 DEF Sound, BookSound
  <2>2. LatestOnly(b)
    BY <1>3 DEF Sound, LaneOfBook, LaneSound, FlightSound, LatestOnly
  <2> QED
    BY <2>1, <2>2 DEF FoundBy
<1>4. CASE c # None
  <2>0. c.val = position[b]
    BY <1>4 DEF Sound, BookSound
  <2> DEFINE one == \E v \in V : V = {v}
  <2>1. CASE one /\ \E v \in V : v.val = c.val
    <3>1. PICK v \in V : d = [NoDecision EXCEPT !.sel = v, !.ack = c.id]
      BY <1>4, <2>1 DEF Decisions
    <3>2. v.val = c.val /\ v # None
      BY <1>1, <2>1, RecordsAssumption
    <3>3. d.sel = v
      BY <1>2, <3>1 DEF Choices
    <3> QED
      BY <2>0, <3>2, <3>3 DEF FoundBy
  <2>2. CASE ~(one /\ \E v \in V : v.val = c.val)
    <3>1. \/ d = [NoDecision EXCEPT !.restore = c.val, !.explicit = FALSE]
          \/ \E v \in V : d = [NoDecision EXCEPT !.sel = v, !.restore = c.val, !.explicit = FALSE]
          \/ d = [NoDecision EXCEPT !.restore = c.val, !.explicit = TRUE]
          \/ d = [NoDecision EXCEPT !.explicit = TRUE]
          \/ \E v \in V :
               \/ d = [NoDecision EXCEPT !.sel = v, !.restore = c.val, !.explicit = TRUE]
               \/ d = [NoDecision EXCEPT !.sel = v, !.explicit = TRUE]
      BY <1>4, <2>2 DEF Decisions
    <3>2. ~([NoDecision EXCEPT !.restore = c.val, !.explicit = TRUE].explicit = FALSE)
          /\ ~([NoDecision EXCEPT !.explicit = TRUE].explicit = FALSE)
          /\ \A v \in V :
               /\ ~([NoDecision EXCEPT !.sel = v, !.restore = c.val, !.explicit = TRUE].explicit
                      = FALSE)
               /\ ~([NoDecision EXCEPT !.sel = v, !.explicit = TRUE].explicit = FALSE)
      BY <1>2 DEF Choices
    <3>3. d.explicit = FALSE
      BY DecisionsType DEF Choices
    <3>4. \/ d = [NoDecision EXCEPT !.restore = c.val, !.explicit = FALSE]
          \/ \E v \in V : d = [NoDecision EXCEPT !.sel = v, !.restore = c.val, !.explicit = FALSE]
      BY <3>1, <3>2, <3>3
    <3>5. d.restore = c.val
      BY <1>2, <3>4 DEF Choices
    <3> QED
      BY <2>0, <3>5 DEF FoundBy
  <2> QED
    BY <2>1, <2>2
<1> QED
  BY <1>3, <1>4

\* An opening decides once where to open.
SameChoice(o) ==
  /\ UnderWay(o)
  /\ opening'[o].book = opening[o].book /\ opening'[o].turn = opening[o].turn
  /\ opening'[o].decision = opening[o].decision

NoChoice(o) == opening'[o].turn = 0 /\ opening'[o].decision = NoDecision

\* A step of an opening leaves the others.
LEMMA OthersStay ==
  ASSUME SessionTypeOK, NEW o \in Opens, NEW p \in Opens, OpeningStep(p), p # o
  PROVE  opening'[o] = opening[o]
BY DEF OpeningStep, OpenBegin, OpenFlushed, OpenFlushedPrevious, OpenDecide, OpenPrepare,
   OpenReleasesTarget, OpenReleasesPrevious, OpenCannotRelease, OpenClosed, OpenTakesOver,
   OpenCannotTakeOver, OpenGivesUp, OpenAborts, Goes, Ends, SessionTypeOK

LEMMA ChoiceSteps ==
  ASSUME Linked, NextSession, NEW o \in Opens, UnderWay(o)'
  PROVE  SameChoice(o) \/ OpenDecide(o) \/ (NoChoice(o) /\ ~UnderWay(o))
<1> USE DEF Linked
<1>1. CASE opening'[o] = opening[o]
  BY <1>1 DEF SameChoice, UnderWay
<1>2. CASE ReadingStep \/ LeavingStep
  <2>1. opening' = opening
    BY <1>2, ReadingLinks DEF LeavingStep, LeaveBegin, LeaveAgain, LeaveSaved, LeaveUnsaved,
       LeaveClosed, LeaveDone, screen
  <2> QED
    BY <1>1, <2>1
<1>3. CASE EndStep
  BY <1>3 DEF EndStep, CrashSession, CloseAnyway, WindowGone, UnderWay
<1>4. ASSUME NEW p \in Opens, OpeningStep(p), p # o PROVE opening'[o] = opening[o]
  BY <1>4, OthersStay
<1>5. CASE OpeningStep(o)
  <2> DEFINE r == opening[o]
  <2>0. opening \in [Opens -> Openings \cup {None}] /\ (UnderWay(o) => r \in Openings)
    BY Parts DEF SessionTypeOK
  <2>1. ASSUME UnderWay(o),
               \/ \E phase, saved : opening'[o] = [r EXCEPT !.phase = phase, !.saved = saved]
               \/ \E phase, ps : opening'[o] = [r EXCEPT !.phase = phase, !.previousSaved = ps]
               \/ \E phase, lease : opening'[o] = [r EXCEPT !.phase = phase, !.lease = lease]
               \/ \E phase : opening'[o] = [r EXCEPT !.phase = phase]
        PROVE  SameChoice(o)
    BY <2>0, <2>1 DEF SameChoice, Openings
  <2>2. CASE \/ OpenFlushed(o) \/ OpenFlushedPrevious(o) \/ OpenPrepare(o)
             \/ OpenReleasesTarget(o) \/ OpenReleasesPrevious(o) \/ OpenCannotRelease(o)
             \/ OpenClosed(o) \/ OpenCannotTakeOver(o)
    <3>1. UnderWay(o)
      BY <2>2 DEF OpenFlushed, OpenFlushedPrevious, OpenPrepare, OpenReleasesTarget,
         OpenReleasesPrevious, OpenCannotRelease, OpenClosed, OpenCannotTakeOver, TakesOver,
         AtPhase, UnderWay
    <3>2. CASE OpenFlushed(o) \/ OpenFlushedPrevious(o) \/ OpenPrepare(o)
      <4>1. \/ opening' = [opening EXCEPT ![o] =
                  [r EXCEPT !.phase = "read", !.saved = answer[o].status]]
            \/ opening' = [opening EXCEPT ![o] =
                  [r EXCEPT !.phase = "prepare", !.previousSaved = (answer[o].status = "saved")]]
            \/ \E l \in Leases :
                 opening' = [opening EXCEPT ![o] = [r EXCEPT !.phase = "publish", !.lease = l]]
        BY <3>2 DEF OpenFlushed, OpenFlushedPrevious, OpenPrepare, Goes
      <4>2. \/ opening'[o] = [r EXCEPT !.phase = "read", !.saved = answer[o].status]
            \/ opening'[o] =
                 [r EXCEPT !.phase = "prepare", !.previousSaved = (answer[o].status = "saved")]
            \/ \E l \in Leases : opening'[o] = [r EXCEPT !.phase = "publish", !.lease = l]
        BY <2>0, <4>1
      <4> QED
        BY <2>1, <3>1, <4>2
    <3>3. CASE \/ OpenReleasesTarget(o) \/ OpenReleasesPrevious(o) \/ OpenCannotRelease(o)
               \/ OpenClosed(o) \/ OpenCannotTakeOver(o)
      BY <2>0, <2>1, <3>1, <3>3 DEF OpenReleasesTarget, OpenReleasesPrevious, OpenCannotRelease,
         OpenClosed, OpenCannotTakeOver, Goes
    <3> QED
      BY <2>2, <3>2, <3>3
  <2>3. CASE OpenTakesOver(o) \/ OpenGivesUp(o) \/ OpenAborts(o)
    BY <2>0, <2>3 DEF OpenTakesOver, OpenGivesUp, OpenAborts, Ends, UnderWay
  <2>4. CASE \E b \in Books : OpenBegin(o, b)
    BY <2>0, <2>4 DEF OpenBegin, Goes, NoChoice, UnderWay
  <2> QED
    BY <1>5, <2>2, <2>3, <2>4 DEF OpeningStep
<1> QED
  BY <1>1, <1>2, <1>3, <1>4, <1>5, StepKinds

LEMMA FindsStep ==
  ASSUME Linked, Finds, [NextSession]_vars
  PROVE  Finds'
<1> USE DEF Linked
<1>0. [Next]_writerVars /\ Sound'
  BY SessionsWrite
<1>1. ASSUME NEW b \in Books, turn'[b] = 0 PROVE position'[b] = None
  <2>1. turn[b] \in Nat /\ turn'[b] = turn[b] /\ position'[b] = position[b]
    BY <1>0, <1>1, HistorySteps DEF Sound, TypeOK
  <2> QED
    BY <1>1, <2>1 DEF Finds
<1>2. ASSUME NEW o \in Opens, UnderWay(o), opening[o].book \in Books,
             opening[o].turn \in Nat, UnderWay(o)',
             opening'[o].book = opening[o].book, opening'[o].turn = opening[o].turn,
             opening'[o].decision = opening[o].decision
      PROVE  Found(o)'
  <2> DEFINE b == opening[o].book
             d == opening[o].decision
             t == opening[o].turn
  <2>1. t <= turn[b] /\ (~d.explicit /\ t = turn[b] => FoundBy(b, d)) /\ turn[b] \in Nat
    BY <1>2 DEF Finds, Found, FoundBy, Sound, TypeOK
  <2>2. turn'[b] = turn[b] + 1 \/ (turn'[b] = turn[b] /\ position'[b] = position[b])
    BY <1>0, <1>2, HistorySteps
  <2>3. t <= turn'[b]
    BY <1>2, <2>1, <2>2
  <2>4. ASSUME ~d.explicit, t = turn'[b]
        PROVE  \/ d.restore = position'[b]
               \/ d.sel # None /\ d.sel.val = position'[b]
               \/ stored'[b].val = position'[b] /\ LatestOnly(b)'
    <3>1. turn'[b] = turn[b] /\ position'[b] = position[b] /\ FoundBy(b, d)
      BY <1>2, <2>1, <2>2, <2>4
    <3>2. PICK a \in Books : a = b
      BY <1>2
    <3>3. stored[a].val = position[a] /\ LatestOnly(a) =>
            stored'[a].val = position'[a] /\ LatestOnly(a)'
      BY <1>0, <3>1, <3>2, LatestKept
    <3>4. LatestOnly(a)' => LatestOnly(b)'
      BY <1>2, <3>2 DEF LatestOnly
    <3> QED
      BY <3>1, <3>2, <3>3, <3>4 DEF FoundBy
  <2> QED
    BY <1>2, <2>3, <2>4 DEF Found
<1>3. ASSUME NEW o \in Opens PROVE Found(o)'
  <2>1. SUFFICES ASSUME UnderWay(o)' PROVE Found(o)'
    BY DEF Found
  <2>2. CASE SameChoice(o)
    <3>1. opening[o].book \in Books /\ opening[o].turn \in Nat
      BY <2>2, OpeningParts DEF SameChoice, Openings
    <3> QED
      BY <1>2, <2>1, <2>2, <3>1 DEF SameChoice
  <2>3. CASE OpenDecide(o)
    <3> DEFINE r == opening[o]
    <3>1. UnderWay(o) /\ r \in Openings /\ r.book \in Books
      BY <2>3, OpeningParts DEF OpenDecide, AtPhase, UnderWay
    <3>2. PICK b \in Books : b = r.book
      BY <3>1
    <3>3. PICK d \in Decisions(b) :
            Goes(o, [opening[o] EXCEPT
              !.phase = IF FlushesPrevious(o) THEN "flushPrevious" ELSE "prepare",
              !.decision = d, !.turn = turn[opening[o].book]])
      BY <2>3, <3>2 DEF OpenDecide
    <3>4. /\ opening'[o].book = b /\ opening'[o].decision = d /\ opening'[o].turn = turn[b]
      BY <3>1, <3>2, <3>3 DEF Goes, SessionTypeOK, Openings
    <3>5. turn' = turn /\ position' = position
      BY <2>3 DEF OpenDecide, Flush, writerVars, history
    <3>6. ~d.explicit => FoundBy(b, d)
      BY DecisionFinds
    <3>7. stored[b].val = position[b] /\ LatestOnly(b) =>
            stored'[b].val = position'[b] /\ LatestOnly(b)'
      BY <1>0, <3>5, LatestKept
    <3>8. LatestOnly(b)' => LatestOnly(opening[o].book)'
      BY <3>4 DEF LatestOnly
    <3>9. turn[b] <= turn'[b]
      BY <3>5 DEF Sound, TypeOK
    <3> QED
      BY <3>4, <3>5, <3>6, <3>7, <3>8, <3>9 DEF Found, FoundBy
  <2>4. CASE NoChoice(o)
    <3>1. PICK b \in Books : b = opening'[o].book
      BY <2>1, TypesStep, Parts DEF SessionTypeOK, UnderWay, Openings
    <3>2. /\ opening'[o].turn = 0 /\ opening'[o].decision.restore = None
          /\ turn'[b] \in Nat
      BY <1>0, <2>4 DEF NoChoice, NoDecision, Sound, TypeOK
    <3>3. turn'[b] = 0 => position'[b] = None
      BY <1>1
    <3> QED
      BY <3>1, <3>2, <3>3 DEF Found
  <2>5. SameChoice(o) \/ OpenDecide(o) \/ NoChoice(o)
    <3>1. CASE NextSession
      BY <2>1, <3>1, ChoiceSteps
    <3>2. CASE UNCHANGED vars
      BY <2>1, <3>2 DEF vars, SameChoice, UnderWay
    <3> QED
      BY <3>1, <3>2
  <2> QED
    BY <2>2, <2>3, <2>4, <2>5
<1> QED
  BY <1>1, <1>3 DEF Finds

LEMMA Finding == SessionSpec => []Finds
<1>1. InitSession => Finds
  BY DEF InitSession, Init, Finds, Found, UnderWay
<1>2. Linked /\ Finds /\ [NextSession]_vars => Finds'
  BY FindsStep
<1> QED
  BY <1>1, <1>2, Linking, PTL DEF SessionSpec

\* A book that opens without a question opens at the last position recorded of
\* it, or the store took that position and has another one by now.
THEOREM SilentOpenFinds == SessionSpec => SilentOpenFindsPosition
<1> DEFINE A == \A o \in Opens :
       LET b == opening[o].book
           d == opening[o].decision
       IN  opening[o] # None /\ view' = b /\ reader' # reader /\ reader' = opening[o].lease
             /\ ~d.explicit /\ opening[o].turn = turn[b]
           => \/ d.restore = position[b]
              \/ d.sel # None /\ d.sel.val = position[b]
              \/ stored[b].val = position[b]
<1>1. Finds => A
  BY DEF Finds, Found, UnderWay
<1>2. Finds => [A]_vars
  BY <1>1
<1>3. SilentOpenFindsPosition <=> [][A]_vars
  BY DEF SilentOpenFindsPosition
<1> HIDE DEF A
<1> QED
  BY <1>2, <1>3, Finding, PTL

-----------------------------------------------------------------------------
\* One opening at a time: what is displayed can be saved

Alone == \A o, p \in Opens : UnderWay(o) /\ UnderWay(p) => o = p

\* The opening found no lane of its book, or has given it up.
LaneFree(r) ==
  \/ r.saved = "none" /\ r.phase # "flush"
  \/ r.phase \in {"closeTarget", "released", "closePrevious", "takeOver"}

Laneless(o) ==
  UnderWay(o) =>
    /\ reader \in {opening[o].previous, None}
    /\ LaneFree(opening[o]) => held[opening[o].book] = None

\* The displayed lane was given up for the book that is opened.
Between(o) ==
  /\ UnderWay(o)
  /\ \/ opening[o].phase \in {"closePrevious", "takeOver"}
     \/ opening[o].phase = "closeTarget" /\ ~opening[o].previousSaved

Writable ==
  view # None /\ (leaving # None => leaving.phase = "flush")
    => reader # None /\ held[view] = reader

WritableOrBetween == Writable \/ \E o \in Opens : Between(o)

\* The steps of an opening that lead to another phase of it, and what they change
\* of lanes and of the reader.
PhaseStep(o) ==
  LET r == opening[o]
      n == opening'[o]
  IN  \/ /\ \E b \in Books : OpenBegin(o, b)
         /\ ~UnderWay(o) /\ n # None /\ n.previous = reader /\ n.target = held[n.book]
         /\ n.saved = "none" /\ n.phase = IF held[n.book] = None THEN "read" ELSE "flush"
         /\ n.book \in Books /\ n.decision = NoDecision /\ ~n.previousSaved
         /\ reader' = reader /\ view' = view /\ held' = held
      \/ ~UnderWay(o)' /\ (OpenGivesUp(o) \/ OpenAborts(o) \/ OpenTakesOver(o))
      \/ /\ UnderWay(o) /\ n # None
         /\ n.book = r.book /\ n.previous = r.previous /\ n.target = r.target
         /\ \/ /\ OpenFlushed(o)
               /\ r.phase = "flush" /\ n.phase = "read" /\ n.saved \in {"saved", "failed"}
               /\ n.decision = r.decision /\ n.previousSaved = r.previousSaved
            \/ /\ OpenFlushedPrevious(o)
               /\ r.phase = "flushPrevious" /\ n.phase = "prepare" /\ n.saved = r.saved
               /\ n.decision = r.decision
            \/ /\ OpenDecide(o) /\ r.phase = "read" /\ n.phase \in {"flushPrevious", "prepare"}
               /\ n.saved = r.saved /\ n.previousSaved = r.previousSaved
            \/ /\ OpenPrepare(o)
               /\ r.phase = "prepare" /\ n.phase = "publish" /\ n.saved = r.saved
               /\ n.decision = r.decision /\ n.previousSaved = r.previousSaved
            \/ /\ n.saved = r.saved /\ n.decision = r.decision
               /\ n.previousSaved = r.previousSaved
               /\ \/ /\ OpenReleasesTarget(o) /\ r.phase = "publish"
                     /\ n.phase = "closeTarget"
                  \/ /\ OpenReleasesPrevious(o) /\ n.phase = "closePrevious"
                     /\ \/ r.phase = "publish" /\ r.saved = "none"
                        \/ r.phase = "released"
                  \/ /\ OpenCannotRelease(o) /\ r.phase \in {"publish", "released"}
                     /\ n.phase = "abort"
                  \/ /\ OpenClosed(o) /\ r.phase \in {"closeTarget", "closePrevious"}
                     /\ \/ n.phase = IF r.phase = "closeTarget" /\ r.previousSaved
                                     THEN "released" ELSE "takeOver"
                        \/ CloseFaults /\ n.phase = "abort"
                  \/ /\ OpenCannotTakeOver(o) /\ r.phase \in {"takeOver", "publish"}
                     /\ n.phase = "abort"

LEMMA OpeningPhases ==
  ASSUME Linked, NEW o \in Opens, OpeningStep(o)
  PROVE  PhaseStep(o)
<1> USE DEF Linked, PhaseStep
<1> DEFINE r == opening[o]
           n == opening'[o]
<1>0. /\ opening \in [Opens -> Openings \cup {None}] /\ (UnderWay(o) => r \in Openings)
      /\ None \notin Openings
  BY Parts, RecordsAssumption DEF SessionTypeOK
<1>1. ASSUME NEW b \in Books, OpenBegin(o, b)
      PROVE  /\ ~UnderWay(o) /\ n.previous = reader /\ n.target = held[n.book]
             /\ n.saved = "none" /\ n.phase = IF held[n.book] = None THEN "read" ELSE "flush"
             /\ n.book \in Books /\ n.decision = NoDecision /\ ~n.previousSaved
             /\ n # None /\ reader' = reader /\ view' = view /\ held' = held
  <2> DEFINE new == [book |-> b, phase |-> IF held[b] = None THEN "read" ELSE "flush",
                     previous |-> reader, target |-> held[b], saved |-> "none",
                     previousSaved |-> FALSE, turn |-> 0, lease |-> None, decision |-> NoDecision]
  <2>1. NoDecision \in Choices
    BY DEF NoDecision, Choices
  <2>2. new \in Openings
    BY <2>1 DEF SessionTypeOK, TypeOK, Openings
  <2>3. n = new /\ ~UnderWay(o) /\ reader' = reader /\ view' = view /\ held' = held
    BY <1>0, <1>1 DEF OpenBegin, Goes, UnderWay, Flush, writerVars, writer
  <2>4. n # None
    BY <1>0, <2>2, <2>3
  <2> QED
    BY <2>3, <2>4
<1>2. CASE OpenGivesUp(o) \/ OpenAborts(o) \/ OpenTakesOver(o)
  BY <1>0, <1>2 DEF OpenGivesUp, OpenAborts, OpenTakesOver, Ends, UnderWay
<1>3. CASE OpenFlushed(o)
  <2>1. /\ UnderWay(o) /\ r.phase = "flush"
        /\ n = [r EXCEPT !.phase = "read", !.saved = answer[o].status]
    BY <1>0, <1>3 DEF OpenFlushed, AtPhase, UnderWay, Goes
  <2>2. answer[o].status \in {"saved", "failed"}
    BY <1>3, OpensAssumption DEF OpenFlushed, Collect, SessionTypeOK, TypeOK, Answers
  <2>3. n \in Openings
    BY <1>0, <2>1, <2>2 DEF Openings
  <2> QED
    BY <1>0, <1>3, <2>1, <2>2, <2>3 DEF Openings
<1>4. CASE OpenFlushedPrevious(o)
  <2>1. /\ UnderWay(o) /\ r.phase = "flushPrevious"
        /\ n = [r EXCEPT !.phase = "prepare", !.previousSaved = (answer[o].status = "saved")]
    BY <1>0, <1>4 DEF OpenFlushedPrevious, AtPhase, UnderWay, Goes
  <2>2. n \in Openings
    BY <1>0, <2>1 DEF Openings
  <2> QED
    BY <1>0, <1>4, <2>1, <2>2 DEF Openings
<1>5. CASE OpenDecide(o)
  <2>1. UnderWay(o) /\ r.phase = "read" /\ r.book \in Books
    BY <1>0, <1>5 DEF OpenDecide, AtPhase, UnderWay, Openings
  <2>2. PICK d \in Decisions(r.book) : n = [r EXCEPT
             !.phase = IF FlushesPrevious(o) THEN "flushPrevious" ELSE "prepare",
             !.decision = d, !.turn = turn[r.book]]
    BY <1>0, <1>5 DEF OpenDecide, Goes
  <2>3. d \in Choices /\ turn[r.book] \in Nat
    BY <2>1, DecisionsType DEF SessionTypeOK, TypeOK
  <2>4. n \in Openings
    BY <1>0, <2>1, <2>2, <2>3 DEF Openings
  <2> QED
    BY <1>0, <1>5, <2>1, <2>2, <2>4 DEF Openings
<1>6. CASE OpenPrepare(o)
  <2>1. /\ UnderWay(o) /\ r.phase = "prepare"
        /\ \E l \in Leases : n = [r EXCEPT !.phase = "publish", !.lease = l]
    BY <1>0, <1>6 DEF OpenPrepare, AtPhase, UnderWay, Goes
  <2>2. n \in Openings
    BY <1>0, <2>1 DEF Openings
  <2> QED
    BY <1>0, <1>6, <2>1, <2>2 DEF Openings
<1>7. ASSUME UnderWay(o), NEW phase \in {"closeTarget", "closePrevious", "released", "takeOver", "abort"},
             n = [r EXCEPT !.phase = phase]
      PROVE  /\ n # None /\ n.phase = phase
             /\ n.book = r.book /\ n.previous = r.previous /\ n.target = r.target
             /\ n.saved = r.saved /\ n.decision = r.decision /\ n.previousSaved = r.previousSaved
  <2>1. n \in Openings
    BY <1>0, <1>7 DEF Openings
  <2> QED
    BY <1>0, <1>7, <2>1 DEF Openings
<1>8. CASE OpenReleasesTarget(o)
  <2>1. UnderWay(o) /\ r.phase = "publish" /\ n = [r EXCEPT !.phase = "closeTarget"]
    BY <1>0, <1>8 DEF OpenReleasesTarget, AtPhase, UnderWay, Goes
  <2> QED
    BY <1>7, <1>8, <2>1
<1>9. CASE OpenReleasesPrevious(o)
  <2>1. /\ UnderWay(o) /\ n = [r EXCEPT !.phase = "closePrevious"]
        /\ (r.phase = "publish" /\ r.saved = "none") \/ r.phase = "released"
    BY <1>0, <1>9 DEF OpenReleasesPrevious, AtPhase, UnderWay, Goes
  <2> QED
    BY <1>7, <1>9, <2>1
<1>10. CASE OpenCannotRelease(o)
  <2>1. UnderWay(o) /\ r.phase \in {"publish", "released"} /\ n = [r EXCEPT !.phase = "abort"]
    BY <1>0, <1>10 DEF OpenCannotRelease, AtPhase, UnderWay, Goes
  <2> QED
    BY <1>7, <1>10, <2>1
<1>11. CASE OpenClosed(o)
  <2>1. /\ UnderWay(o) /\ r.phase \in {"closeTarget", "closePrevious"}
        /\ \/ n = [r EXCEPT !.phase = IF r.phase = "closeTarget" /\ r.previousSaved
                                      THEN "released" ELSE "takeOver"]
           \/ CloseFaults /\ n = [r EXCEPT !.phase = "abort"]
    BY <1>0, <1>11 DEF OpenClosed, AtPhase, UnderWay, Goes
  <2> QED
    BY <1>7, <1>11, <2>1
<1>12. CASE OpenCannotTakeOver(o)
  <2>1. UnderWay(o) /\ r.phase \in {"takeOver", "publish"} /\ n = [r EXCEPT !.phase = "abort"]
    BY <1>0, <1>12 DEF OpenCannotTakeOver, TakesOver, AtPhase, UnderWay, Goes
  <2> QED
    BY <1>7, <1>12, <2>1
<1> QED
  BY <1>1, <1>2, <1>3, <1>4, <1>5, <1>6, <1>8, <1>9, <1>10, <1>11, <1>12 DEF OpeningStep

\* What a step leaves of lanes, unless a candidate takes over.
LEMMA LanesLeft ==
  ASSUME Linked
  PROVE  /\ ReadingStep => UNCHANGED <<held, reader, view, opening, leaving>>
         /\ LeavingStep => /\ opening' = opening /\ reader' \in {reader, None}
                           /\ \A b \in Books : held'[b] \in {held[b], None}
         /\ \A o \in Opens : OpeningStep(o) /\ UnderWay(o)' =>
              /\ UNCHANGED <<view, leaving>>
              /\ OpenClosed(o) \/ reader' = reader
              /\ reader' \in {reader, None}
              /\ OpenReleasesTarget(o) \/ OpenReleasesPrevious(o) \/ held' = held
              /\ \A b \in Books : held'[b] \in {held[b], None}
<1> USE DEF Linked
<1>0. held \in [Books -> Leases \cup {None}] /\ \A l \in Leases : BookOf[l] \in Books
  BY BookOfAssumption DEF Sound, TypeOK
<1>1. ReadingStep => UNCHANGED <<held, reader, view, opening, leaving>>
  BY ReadingLinks
<1>2. ASSUME NEW l, Drop(l) PROVE \A b \in Books : held'[b] \in {held[b], None}
  BY <1>0, <1>2 DEF Drop
<1>3. ASSUME LeavingStep
      PROVE  /\ opening' = opening /\ reader' \in {reader, None}
             /\ \A b \in Books : held'[b] \in {held[b], None}
  <2>1. CASE LeaveSaved \/ LeaveUnsaved
    BY <1>2, <2>1 DEF LeaveSaved, LeaveUnsaved, Retire, Handoff, Collect, writerVars, writer, screen
  <2>2. CASE LeaveAgain \/ LeaveClosed \/ LeaveDone \/ \E unsaved \in BOOLEAN : LeaveBegin(unsaved)
    BY <2>2 DEF LeaveAgain, LeaveClosed, LeaveDone, LeaveBegin, Flush, Collect, writerVars, writer
  <2> QED
    BY <1>3, <2>1, <2>2 DEF LeavingStep
<1>4. ASSUME NEW o \in Opens, OpeningStep(o), UnderWay(o)'
      PROVE  /\ UNCHANGED <<view, leaving>>
             /\ OpenClosed(o) \/ reader' = reader
             /\ reader' \in {reader, None}
             /\ OpenReleasesTarget(o) \/ OpenReleasesPrevious(o) \/ held' = held
             /\ \A b \in Books : held'[b] \in {held[b], None}
  <2>1. ~OpenGivesUp(o) /\ ~OpenAborts(o) /\ ~OpenTakesOver(o)
    BY <1>4 DEF OpenGivesUp, OpenAborts, OpenTakesOver, Ends, UnderWay, SessionTypeOK
  <2>2. CASE OpenReleasesTarget(o) \/ OpenReleasesPrevious(o)
    BY <1>2, <2>2 DEF OpenReleasesTarget, OpenReleasesPrevious, Retire, Handoff, screen
  <2>3. CASE \/ \E b \in Books : OpenBegin(o, b)
             \/ OpenFlushed(o) \/ OpenFlushedPrevious(o) \/ OpenDecide(o) \/ OpenPrepare(o)
             \/ OpenCannotRelease(o) \/ OpenClosed(o) \/ OpenCannotTakeOver(o)
    BY <2>3 DEF OpenBegin, OpenFlushed, OpenFlushedPrevious, OpenDecide, OpenPrepare,
       OpenCannotRelease, OpenClosed, OpenCannotTakeOver, Flush, Collect, writerVars, writer, screen
  <2> QED
    BY <1>4, <2>1, <2>2, <2>3 DEF OpeningStep
<1> QED
  BY <1>1, <1>3, <1>4

\* When one opening is under way before and after, the step is its own.
LEMMA OwnStep ==
  ASSUME Linked, Alone, Alone', NEW o \in Opens, UnderWay(o) \/ UnderWay(o)',
         NEW p \in Opens, OpeningStep(p)
  PROVE  p = o
<1> SUFFICES ASSUME p # o PROVE FALSE
  OBVIOUS
<1>1. UnderWay(o) /\ UnderWay(o)'
  BY OthersStay DEF Linked, UnderWay
<1>2. PhaseStep(p)
  BY OpeningPhases
<1>3. UnderWay(p) \/ UnderWay(p)'
  BY <1>2 DEF PhaseStep, OpenGivesUp, OpenAborts, OpenTakesOver, TakesOver, AtPhase, UnderWay
<1> QED
  BY <1>1, <1>3 DEF Alone

LEMMA LanelessStep ==
  ASSUME Linked, Alone, Alone', \A o \in Opens : Laneless(o), [NextSession]_vars
  PROVE  \A o \in Opens : Laneless(o)'
<1> USE DEF Linked
<1> SUFFICES ASSUME NEW o \in Opens, UnderWay(o)' PROVE Laneless(o)'
  BY DEF Laneless
<1>0. UnderWay(o) => opening[o].book \in Books
  BY OpeningParts
<1>1. CASE /\ opening' = opening /\ reader' \in {reader, None}
           /\ \A b \in Books : held'[b] \in {held[b], None}
  BY <1>0, <1>1 DEF Laneless, UnderWay
<1>2. CASE OpeningStep(o)
  <2> DEFINE r == opening[o]
             n == opening'[o]
  <2>1. PhaseStep(o)
    BY <1>2, OpeningPhases
  <2>2. /\ reader' \in {reader, None} /\ \A b \in Books : held'[b] \in {held[b], None}
        /\ OpenReleasesTarget(o) \/ OpenReleasesPrevious(o) \/ held' = held
    BY <1>2, LanesLeft
  <2>3. CASE ~UnderWay(o)
    <3>1. /\ n.previous = reader /\ n.phase = IF held[n.book] = None THEN "read" ELSE "flush"
          /\ reader' = reader /\ held' = held
      BY <2>1, <2>3 DEF PhaseStep
    <3>2. LaneFree(n) => held'[n.book] = None
      BY <3>1 DEF LaneFree
    <3>3. reader' \in {n.previous, None}
      BY <3>1
    <3> QED
      BY <3>2, <3>3 DEF Laneless
  <2>4. CASE UnderWay(o)
    <3>1. n.book = r.book /\ n.previous = r.previous /\ n.target = r.target
      BY <2>1, <2>4 DEF PhaseStep
    <3>2. ASSUME LaneFree(n) PROVE LaneFree(r) \/ OpenReleasesTarget(o)
      BY <2>1, <2>4, <3>2 DEF PhaseStep, LaneFree
    <3>3. ASSUME OpenReleasesTarget(o) PROVE held'[r.book] = None
      <4>1. /\ r.saved # "none" /\ r.target \in Leases /\ BookOf[r.target] = r.book
            /\ Drop(r.target)
        BY <2>4, <3>3, OpeningParts DEF OpenReleasesTarget, Retire, Handoff, Shaped
      <4> QED
        BY <1>0, <2>4, <4>1 DEF Drop, Sound, TypeOK
    <3>4. LaneFree(n) => held'[r.book] = None
      BY <1>0, <2>2, <2>4, <3>2, <3>3 DEF Laneless
    <3>5. reader' \in {n.previous, None}
      BY <2>2, <2>4, <3>1 DEF Laneless
    <3> QED
      BY <3>1, <3>4, <3>5 DEF Laneless
  <2> QED
    BY <2>3, <2>4
<1>3. CASE NextSession
  <2>1. ~EndStep
    BY DEF EndStep, CrashSession, CloseAnyway, WindowGone, UnderWay
  <2>2. CASE ReadingStep \/ LeavingStep
    BY <1>1, <2>2, LanesLeft
  <2> QED
    BY <1>2, <1>3, <2>1, <2>2, OwnStep, StepKinds
<1>4. CASE UNCHANGED vars
  BY <1>1, <1>4 DEF vars, writerVars, writer, screen
<1> QED
  BY <1>3, <1>4

LEMMA WritableStep ==
  ASSUME Linked, Alone, Alone', ~CloseFaults, \A o \in Opens : Laneless(o),
         WritableOrBetween, [NextSession]_vars
  PROVE  WritableOrBetween'
<1> USE DEF Linked
<1>1. CASE UNCHANGED <<held, reader, view, opening, leaving>>
  BY <1>1 DEF WritableOrBetween, Writable, Between, UnderWay
<1>2. CASE EndStep
  BY <1>2 DEF EndStep, CrashSession, CloseAnyway, WindowGone, WritableOrBetween, Writable
<1>3. CASE LeavingStep
  <2>0. opening' = opening
    BY <1>3, LanesLeft
  <2>1. SUFFICES ASSUME Writable PROVE Writable'
    BY <2>0 DEF WritableOrBetween, Between, UnderWay
  <2>2. CASE LeaveSaved \/ LeaveUnsaved
    <3>1. leaving # None /\ leaving.phase = "flush"
      BY <2>2 DEF LeaveSaved, LeaveUnsaved, LeaveSettled
    <3>2. leaving \in Leavings
      BY <3>1, LeavingParts
    <3>3. \/ leaving' \in Leavings /\ leaving'.phase \in {"close", "done"}
          \/ leaving' = None /\ UNCHANGED <<held, reader, view>>
      BY <2>2, <3>2 DEF LeaveSaved, LeaveUnsaved, LeaveRefused, Collect, Leavings
    <3> QED
      BY <2>1, <3>1, <3>3, RecordsAssumption DEF Writable
  <2>3. CASE LeaveClosed
    <3>1. leaving \in Leavings /\ leaving' = [leaving EXCEPT !.phase = "done"]
      BY <2>3, LeavingParts DEF LeaveClosed
    <3>2. leaving' \in Leavings /\ leaving'.phase = "done"
      BY <3>1 DEF Leavings
    <3> QED
      BY <3>2, RecordsAssumption DEF Writable
  <2>4. CASE LeaveDone
    BY <2>4 DEF LeaveDone, Writable
  <2>5. CASE LeaveAgain
    <3>1. UNCHANGED <<held, reader, leaving>> /\ view' \in {view, None}
      BY <2>5 DEF LeaveAgain, writerVars, writer
    <3> QED
      BY <2>1, <3>1 DEF Writable
  <2>6. CASE \E unsaved \in BOOLEAN : LeaveBegin(unsaved)
    <3>1. leaving = None /\ UNCHANGED <<held, reader, view>>
      BY <2>6 DEF LeaveBegin, Flush, writerVars, writer
    <3> QED
      <4>1. leaving' = None \/ leaving'.phase = "flush" \/ (leaving' # None /\ leaving'.phase = "done")
        <5>1. ASSUME NEW u \in BOOLEAN
              PROVE  [lease |-> None, phase |-> "done", unsaved |-> u, caught |-> FALSE] \in Leavings
          BY <5>1 DEF Leavings
        <5> QED
          BY <2>6, <5>1, RecordsAssumption DEF LeaveBegin, LeaveRefused
      <4> QED
        BY <2>1, <3>1, <4>1 DEF Writable
  <2> QED
    BY <1>3, <2>2, <2>3, <2>4, <2>5, <2>6 DEF LeavingStep
<1>4. ASSUME NEW o \in Opens, OpeningStep(o) PROVE WritableOrBetween'
  <2> DEFINE r == opening[o]
             n == opening'[o]
  <2>0. WritableOrBetween => Writable \/ Between(o)
    BY <1>4, OwnStep DEF WritableOrBetween, Between
  <2>1. PhaseStep(o)
    BY <1>4, OpeningPhases
  <2>2. UnderWay(o)' => /\ UNCHANGED <<view, leaving>>
                        /\ OpenClosed(o) \/ reader' = reader
                        /\ reader' \in {reader, None}
                        /\ OpenReleasesTarget(o) \/ OpenReleasesPrevious(o) \/ held' = held
    BY <1>4, LanesLeft
  <2>3. CASE OpenTakesOver(o)
    <3> DEFINE l == r.lease
               b == r.book
    <3>1. UnderWay(o) /\ r.phase \in {"takeOver", "publish"}
      BY <2>3 DEF OpenTakesOver, TakesOver, AtPhase, UnderWay
    <3>2. l \in Leases /\ l # None /\ BookOf[l] = b /\ b \in Books
      BY <3>1, OpeningParts DEF Shaped, Links, Candidate
    <3>3. reader' = l /\ view' = b /\ held' = [held EXCEPT ![BookOf[l]] = l]
      BY <2>3 DEF OpenTakesOver, Open, OpenSaved, OpenRestoring, Register
    <3> QED
      BY <3>2, <3>3 DEF WritableOrBetween, Writable, Sound, TypeOK
  <2>4. CASE OpenGivesUp(o) \/ OpenAborts(o)
    <3>1. /\ UnderWay(o) /\ r.phase \in {"read", "prepare", "publish", "abort"}
          /\ UNCHANGED <<held, view, leaving>>
      BY <2>4 DEF OpenGivesUp, OpenAborts, AtPhase, UnderWay, writerVars, writer
    <3>2. Writable
      BY <2>0, <3>1 DEF Between
    <3>3. reader' = reader
      <4>1. CASE OpenGivesUp(o)
        BY <4>1 DEF OpenGivesUp
      <4>2. CASE OpenAborts(o)
        <5>1. reader # r.lease \/ r.lease = None
          BY <3>1, NoneAssumption DEF Links, Candidate, Referenced
        <5>2. r.lease # None
          BY <3>1, <4>2, OpeningParts DEF OpenAborts, Shaped
        <5> QED
          BY <4>2, <5>1, <5>2 DEF OpenAborts
      <4> QED
        BY <2>4, <4>1, <4>2
    <3> QED
      BY <3>1, <3>2, <3>3 DEF WritableOrBetween, Writable
  <2>5. CASE /\ UnderWay(o)' /\ ~UnderWay(o)
    <3>1. Writable /\ UNCHANGED <<reader, view, held, leaving>>
      BY <2>0, <2>1, <2>2, <2>5 DEF PhaseStep, Between
    <3> QED
      BY <3>1 DEF WritableOrBetween, Writable
  <2>6. CASE UnderWay(o) /\ UnderWay(o)'
    <3>0. n.previousSaved = r.previousSaved \/ n.phase = "prepare"
      BY <2>1, <2>6 DEF PhaseStep
    <3>1. CASE OpenReleasesTarget(o)
      <4>1. r.phase = "publish" /\ r.saved # "none" /\ n.phase = "closeTarget"
            /\ n.previousSaved = r.previousSaved
        <5>1. r.phase = "publish" /\ r.saved # "none"
          BY <3>1 DEF OpenReleasesTarget, AtPhase
        <5>2. n = [r EXCEPT !.phase = "closeTarget"] /\ r \in Openings
          BY <2>6, <3>1, OpeningParts DEF OpenReleasesTarget, Goes, SessionTypeOK
        <5> QED
          BY <5>1, <5>2 DEF Openings
      <4>2. CASE ~r.previousSaved
        BY <2>6, <4>1, <4>2 DEF WritableOrBetween, Between
      <4>3. CASE r.previousSaved
        <5>1. /\ r.previous # None /\ BookOf[r.previous] # r.book
              /\ r.target \in Leases /\ BookOf[r.target] = r.book /\ r.book \in Books
          BY <2>6, <4>1, <4>3, OpeningParts DEF Shaped
        <5>2. Drop(r.target) /\ reader' = reader /\ view' = view /\ leaving' = leaving
          BY <3>1 DEF OpenReleasesTarget, Retire, Handoff, screen
        <5>3. Writable /\ reader \in {r.previous, None}
          BY <2>0, <2>6, <4>1 DEF Between, Laneless
        <5>4. view # None /\ reader # None => BookOf[reader] = view
          BY DEF Links
        <5>5. \A b \in Books \ {r.book} : held'[b] = held[b]
          BY <5>1, <5>2 DEF Drop, Sound, TypeOK
        <5>6. view # None => view \in Books
          BY DEF SessionTypeOK
        <5> QED
          BY <5>1, <5>2, <5>3, <5>4, <5>5, <5>6 DEF WritableOrBetween, Writable
      <4> QED
        BY <4>2, <4>3
    <3>2. CASE OpenReleasesPrevious(o)
      <4>1. n = [r EXCEPT !.phase = "closePrevious"] /\ r \in Openings
        BY <2>6, <3>2, OpeningParts DEF OpenReleasesPrevious, Goes, SessionTypeOK
      <4>2. n.phase = "closePrevious"
        BY <4>1 DEF Openings
      <4> QED
        BY <2>6, <4>2 DEF WritableOrBetween, Between
    <3>3. CASE OpenClosed(o)
      <4>1. /\ r.phase \in {"closeTarget", "closePrevious"} /\ r \in Openings
            /\ n = [r EXCEPT !.phase = IF r.phase = "closeTarget" /\ r.previousSaved
                                       THEN "released" ELSE "takeOver"]
            /\ reader' = IF reader = Releasing(o) THEN None ELSE reader
        BY <2>6, <3>3, OpeningParts DEF OpenClosed, AtPhase, Goes, SessionTypeOK
      <4>2. n.phase = IF r.phase = "closeTarget" /\ r.previousSaved THEN "released" ELSE "takeOver"
        BY <4>1 DEF Openings
      <4>3. CASE ~(r.phase = "closeTarget" /\ r.previousSaved)
        BY <2>6, <4>2, <4>3 DEF WritableOrBetween, Between
      <4>4. CASE r.phase = "closeTarget" /\ r.previousSaved
        <5>1. Writable
          BY <2>0, <4>4 DEF Between
        <5>2. r.previous # r.target /\ r.target # None /\ reader \in {r.previous, None}
          BY <2>6, <4>4, OpeningParts DEF Shaped, Laneless
        <5>3. reader' = reader
          BY <4>1, <4>4, <5>2 DEF Releasing
        <5>4. held' = held /\ view' = view /\ leaving' = leaving
          BY <3>3 DEF OpenClosed, writerVars, writer
        <5> QED
          BY <5>1, <5>3, <5>4 DEF WritableOrBetween, Writable
      <4> QED
        BY <4>3, <4>4
    <3>4. CASE OpenCannotTakeOver(o) /\ r.phase = "takeOver"
      <4> DEFINE b == r.book
      <4>1. b \in Books /\ held[b] = None /\ r.lease # None
        BY <2>6, <3>4, OpeningParts DEF Laneless, LaneFree, Shaped
      <4>2. active[b] # None
        BY <3>4, <4>1 DEF OpenCannotTakeOver
      <4>3. BeingReleased(active[b])
        BY <4>1, <4>2 DEF Links
      <4>4. \A p \in Opens : UnderWay(p) => p = o
        BY <2>6 DEF Alone
      <4>5. leaving # None /\ leaving.phase = "close"
        BY <3>4, <4>3, <4>4 DEF BeingReleased
      <4>6. leaving' = leaving
        BY <3>4 DEF OpenCannotTakeOver
      <4> QED
        BY <4>5, <4>6 DEF WritableOrBetween, Writable
    <3>5. CASE /\ ~OpenReleasesTarget(o) /\ ~OpenReleasesPrevious(o) /\ ~OpenClosed(o)
               /\ ~(OpenCannotTakeOver(o) /\ r.phase = "takeOver")
      <4>1. ~Between(o)
        BY <2>1, <2>6, <3>5 DEF PhaseStep, Between
      <4>2. UNCHANGED <<held, reader, view, leaving>>
        BY <2>2, <2>6, <3>5
      <4> QED
        BY <2>0, <4>1, <4>2 DEF WritableOrBetween, Writable
    <3> QED
      BY <3>1, <3>2, <3>3, <3>4, <3>5
  <2> QED
    BY <2>1, <2>3, <2>4, <2>5, <2>6 DEF PhaseStep, UnderWay
<1>5. CASE NextSession
  BY <1>1, <1>2, <1>3, <1>4, <1>5, StepKinds, LanesLeft
<1>6. CASE UNCHANGED vars
  BY <1>1, <1>6 DEF vars, writerVars, writer, screen
<1> QED
  BY <1>5, <1>6

Displayable == (\A o \in Opens : Laneless(o)) /\ WritableOrBetween

LEMMA DisplayableStep ==
  ~CloseFaults /\ Alone /\ Alone' /\ Linked /\ Displayable /\ [NextSession]_vars => Displayable'
<1> SUFFICES ASSUME ~CloseFaults, Alone, Alone', Linked, Displayable, [NextSession]_vars
             PROVE  Displayable'
  OBVIOUS
<1>1. (\A o \in Opens : Laneless(o)) /\ WritableOrBetween
  BY DEF Displayable
<1>2. \A o \in Opens : Laneless(o)'
  BY <1>1, LanelessStep
<1>3. WritableOrBetween'
  BY <1>1, WritableStep
<1> QED
  BY <1>2, <1>3 DEF Displayable

\* An opening that replaces the displayed lane is replacing it.
LEMMA BetweenReplaces == \A o \in Opens : Between(o) => Replacing(o)
BY DEF Between, Replacing, UnderWay

LEMMA DisplayedWritable == Linked /\ Displayable => ReaderIsWritable
<1> SUFFICES ASSUME Linked, Displayable PROVE ReaderIsWritable
  OBVIOUS
<1>1. /\ \A b \in Books : held[b] # None => Live(held[b])
      /\ view # None /\ reader # None => BookOf[reader] = view
  BY DEF Linked, Links
<1>2. ASSUME view # None, leaving = None, \A o \in Opens : ~Replacing(o)
      PROVE  reader # None /\ held[view] = reader
  BY <1>2, BetweenReplaces DEF Displayable, WritableOrBetween, Writable
<1> QED
  BY <1>1, <1>2 DEF ReaderIsWritable

\* As long as one book at a time is being opened, and no release of a basis
\* fails, what is displayed can be saved: unless a book is being left or an
\* opening puts another lane in place, the reader's lane is the one of the book
\* it shows, and its session takes positions.
THEOREM DisplayedIsWritable == SessionSpec /\ []Alone => [](~CloseFaults => ReaderIsWritable)
<1> DEFINE Inv == ~CloseFaults => Displayable
<1>1. InitSession => Inv
  BY DEF InitSession, Displayable, Laneless, WritableOrBetween, Writable, UnderWay
<1>2. Linked /\ Alone /\ Alone' /\ Inv /\ [NextSession]_vars => Inv'
  BY DisplayableStep
<1>3. Linked /\ Inv => (~CloseFaults => ReaderIsWritable)
  BY DisplayedWritable
<1> HIDE DEF Inv
<1> QED
  BY <1>1, <1>2, <1>3, Linking, PTL DEF SessionSpec

\* Without these conditions the lanes in the writer's map belong to sessions that
\* are open and current, and page turns are recorded under the displayed book.
LanesAreLive ==
  /\ \A b \in Books : held[b] # None => Live(held[b])
  /\ view # None /\ reader # None => BookOf[reader] = view

THEOREM HeldLanesAreLive == SessionSpec => []LanesAreLive
<1>1. Linked => LanesAreLive
  BY DEF Linked, Links, LanesAreLive
<1> QED
  BY <1>1, Linking, PTL

\* The shelf opens one book at a time, if none is left while another is opened and
\* none is opened while another is left: its busy flag is reset by the end of a
\* leaving too, and by a second one that meets the first.
NoneOpening == \A o \in Opens : ~UnderWay(o)
LeavesBetween ==
  /\ (\E unsaved \in BOOLEAN : LeaveBegin(unsaved)) => NoneOpening
  /\ (\E o \in Opens, b \in Books : OpenBegin(o, b)) => leaving = None

Engaged ==
  /\ Alone
  /\ \A o \in Opens : UnderWay(o) => busy
  /\ leaving # None => NoneOpening

LEMMA EngagedStep ==
  ASSUME Linked, Engaged, LeavesBetween, NextSession
  PROVE  Engaged'
<1>1. CASE ReadingStep
  <2>1. opening' = opening /\ leaving' = leaving /\ busy' = busy
    BY <1>1 DEF ReadingStep, WriteEnds, PageTurn, Timer, Restart, Hidden, HiddenFlushed, Shown,
       Merge, Commit, Answered, StaleBasis, Refused, RequestFails, ProjectionFails, screen
  <2> QED
    BY <2>1 DEF Engaged, Alone, NoneOpening, UnderWay
<1>2. ASSUME NEW o \in Opens, OpeningStep(o) PROVE Engaged'
  <2>0. /\ leaving' = leaving
        /\ \A p \in Opens : p # o => opening'[p] = opening[p]
        /\ opening \in [Opens -> Openings \cup {None}]
    BY <1>2, OthersStay DEF Linked, SessionTypeOK, OpeningStep, OpenBegin, OpenFlushed,
       OpenFlushedPrevious, OpenDecide, OpenPrepare, OpenReleasesTarget, OpenReleasesPrevious,
       OpenCannotRelease, OpenClosed, OpenTakesOver, OpenCannotTakeOver, OpenGivesUp, OpenAborts
  <2>1. CASE \E b \in Books : OpenBegin(o, b)
    <3>1. ~busy /\ busy' = TRUE /\ leaving = None
      BY <2>1 DEF OpenBegin, LeavesBetween
    <3> QED
      BY <2>0, <3>1 DEF Engaged, Alone, NoneOpening, UnderWay
  <2>2. CASE OpenTakesOver(o) \/ OpenGivesUp(o) \/ OpenAborts(o)
    <3>1. UnderWay(o) /\ opening'[o] = None
      BY <2>0, <2>2 DEF OpenTakesOver, TakesOver, OpenGivesUp, OpenAborts, AtPhase, Ends, UnderWay
    <3>2. NoneOpening' /\ leaving = None
      BY <2>0, <3>1 DEF Engaged, Alone, NoneOpening, UnderWay
    <3> QED
      BY <2>0, <3>2 DEF Engaged, Alone, NoneOpening
  <2>3. CASE \/ OpenFlushed(o) \/ OpenFlushedPrevious(o) \/ OpenDecide(o) \/ OpenPrepare(o)
             \/ OpenReleasesTarget(o) \/ OpenReleasesPrevious(o) \/ OpenCannotRelease(o)
             \/ OpenClosed(o) \/ OpenCannotTakeOver(o)
    <3>1. UnderWay(o) /\ busy' = busy
      BY <2>3 DEF OpenFlushed, OpenFlushedPrevious, OpenDecide, OpenPrepare, OpenReleasesTarget,
         OpenReleasesPrevious, OpenCannotRelease, OpenClosed, OpenCannotTakeOver, TakesOver,
         AtPhase, UnderWay, screen
    <3>2. \A p \in Opens : UnderWay(p)' => UnderWay(p)
      BY <2>0, <3>1 DEF UnderWay
    <3> QED
      BY <2>0, <3>1, <3>2 DEF Engaged, Alone, NoneOpening
  <2> QED
    BY <1>2, <2>1, <2>2, <2>3 DEF OpeningStep
<1>3. CASE LeavingStep
  <2>1. opening' = opening
    BY <1>3, LanesLeft
  <2>2. NoneOpening
    BY <1>3 DEF LeavingStep, LeavesBetween, LeaveAgain, LeaveSaved, LeaveUnsaved, LeaveClosed,
       LeaveDone, LeaveSettled, Engaged
  <2> QED
    BY <2>1, <2>2 DEF Engaged, Alone, NoneOpening, UnderWay
<1>4. CASE EndStep
  BY <1>4 DEF EndStep, CrashSession, CloseAnyway, WindowGone, Engaged, Alone, NoneOpening, UnderWay
<1> QED
  BY <1>1, <1>2, <1>3, <1>4, StepKinds

\* One book at a time is being opened, as long as leavings and openings do not
\* overlap: the shelf's busy flag sees to that.
THEOREM OpeningsAreAlone == SessionSpec /\ [][LeavesBetween]_vars => []Alone
<1>1. InitSession => Engaged
  BY DEF InitSession, Engaged, Alone, UnderWay
<1>2. Linked /\ Engaged /\ [NextSession]_vars /\ [LeavesBetween]_vars => Engaged'
  <2>1. CASE UNCHANGED vars
    BY <2>1 DEF vars, screen, Engaged, Alone, NoneOpening, UnderWay
  <2> QED
    BY <2>1, EngagedStep
<1>3. Engaged => Alone
  BY DEF Engaged
<1> QED
  BY <1>1, <1>2, <1>3, Linking, PTL DEF SessionSpec

-----------------------------------------------------------------------------
\* What the store keeps

\* The position is in the store, or another device replaced the book's own one.
InStore(b, val) == superseded[b] \/ \E v \in versions[b] : v.val = val

\* A basis that nothing local overtook is in the store, if nothing remote did.
Based(l) ==
  session[l] # None =>
    /\ session[l].revision <= revision[BookOf[l]]
    /\ session[l].revision = revision[BookOf[l]] =>
         superseded[BookOf[l]] \/ session[l].observed \subseteq versions[BookOf[l]]

SameStore == versions' = versions /\ revision' = revision /\ superseded' = superseded

\* Only commits and merges change the store.
LEMMA StoreSteps ==
  ASSUME Linked, NextSession
  PROVE  \/ SameStore
         \/ session' = session /\ \E b \in Books : Merge(b)
         \/ session' = session /\ \E l \in Leases : Commit(l)
<1>1. CASE ReadingStep
  BY <1>1 DEF ReadingStep, WriteEnds, PageTurn, Timer, Restart, Hidden, HiddenFlushed, Shown,
     Merge, Commit, Answered, StaleBasis, Refused, RequestFails, ProjectionFails, SameStore,
     store, sessions
<1>2. ASSUME NEW o \in Opens, OpeningStep(o) PROVE SameStore
  BY <1>2 DEF OpeningStep, OpenBegin, OpenFlushed, OpenFlushedPrevious, OpenDecide, OpenPrepare,
     OpenReleasesTarget, OpenReleasesPrevious, OpenCannotRelease, OpenClosed, OpenTakesOver,
     OpenCannotTakeOver, OpenGivesUp, OpenAborts, SameStore, store
<1>3. CASE LeavingStep
  BY <1>3 DEF LeavingStep, LeaveBegin, LeaveAgain, LeaveSaved, LeaveUnsaved, LeaveClosed,
     LeaveDone, SameStore, store
<1>4. CASE EndStep
  BY <1>4 DEF EndStep, CrashSession, CloseAnyway, WindowGone, SameStore, store
<1> QED
  BY <1>1, <1>2, <1>3, <1>4, StepKinds

\* A merge keeps what is in the store, or says that it was replaced.
LEMMA MergeKeeps ==
  ASSUME SessionTypeOK, NEW a \in Books, Merge(a), NEW b \in Books
  PROVE  /\ revision' = revision
         /\ superseded[b] => superseded'[b]
         /\ superseded'[b] \/ versions[b] \subseteq versions'[b]
<1>1. revision' = revision
  BY DEF Merge
<1>2. superseded' = [superseded EXCEPT ![a] = @ \/ ~(versions[a] \subseteq versions'[a])]
  BY DEF Merge
<1>3. \E V : versions' = [versions EXCEPT ![a] = V]
  BY DEF Merge
<1>4. superseded \in [Books -> BOOLEAN] /\ versions \in [Books -> SUBSET Versions]
  BY DEF SessionTypeOK
<1>5. CASE a = b
  <2>1. superseded'[b] = (superseded[b] \/ ~(versions[b] \subseteq versions'[b]))
    BY <1>2, <1>4, <1>5
  <2> QED
    BY <1>1, <2>1
<1>6. CASE a # b
  <2>1. superseded'[b] = superseded[b]
    BY <1>2, <1>4, <1>6
  <2>2. versions'[b] = versions[b]
    BY <1>3, <1>4, <1>6
  <2> QED
    BY <1>1, <2>1, <2>2
<1> QED
  BY <1>5, <1>6

\* A commit that leaves a position as it is changes nothing, another one the
\* book of its lane.
LEMMA CommitChanges ==
  ASSUME SessionTypeOK, NEW l \in Leases, Commit(l), NEW b \in Books
  PROVE  \/ versions'[b] = versions[b] /\ revision'[b] = revision[b] /\ superseded'[b] = superseded[b]
         \/ /\ b = BookOf[l] /\ ~Unchanged(l)
            /\ versions'[b] = AfterWrite(l) /\ revision'[b] = revision[b] + 1
<1>1. /\ superseded \in [Books -> BOOLEAN] /\ versions \in [Books -> SUBSET Versions]
      /\ revision \in [Books -> 0 .. MaxWrites]
  BY DEF SessionTypeOK
<1>2. CASE Unchanged(l)
  BY <1>2 DEF Commit
<1>3. CASE ~Unchanged(l)
  <2>1. /\ versions' = [versions EXCEPT ![BookOf[l]] = AfterWrite(l)]
        /\ revision' = [revision EXCEPT ![BookOf[l]] = @ + 1]
        /\ superseded' = [superseded EXCEPT ![BookOf[l]] = FALSE]
    BY <1>3 DEF Commit
  <2> HIDE DEF SessionTypeOK
  <2> QED
    BY <1>1, <1>3, <2>1
<1> QED
  BY <1>2, <1>3

\* What a session observed is what the store had at the session's revision.
LEMMA BasedStep ==
  ASSUME Linked, \A l \in Leases : Based(l), [NextSession]_vars
  PROVE  \A l \in Leases : Based(l)'
<1> USE DEF Linked
<1>0. session \in [Leases -> Sessions \cup {None}] /\ revision \in [Books -> 0 .. MaxWrites]
  BY DEF SessionTypeOK
<1> SUFFICES ASSUME NEW k \in Leases, session'[k] # None PROVE Based(k)'
  BY DEF Based
<1> DEFINE b == BookOf[k]
<1>1. /\ b \in Books /\ revision[b] \in Nat
      /\ session[k] # None => session[k] \in Sessions /\ session[k].revision \in Nat /\ Based(k)
  BY <1>0, Parts, BoundsAssumption DEF Sessions
<1>2. CASE session' = session /\ \E a \in Books : Merge(a)
  <2>1. revision' = revision /\ (superseded[b] => superseded'[b])
        /\ (superseded'[b] \/ versions[b] \subseteq versions'[b])
    BY <1>1, <1>2, MergeKeeps
  <2> QED
    BY <1>1, <1>2, <2>1 DEF Based
<1>3. CASE session' = session /\ \E l \in Leases : Commit(l)
  <2>1. \/ versions'[b] = versions[b] /\ revision'[b] = revision[b] /\ superseded'[b] = superseded[b]
        \/ revision'[b] = revision[b] + 1
    BY <1>1, <1>3, CommitChanges
  <2> QED
    BY <1>1, <1>3, <2>1 DEF Based
<1>4. CASE SameStore
  <2>1. ASSUME session[k] # None, session'[k].revision = session[k].revision,
               session'[k].observed = session[k].observed
        PROVE  Based(k)'
    BY <1>1, <1>4, <2>1 DEF Based, SameStore
  <2>2. ASSUME session'[k].revision = revision[b], session'[k].observed \subseteq versions[b]
        PROVE  Based(k)'
    BY <1>1, <1>4, <2>2 DEF Based, SameStore
  <2>3. CASE session'[k] = session[k]
    BY <2>1, <2>3
  <2>4. ASSUME NEW shown, session'[k] = Adopted(b, shown) PROVE Based(k)'
    BY <2>2, <2>4 DEF Adopted, Observed
  <2>5. ASSUME session[k] # None, session'[k] = Rebound(k) PROVE Based(k)'
    <3>1. CASE session'[k] = [session[k] EXCEPT !.invalid = TRUE]
      <4>1. [session[k] EXCEPT !.invalid = TRUE].revision = session[k].revision
            /\ [session[k] EXCEPT !.invalid = TRUE].observed = session[k].observed
        BY <1>1, <2>5 DEF Sessions
      <4> QED
        BY <2>1, <2>5, <3>1, <4>1
    <3>2. CASE session'[k] = Again(k, session[k].shown)
      <4>1. Again(k, session[k].shown).revision = revision[b]
            /\ Again(k, session[k].shown).observed = Observed(b, session[k].shown)
        BY DEF Again, Adopted
      <4> QED
        BY <2>2, <3>2, <4>1 DEF Observed
    <3> QED
      BY <2>5, <3>1, <3>2 DEF Rebound
  <2>6. ASSUME session[k] # None, session'[k] = Continued(k) PROVE Based(k)'
    <3> DEFINE own == {v \in versions[b] : v.by = "own" /\ v.n = revision[b]}
               N == [session[k] EXCEPT !.observed = own, !.revision = revision[b],
                                       !.shown = [by |-> "own", n |-> revision[b]]]
    <3>1. N.observed = own /\ N.revision = revision[b]
      BY <1>1, <2>6 DEF Sessions
    <3>2. session'[k] \in {session[k], N}
      BY <2>6 DEF Continued
    <3> HIDE DEF N
    <3> QED
      BY <2>2, <2>3, <3>1, <3>2
  <2>7. ASSUME NEW l \in Leases, CloseBegins(l) PROVE Based(k)'
    <3>1. CASE session'[k] = [session[k] EXCEPT !.closing = TRUE] /\ session[k] # None
      <4>1. [session[k] EXCEPT !.closing = TRUE].revision = session[k].revision
            /\ [session[k] EXCEPT !.closing = TRUE].observed = session[k].observed
        BY <1>1, <3>1 DEF Sessions
      <4> QED
        BY <2>1, <3>1, <4>1
    <3> QED
      BY <1>0, <2>3, <2>7, <3>1 DEF CloseBegins
  <2>8. session' = session \/ SessionStep
    BY SessionSteps DEF vars, sessions
  <2>9. ASSUME NEW l \in Leases,
               \/ session[l] # None /\ session' = [session EXCEPT ![l] = Rebound(l)]
               \/ session[l] # None /\ session' = [session EXCEPT ![l] = Continued(l)]
               \/ \E shown \in VersionStamps \cup {None} :
                    session' = [session EXCEPT ![l] = Adopted(BookOf[l], shown)]
               \/ CloseBegins(l)
               \/ session' = [session EXCEPT ![l] = None]
        PROVE  Based(k)'
    <3>1. CASE l # k
      BY <1>0, <2>3, <2>7, <2>9, <3>1
    <3>2. CASE l = k
      BY <1>0, <2>4, <2>5, <2>6, <2>7, <2>9, <3>2
    <3> QED
      BY <3>1, <3>2
  <2> QED
    BY <2>3, <2>8, <2>9 DEF SessionStep
<1>5. CASE UNCHANGED vars
  BY <1>1, <1>5 DEF vars, store, sessions, Based
<1> QED
  BY <1>2, <1>3, <1>4, <1>5, StoreSteps

\* The sample that a commit delivers is in the store after it.
LEMMA CommitStores ==
  ASSUME Linked, \A l \in Leases : Based(l), NEW l \in Leases, Commit(l)
  PROVE  /\ InStore(BookOf[l], Sample(l).val)'
         /\ stored'[BookOf[l]].at = Sample(l).at /\ stored'[BookOf[l]].val = Sample(l).val
<1> USE DEF Linked
<1> DEFINE b == BookOf[l]
           s == session[l]
<1>0. /\ b \in Books /\ s # None /\ s.revision = revision[b] /\ Based(l)
      /\ versions \in [Books -> SUBSET Versions] /\ superseded \in [Books -> BOOLEAN]
  BY Parts DEF Commit, Live, Current, SessionTypeOK
<1>1. stored'[b].at = Sample(l).at /\ stored'[b].val = Sample(l).val
  BY <1>0 DEF Commit, Deliver, Sample, Sound, TypeOK
<1>2. lane'[l].flight.sample = Sample(l)
  <2>1. lane[l] \in Lanes /\ lane[l].flight \in Flights
    BY DEF Commit, Sending, Sound, TypeOK, Lanes
  <2>2. lane'[l] = [lane[l] EXCEPT !.flight.stage = "stored"]
    BY DEF Commit, Deliver, Sound, TypeOK
  <2> QED
    BY <2>1, <2>2 DEF Sample, Lanes, Flights
<1>3. InStore(b, Sample(l).val)'
  <2>1. CASE Unchanged(l)
    <3>1. PICK v \in s.observed : s.observed = {v} /\ v.val = Sample(l).val
      BY <2>1 DEF Unchanged
    <3>2. superseded[b] \/ v \in versions[b]
      BY <1>0, <3>1 DEF Based
    <3>3. versions'[b] = versions[b] /\ superseded'[b] = superseded[b]
      BY <2>1 DEF Commit
    <3> QED
      BY <1>2, <3>1, <3>2, <3>3 DEF InStore, Sample
  <2>2. CASE ~Unchanged(l)
    <3>1. versions'[b] = AfterWrite(l)
      BY <1>0, <2>2 DEF Commit
    <3>2. Written(l) \in versions'[b] /\ Written(l).val = Sample(l).val
      BY <3>1 DEF AfterWrite, Written
    <3> QED
      BY <1>2, <3>2 DEF InStore, Sample
  <2> QED
    BY <2>1, <2>2
<1> QED
  BY <1>1, <1>3

\* What is in the store stays there, unless a commit of the book replaces it.
LEMMA StoreKeeps ==
  ASSUME Linked, [NextSession]_vars, NEW b \in Books, NEW val, InStore(b, val),
         ~\E l \in Leases : BookOf[l] = b /\ Commit(l)
  PROVE  superseded'[b] \/ \E v \in versions'[b] : v.val = val
<1>1. CASE SameStore \/ UNCHANGED vars
  BY <1>1 DEF SameStore, vars, store, InStore
<1>2. CASE \E a \in Books : Merge(a)
  <2>1. (superseded[b] => superseded'[b]) /\ (superseded'[b] \/ versions[b] \subseteq versions'[b])
    BY <1>2, MergeKeeps DEF Linked
  <2> QED
    BY <2>1 DEF InStore
<1>3. CASE \E l \in Leases : Commit(l)
  <2>1. versions'[b] = versions[b] /\ superseded'[b] = superseded[b]
    BY <1>3, CommitChanges DEF Linked
  <2> QED
    BY <2>1 DEF InStore
<1> QED
  BY <1>1, <1>2, <1>3, StoreSteps

-----------------------------------------------------------------------------
\* What a step leaves of the recovery records and of the lanes' last samples

RecordKept(b) ==
  /\ made <= made'
  /\ \/ checkpoint'[b] \in {checkpoint[b], None}
     \/ checkpoint'[b].id = made + 1

LEMMA StageRecords ==
  ASSUME Sound, NEW a \in Books, NEW shown, NEW val, Stage(a, shown, val), NEW b \in Books
  PROVE  RecordKept(b)
<1>1. made \in Nat /\ checkpoint \in [Books -> Checkpoints \cup {None}]
  BY DEF Sound, TypeOK
<1>2. made' \in {made, made + 1}
  BY DEF Stage
<1>3. Staged(a, shown, val) = checkpoint[a] \/ Staged(a, shown, val).id = made + 1
  BY DEF Staged
<1>4. checkpoint'[b] = IF b = a THEN Staged(a, shown, val) ELSE checkpoint[b]
  BY <1>1 DEF Stage
<1> QED
  BY <1>1, <1>2, <1>3, <1>4 DEF RecordKept

\* A record is kept or goes, or it is new and no earlier decision knows its id.
LEMMA RecordSteps ==
  ASSUME Sound, [Next]_writerVars, NEW b \in Books
  PROVE  RecordKept(b)
<1>0. /\ made \in Nat /\ checkpoint \in [Books -> Checkpoints \cup {None}]
      /\ \A l \in Leases : BookOf[l] \in Books
  BY BookOfAssumption DEF Sound, TypeOK
<1>1. CASE UNCHANGED records
  BY <1>0, <1>1 DEF records, RecordKept
<1>2. ASSUME NEW l \in Leases, Confirm(l) \/ \E id \in 1 .. made : OpenSaved(l, id)
      PROVE  RecordKept(b)
  <2>1. made' = made
    BY <1>2 DEF Confirm, OpenSaved
  <2>2. \/ checkpoint' = checkpoint
        \/ checkpoint' = [checkpoint EXCEPT ![BookOf[l]] = None]
    BY <1>0, <1>2 DEF Confirm, OpenSaved, Acknowledged
  <2> QED
    BY <1>0, <2>1, <2>2 DEF RecordKept
<1>3. ASSUME NEW l \in Leases, NEW shown \in Stamps, Handoff(l, shown) \/ CloseUnsaved(l, shown)
      PROVE  RecordKept(b)
  BY <1>0, <1>1, <1>3, StageRecords DEF Handoff, CloseUnsaved, Retain
<1>4. ASSUME NEW l \in Leases, NEW shown \in Stamps, NEW val \in Positions,
             Accept(l, shown, val) \/ OpenRestoring(l, shown, val)
      PROVE  RecordKept(b)
  BY <1>0, <1>4, StageRecords DEF Accept, OpenRestoring
<1>5. ASSUME NEW a \in Books, NEW shown \in Stamps, NEW val \in Positions, StageOnly(a, shown, val)
      PROVE  RecordKept(b)
  BY <1>5, StageRecords DEF StageOnly
<1>6. CASE \/ Crash \/ UNCHANGED writerVars
           \/ \E c \in Callers : Collect(c) \/ \E l \in Leases : Flush(c, l)
           \/ \E l \in Leases : TimerFires(l) \/ Deliver(l) \/ Reject(l) \/ Retire(l) \/ Open(l)
  BY <1>1, <1>6 DEF Crash, Collect, Flush, TimerFires, Deliver, Reject, Retire, Open, records,
     writerVars
<1> QED
  BY <1>2, <1>3, <1>4, <1>5, <1>6 DEF Next

\* While the lane is the book's, its last position has not arrived.
Ahead(l) == held[BookOf[l]] = l => stored[BookOf[l]].at < lane[l].sequence

LEMMA AheadStep ==
  ASSUME Sound, [Next]_writerVars, NEW l \in Leases, Ahead(l),
         stored'[BookOf[l]] = stored[BookOf[l]], held[BookOf[l]] = l \/ held'[BookOf[l]] # l
  PROVE  Ahead(l)'
<1> DEFINE b == BookOf[l]
<1> SUFFICES ASSUME held[b] = l, held'[b] = l PROVE stored'[b].at < lane'[l].sequence
  BY DEF Ahead
<1>0. /\ b \in Books /\ \A k \in Leases : BookOf[k] \in Books
      /\ lane \in [Leases -> Lanes \cup {None}] /\ held \in [Books -> Leases \cup {None}]
      /\ turn \in [Books -> Nat] /\ stored \in [Books -> [at : Nat, val : Positions \cup {None}]]
      /\ l # None
  BY BookOfAssumption, NoneAssumption DEF Sound, TypeOK
<1>1. /\ lane[l] # None /\ lane[l] \in Lanes /\ stored[b].at < lane[l].sequence
      /\ stored[b].at <= turn[b] /\ stored[b].at \in Nat /\ lane[l].sequence \in Nat
      /\ turn[b] \in Nat
  BY <1>0 DEF Ahead, Sound, Mapped, BookSound, Lanes
<1>2. ASSUME lane'[l] = lane[l], stored'[b] = stored[b] PROVE stored'[b].at < lane'[l].sequence
  BY <1>1, <1>2
<1>3. ASSUME NEW k \in Leases, NEW N, lane' = [lane EXCEPT ![k] = N],
             N.sequence = lane[k].sequence, stored' = stored
      PROVE  stored'[b].at < lane'[l].sequence
  BY <1>0, <1>1, <1>3
<1>4. ASSUME NEW k \in Leases, TimerFires(k) PROVE stored'[b].at < lane'[l].sequence
  <2> DEFINE M == [lane[k] EXCEPT !.timer = FALSE]
  <2>1. lane[k] \in Lanes /\ lane' = [lane EXCEPT ![k] = Start(M)] /\ stored' = stored
    BY <1>0, <1>4 DEF TimerFires, history
  <2>2. M \in Lanes /\ M.sequence = lane[k].sequence
    BY <2>1 DEF Lanes
  <2> HIDE DEF M
  <2> QED
    BY <1>3, <2>1, <2>2, SequenceKept
<1>5. ASSUME NEW k \in Leases, Deliver(k) PROVE stored'[b].at < lane'[l].sequence
  <2>1. lane' = [lane EXCEPT ![k].flight.stage = "stored"]
    BY <1>5 DEF Deliver
  <2>2. CASE k # l
    BY <1>0, <1>2, <2>1, <2>2
  <2>3. CASE k = l
    <3>1. lane'[l] = [lane[l] EXCEPT !.flight.stage = "stored"]
      BY <1>0, <2>1, <2>3
    <3>2. lane'[l].sequence = lane[l].sequence
      BY <1>1, <3>1 DEF Lanes
    <3> QED
      BY <1>1, <3>2
  <2> QED
    BY <2>2, <2>3
<1>6. ASSUME NEW k \in Leases, Confirm(k) \/ Reject(k) PROVE stored'[b].at < lane'[l].sequence
  <2>1. lane[k] # None /\ lane[k].flight # None /\ lane[k] \in Lanes /\ stored' = stored
    BY <1>0, <1>6 DEF Confirm, Reject, history
  <2>2. /\ AfterSuccess(lane[k]) \in Lanes /\ AfterSuccess(lane[k]).sequence = lane[k].sequence
        /\ AfterFailure(lane[k]) \in Lanes /\ AfterFailure(lane[k]).sequence = lane[k].sequence
    BY <2>1 DEF AfterSuccess, AfterFailure, Lanes, Flights
  <2>3. PICK E \in Lanes : EndFlight(k, E) /\ E.sequence = lane[k].sequence
    BY <1>6, <2>2 DEF Confirm, Reject
  <2>4. \E N \in Lanes : lane' = [lane EXCEPT ![k] = N] /\ N.sequence = E.sequence
    BY <2>3, EndFlightReplaces
  <2> QED
    BY <1>3, <2>1, <2>3, <2>4
<1>7. ASSUME NEW c \in Callers, NEW k \in Leases, Flush(c, k)
      PROVE  stored'[b].at < lane'[l].sequence
  <2> DEFINE M == [lane[k] EXCEPT !.timer = FALSE]
  <2>1. stored' = stored /\ lane[k] # None
    BY <1>7 DEF Flush, history, Sound, Mapped
  <2>2. lane[k] \in Lanes /\ M \in Lanes /\ M.sequence = lane[k].sequence
    BY <1>0, <2>1 DEF Lanes
  <2>3. lane' = [lane EXCEPT ![k] = M] \/ lane' = [lane EXCEPT ![k] = Revived(M)]
    BY <1>7 DEF Flush
  <2> HIDE DEF M
  <2> QED
    BY <1>3, <2>1, <2>2, <2>3, SequenceKept
<1>8. ASSUME NEW k \in Leases, held[BookOf[k]] = k, Drop(k), stored' = stored
      PROVE  stored'[b].at < lane'[l].sequence
  <2>1. BookOf[k] # b
    BY <1>0, <1>8 DEF Drop
  <2> QED
    BY <1>0, <1>2, <1>8, <2>1 DEF Drop
<1>9. ASSUME NEW k \in Leases, NEW N, Register(k, N) PROVE BookOf[k] # b /\ lane'[l] = lane[l]
  BY <1>0, <1>9 DEF Register
<1>10. ASSUME NEW k \in Leases, NEW shown \in Stamps, NEW val \in Positions, Accept(k, shown, val)
       PROVE  stored'[b].at < lane'[l].sequence
  <2> DEFINE s == [at |-> turn'[BookOf[k]], id |-> Staged(BookOf[k], shown, val).id, val |-> val]
  <2>1. /\ held[BookOf[k]] = k /\ stored' = stored /\ lane' = [lane EXCEPT ![k] = Queued(lane[k], s)]
        /\ turn' = [turn EXCEPT ![BookOf[k]] = @ + 1]
    BY <1>10 DEF Accept, Recorded
  <2>2. CASE k # l
    BY <1>0, <1>2, <2>1, <2>2
  <2>3. CASE k = l
    <3>1. s.at = turn[b] + 1
      BY <1>0, <2>1, <2>3
    <3> HIDE DEF s
    <3>2. lane'[l] = Queued(lane[l], s)
      BY <1>0, <2>1, <2>3
    <3>3. Queued(lane[l], s).sequence = s.at
      BY <1>1 DEF Queued, Schedule, Start, Lanes
    <3> QED
      BY <1>1, <2>1, <3>1, <3>2, <3>3
  <2> QED
    BY <2>2, <2>3
<1>11. ASSUME NEW k \in Leases,
              \/ Open(k) \/ \E id \in 1 .. made : OpenSaved(k, id)
              \/ \E shown \in Stamps, val \in Positions : OpenRestoring(k, shown, val)
       PROVE  stored'[b].at < lane'[l].sequence
  <2>1. BookOf[k] # b /\ lane'[l] = lane[l]
    BY <1>9, <1>11 DEF Open, OpenSaved, OpenRestoring
  <2>2. stored'[b] = stored[b]
    BY <1>0, <1>11, <2>1 DEF Open, OpenSaved, OpenRestoring, Recorded, history
  <2> QED
    BY <1>2, <2>1, <2>2
<1>12. CASE \E k \in Leases : Retire(k) \/ \E shown \in Stamps : Handoff(k, shown)
  BY <1>8, <1>12 DEF Retire, MayRetire, Handoff, MayHandOff, history
<1>13. CASE \/ UNCHANGED writerVars
            \/ \E c \in Callers : Collect(c)
            \/ \E a \in Books, shown \in Stamps, val \in Positions : StageOnly(a, shown, val)
  BY <1>2, <1>13 DEF Collect, StageOnly, Recorded, history, writer, writerVars
<1>14. CASE Vanish
  BY <1>0, <1>14 DEF Vanish
<1> QED
  BY <1>4, <1>5, <1>6, <1>7, <1>10, <1>11, <1>12, <1>13, <1>14 DEF Next, Crash, CloseUnsaved

-----------------------------------------------------------------------------
\* A record that an opening will acknowledge

\* The flushed lane of the book is still the opening's to release.
Waits(o) ==
  opening[o].saved # "none" /\ opening[o].phase \in {"flushPrevious", "prepare", "publish"}

\* The lane took another position since, so that it will not be released.
Undelivered(o) == Waits(o) /\ \A l \in Leases : opening[o].target = l => Ahead(l)

Backed(o, b) == InStore(b, checkpoint[b].val) \/ Undelivered(o)

\* What an opening decided to acknowledge is in the store, or the opening fails.
Acknowledges(o) ==
  LET ack == opening[o].decision.ack
  IN  UnderWay(o) /\ ack # 0 =>
        /\ ack <= made
        /\ ~opening[o].decision.explicit /\ opening[o].saved # "failed"
        /\ opening[o].phase \notin {"flush", "read"}
        /\ \A b \in Books :
             /\ opening[o].book = b /\ opening[o].phase # "abort"
             /\ checkpoint[b] # None /\ checkpoint[b].id = ack
             => Backed(o, b)

LEMMA DecisionBacked ==
  ASSUME Sound, SessionTypeOK, NEW b \in Books, NEW d \in Decisions(b), d.ack # 0
  PROVE  /\ checkpoint[b] # None /\ d.ack = checkpoint[b].id /\ d.explicit = FALSE
         /\ InStore(b, checkpoint[b].val)
<1> DEFINE V == versions[b]
           c == checkpoint[b]
           one == \E v \in V : V = {v}
<1>1. NoDecision \in Choices /\ NoDecision.ack = 0 /\ NoDecision.explicit = FALSE
  BY DEF NoDecision, Choices
<1>2. ASSUME \/ \E e \in BOOLEAN : d = [NoDecision EXCEPT !.explicit = e]
             \/ \E v \in V, e \in BOOLEAN : d = [NoDecision EXCEPT !.sel = v, !.explicit = e]
             \/ \E e \in BOOLEAN : d = [NoDecision EXCEPT !.restore = c.val, !.explicit = e]
             \/ \E v \in V, e \in BOOLEAN :
                  d = [NoDecision EXCEPT !.sel = v, !.restore = c.val, !.explicit = e]
      PROVE  FALSE
  BY <1>1, <1>2 DEF Choices
<1>3. one \in BOOLEAN
  OBVIOUS
<1>4. c # None /\ one /\ \E v \in V : v.val = c.val
  BY <1>2, <1>3 DEF Decisions
<1>5. PICK v \in V : d = [NoDecision EXCEPT !.sel = v, !.ack = c.id]
  BY <1>4 DEF Decisions
<1>6. d.ack = c.id /\ d.explicit = FALSE
  BY <1>1, <1>5 DEF Choices
<1>7. InStore(b, c.val)
  BY <1>4 DEF InStore
<1> QED
  BY <1>4, <1>6, <1>7

\* The decision of an opening is backed when it is made.
LEMMA DecideAcknowledges ==
  ASSUME Linked, NEW o \in Opens, OpenDecide(o)
  PROVE  Acknowledges(o)'
<1> USE DEF Linked
<1> DEFINE r == opening[o]
<1>1. UnderWay(o) /\ r \in Openings /\ r.book \in Books /\ r.saved \in {"none", "saved", "failed"}
  BY OpeningParts DEF OpenDecide, AtPhase, UnderWay, Openings
<1>2. PICK b \in Books : b = r.book
  BY <1>1
<1>3. PICK d \in Decisions(b) :
        /\ r.saved = "failed" => d.explicit
        /\ Goes(o, [opening[o] EXCEPT
             !.phase = IF FlushesPrevious(o) THEN "flushPrevious" ELSE "prepare",
             !.decision = d, !.turn = turn[opening[o].book]])
  BY <1>2 DEF OpenDecide
<1>4. /\ opening'[o].book = b /\ opening'[o].decision = d /\ opening'[o].saved = r.saved
      /\ opening'[o].phase \in {"flushPrevious", "prepare"}
  BY <1>1, <1>2, <1>3 DEF Goes, SessionTypeOK, Openings
<1>5. versions' = versions /\ superseded' = superseded /\ checkpoint' = checkpoint /\ made' = made
  BY DEF OpenDecide, Flush, store, writerVars, records
<1>6. ASSUME d.ack # 0
      PROVE  /\ checkpoint[b] # None /\ d.ack = checkpoint[b].id /\ d.explicit = FALSE
             /\ InStore(b, checkpoint[b].val)
  BY <1>6, DecisionBacked
<1>7. checkpoint[b] # None => checkpoint[b].id <= made
  BY DEF Sound, BookSound
<1>8. InStore(b, checkpoint[b].val) => Backed(o, b)'
  BY <1>5 DEF InStore, Backed
<1>9. \A a \in Books : opening'[o].book = a => a = b
  BY <1>4
<1> QED
  BY <1>3, <1>4, <1>5, <1>6, <1>7, <1>8, <1>9 DEF Acknowledges

\* A commit delivers the position of the record, or leaves the lane ahead.
LEMMA CommitBacks ==
  ASSUME Linked, \A l \in Leases : Based(l), NEW l \in Leases, Commit(l),
         NEW o \in Opens, UnderWay(o), Laneless(o), NEW b \in Books,
         opening[o].book = b, BookOf[l] = b, opening[o].phase \notin {"flush", "read", "abort"},
         checkpoint[b] # None
  PROVE  Backed(o, b)'
<1> USE DEF Linked
<1> DEFINE L == lane[l]
<1>0. /\ L # None /\ L \in Lanes /\ L.flight # None /\ L.flight \in Flights /\ held[b] = l
      /\ L.sequence \in Nat /\ L.flight.sample.at \in Nat /\ l # None
  BY NoneAssumption DEF Commit, Sending, Sound, TypeOK, Mapped, Lanes, Flights, Samples
<1>1. opening' = opening /\ checkpoint' = checkpoint /\ held' = held
  BY DEF Commit, Deliver, records
<1>2. Waits(o)
  <2>1. opening[o] \in Openings
    BY OpeningParts
  <2>2. ~LaneFree(opening[o])
    BY <1>0 DEF Laneless
  <2> QED
    BY <2>1, <2>2 DEF LaneFree, Waits, Openings
<1>3. LaneSound(L, turn[b], position[b], stored[b], checkpoint[b], made) /\ BookSound(b)
      /\ turn[b] \in Nat
  BY <1>0 DEF Sound, LaneOfBook, TypeOK
<1>4. CASE L.pending = None
  <2>1. Sample(l).val = checkpoint[b].val
    BY <1>0, <1>3, <1>4 DEF LaneSound, FlightSound, Last, BookSound, Sample
  <2>2. InStore(b, Sample(l).val)'
    BY CommitStores
  <2>3. Sample(l)' = Sample(l)
    <3>1. lane'[l] = [lane[l] EXCEPT !.flight.stage = "stored"]
      BY DEF Commit, Deliver, Sound, TypeOK
    <3> QED
      BY <1>0, <3>1 DEF Sample, Lanes, Flights
  <2> QED
    BY <1>1, <2>1, <2>2, <2>3 DEF InStore, Backed
<1>5. CASE L.pending # None
  <2>1. L.flight.sample.at < L.sequence
    BY <1>0, <1>3, <1>5 DEF LaneSound, FlightSound, Last
  <2>2. stored'[b].at = L.flight.sample.at
    BY CommitStores DEF Sample
  <2>3. lane'[l].sequence = L.sequence
    <3>1. lane'[l] = [lane[l] EXCEPT !.flight.stage = "stored"]
      BY DEF Commit, Deliver, Sound, TypeOK
    <3> QED
      BY <1>0, <3>1 DEF Lanes
  <2>4. Ahead(l)'
    BY <2>1, <2>2, <2>3 DEF Ahead
  <2>5. ASSUME NEW k \in Leases, opening[o].target = k PROVE Ahead(k)'
    <3>1. BookOf[k] = b
      BY <2>5, NoneAssumption, OpeningParts DEF Shaped
    <3> QED
      BY <1>0, <1>1, <2>4, <3>1 DEF Ahead
  <2> QED
    BY <1>1, <1>2, <2>5 DEF Backed, Undelivered, Waits
<1> QED
  BY <1>4, <1>5

\* The store's last position changes with commits, and with openings that
\* acknowledge a record.
LEMMA StoredSteps ==
  ASSUME Linked, NextSession, NEW b \in Books
  PROVE  \/ stored'[b] = stored[b]
         \/ \E l \in Leases : BookOf[l] = b /\ Commit(l)
         \/ \E o \in Opens : /\ OpenTakesOver(o) /\ opening[o].book = b
                             /\ opening[o].decision.ack # 0
                             /\ OpenSaved(opening[o].lease, opening[o].decision.ack)
<1> USE DEF Linked
<1>0. stored \in [Books -> [at : Nat, val : Positions \cup {None}]]
  BY DEF Sound, TypeOK
<1>1. CASE ReadingStep
  <2>1. ASSUME NEW l \in Leases, Commit(l)
        PROVE  stored'[b] = stored[b] \/ BookOf[l] = b
    BY <1>0, <2>1 DEF Commit, Deliver
  <2>2. CASE PageTurn
    BY <2>2 DEF PageTurn, Accept, StageOnly, Recorded
  <2>3. CASE ReadingStep /\ ~PageTurn /\ ~\E l \in Leases : Commit(l)
    BY <2>3 DEF ReadingStep, WriteEnds, Timer, TimerFires, Restart, Hidden, Flush, HiddenFlushed,
       Collect, Shown, Merge, Answered, Confirm, StaleBasis, Refused, RequestFails, Reject,
       ProjectionFails, writerVars, history
  <2> QED
    BY <1>1, <2>1, <2>2, <2>3
<1>2. ASSUME NEW o \in Opens, OpeningStep(o)
      PROVE  \/ stored'[b] = stored[b]
             \/ /\ OpenTakesOver(o) /\ opening[o].book = b /\ opening[o].decision.ack # 0
                /\ OpenSaved(opening[o].lease, opening[o].decision.ack)
  <2>1. CASE OpenTakesOver(o)
    <3> DEFINE l == opening[o].lease
    <3>1. UnderWay(o) /\ opening[o].phase \in {"takeOver", "publish"}
      BY <2>1 DEF OpenTakesOver, TakesOver, AtPhase, UnderWay
    <3>2. l \in Leases /\ BookOf[l] = opening[o].book
      BY <3>1, OpeningParts DEF Shaped, Links, Candidate
    <3>3. CASE Open(l) \/ OpenRestoring(l, session[l].shown, opening[o].decision.restore)
      BY <3>3 DEF Open, OpenRestoring, Recorded, history
    <3>4. CASE opening[o].decision.ack # 0 /\ OpenSaved(l, opening[o].decision.ack)
      <4>1. stored'[b] = stored[b] \/ BookOf[l] = b
        BY <1>0, <3>4 DEF OpenSaved
      <4> QED
        BY <2>1, <3>2, <3>4, <4>1
    <3> QED
      BY <2>1, <3>3, <3>4 DEF OpenTakesOver
  <2>2. CASE OpeningStep(o) /\ ~OpenTakesOver(o)
    BY <2>2 DEF OpeningStep, OpenBegin, OpenFlushed, OpenFlushedPrevious, OpenDecide, OpenPrepare,
       OpenReleasesTarget, OpenReleasesPrevious, OpenCannotRelease, OpenClosed,
       OpenCannotTakeOver, OpenGivesUp, OpenAborts, Flush, Collect, Retire, Handoff, writerVars,
       history
  <2> QED
    BY <1>2, <2>1, <2>2
<1>3. CASE LeavingStep
  BY <1>3 DEF LeavingStep, LeaveBegin, LeaveAgain, LeaveSaved, LeaveUnsaved, LeaveClosed,
     LeaveDone, Flush, Collect, Retire, Handoff, writerVars, history
<1>4. CASE EndStep
  BY <1>4 DEF EndStep, CrashSession, CloseAnyway, Crash, CloseUnsaved, history
<1> QED
  BY <1>1, <1>2, <1>3, <1>4, StepKinds

\* What goes on from a decision that acknowledges a record.
Pursues(o) ==
  /\ opening'[o].book = opening[o].book /\ opening'[o].target = opening[o].target
  /\ opening'[o].saved = opening[o].saved /\ opening'[o].decision = opening[o].decision
  /\ opening'[o].phase \notin {"flush", "read"}
  /\ opening'[o].phase # "abort" => opening[o].phase # "abort"
  /\ \/ Waits(o) /\ opening'[o].phase # "abort" => Waits(o)'
     \/ OpenReleasesTarget(o)
  /\ \A b \in Books : held'[b] \in {held[b], None}

LEMMA PursuesStep ==
  ASSUME Linked, Alone, Alone', NextSession, NEW o \in Opens, UnderWay(o), UnderWay(o)',
         opening[o].phase \notin {"flush", "read"}
  PROVE  Pursues(o)
<1>1. CASE ReadingStep \/ LeavingStep
  <2>1. opening' = opening /\ \A b \in Books : held'[b] \in {held[b], None}
    BY <1>1, LanesLeft
  <2> QED
    BY <2>1 DEF Pursues, Waits
<1>2. CASE EndStep
  BY <1>2 DEF EndStep, CrashSession, CloseAnyway, WindowGone, UnderWay
<1>3. CASE OpeningStep(o)
  <2>1. \A b \in Books : held'[b] \in {held[b], None}
    BY <1>3, LanesLeft
  <2>2. PhaseStep(o)
    BY <1>3, OpeningPhases
  <2> QED
    BY <2>1, <2>2 DEF PhaseStep, Pursues, Waits
<1>4. ASSUME NEW p \in Opens, OpeningStep(p) PROVE OpeningStep(o)
  BY <1>4, OwnStep
<1> QED
  BY <1>1, <1>2, <1>3, <1>4, StepKinds

LEMMA AcknowledgesStep ==
  ASSUME Linked, Alone, Alone', \A l \in Leases : Based(l), \A o \in Opens : Laneless(o),
         \A o \in Opens : Acknowledges(o), NextSession, NEW o \in Opens
  PROVE  Acknowledges(o)'
<1> USE DEF Linked
<1> SUFFICES ASSUME UnderWay(o)', opening'[o].decision.ack # 0 PROVE Acknowledges(o)'
  BY DEF Acknowledges
<1> DEFINE r == opening[o]
           ack == r.decision.ack
<1>0. [Next]_writerVars
  BY SessionsWrite
<1>1. CASE OpenDecide(o)
  BY <1>1, DecideAcknowledges
<1>2. CASE NoChoice(o)
  BY <1>2 DEF NoChoice, NoDecision
<1>3. CASE SameChoice(o)
  <2>1. /\ UnderWay(o) /\ ack # 0 /\ opening'[o].decision.ack = ack
        /\ ack <= made /\ ~r.decision.explicit /\ r.saved # "failed"
        /\ r.phase \notin {"flush", "read"}
    BY <1>3 DEF SameChoice, Acknowledges
  <2>2. Pursues(o)
    BY <2>1, PursuesStep
  <2>3. made \in Nat /\ r \in Openings /\ ack \in Nat /\ r.decision \in Choices
    BY <2>1, OpeningParts DEF Sound, TypeOK, Openings, Choices
  <2>4. ASSUME NEW b \in Books, opening'[o].book = b, opening'[o].phase # "abort",
               checkpoint'[b] # None, checkpoint'[b].id = ack
        PROVE  Backed(o, b)'
    <3>1. r.book = b /\ r.phase # "abort" /\ RecordKept(b)
      BY <1>0, <2>2, <2>4, RecordSteps DEF Pursues
    <3>2. checkpoint'[b] = checkpoint[b]
      BY <2>1, <2>3, <2>4, <3>1 DEF RecordKept
    <3>3. checkpoint[b] # None /\ Backed(o, b)
      BY <2>1, <2>4, <3>1, <3>2 DEF Acknowledges
    <3>4. ASSUME NEW l \in Leases, BookOf[l] = b, Commit(l) PROVE Backed(o, b)'
      BY <2>1, <3>1, <3>3, <3>4, CommitBacks
    <3>5. CASE InStore(b, checkpoint[b].val) /\ ~\E l \in Leases : BookOf[l] = b /\ Commit(l)
      <4> DEFINE val == checkpoint[b].val
      <4>1. superseded'[b] \/ \E v \in versions'[b] : v.val = val
        <5> HIDE DEF val
        <5> QED
          BY <3>5, StoreKeeps DEF val
      <4> QED
        BY <3>2, <4>1 DEF Backed, InStore
    <3>6. CASE Undelivered(o) /\ ~\E l \in Leases : BookOf[l] = b /\ Commit(l)
      <4>1. \A l \in Leases : r.target = l => BookOf[l] = b /\ l # None
        BY <2>1, <3>1, NoneAssumption, OpeningParts DEF Shaped
      <4>2. ~OpenReleasesTarget(o)
        <5> SUFFICES ASSUME OpenReleasesTarget(o) PROVE FALSE
          OBVIOUS
        <5>1. r.saved = "saved"
          BY <2>1, <2>3 DEF OpenReleasesTarget, Openings
        <5>2. PICK l \in Leases : l = r.target
          BY <2>1, <5>1, OpeningParts DEF Shaped
        <5>3. MayRetire(l)
          BY <5>1, <5>2 DEF OpenReleasesTarget, Retire
        <5>4. lane[l] # None /\ lane[l].sequence <= stored[BookOf[l]].at
              /\ lane[l].sequence \in Nat /\ stored[BookOf[l]].at \in Nat
          BY <5>3, Parts DEF MayRetire, Sound, TypeOK, Mapped, LaneOfBook, LaneSound, Lanes
        <5>5. stored[BookOf[l]].at < lane[l].sequence
          BY <3>6, <5>2, <5>3 DEF Undelivered, Ahead, MayRetire
        <5> QED
          BY <5>4, <5>5
      <4>3. Waits(o)' /\ opening'[o].target = r.target
        BY <2>2, <2>4, <3>6, <4>2 DEF Pursues, Undelivered
      <4>4. stored'[b] = stored[b]
        <5>1. ASSUME NEW p \in Opens, OpenTakesOver(p) PROVE FALSE
          <6>1. OpeningStep(p)
            BY <5>1 DEF OpeningStep
          <6>2. p = o
            BY <6>1, OwnStep
          <6> QED
            BY <5>1, <6>2 DEF OpenTakesOver, Ends, UnderWay, SessionTypeOK
        <5> QED
          BY <3>6, <5>1, StoredSteps
      <4>5. ASSUME NEW l \in Leases, opening'[o].target = l PROVE Ahead(l)'
        <5>1. /\ BookOf[l] = b /\ l # None /\ Ahead(l)
          BY <3>6, <4>1, <4>3, <4>5 DEF Undelivered
        <5>2. held'[b] \in {held[b], None}
          BY <2>2 DEF Pursues
        <5> QED
          BY <1>0, <4>4, <5>1, <5>2, AheadStep
      <4> QED
        BY <4>3, <4>5 DEF Backed, Undelivered
    <3> QED
      BY <3>3, <3>4, <3>5, <3>6 DEF Backed
  <2>5. made <= made'
    <3>1. PICK b \in Books : b = r.book
      BY <2>1, OpeningParts
    <3> QED
      BY <1>0, RecordSteps DEF RecordKept
  <2>6. made' \in Nat
    BY <1>0, NextSound DEF Sound, TypeOK
  <2> QED
    BY <2>1, <2>2, <2>3, <2>4, <2>5, <2>6 DEF Pursues, Acknowledges
<1> QED
  BY <1>1, <1>2, <1>3, ChoiceSteps

\* What the store took last is there, unless another device replaced it.
Lasting == \A b \in Books : stored[b].val # None => InStore(b, stored[b].val)

Kept ==
  /\ \A l \in Leases : Based(l)
  /\ \A o \in Opens : Laneless(o)
  /\ \A o \in Opens : Acknowledges(o)
  /\ Lasting

LEMMA LastingStep ==
  ASSUME Linked, Kept, NextSession
  PROVE  Lasting'
<1> USE DEF Linked
<1> SUFFICES ASSUME NEW b \in Books, stored'[b].val # None PROVE InStore(b, stored[b].val)'
  BY DEF Lasting
<1>1. ASSUME NEW l \in Leases, BookOf[l] = b, Commit(l) PROVE InStore(b, stored[b].val)'
  <2>1. /\ InStore(b, Sample(l).val)' /\ stored'[b].val = Sample(l).val
    BY <1>1, CommitStores DEF Kept
  <2>2. Sample(l)' = Sample(l)
    <3>1. lane'[l] = [lane[l] EXCEPT !.flight.stage = "stored"] /\ lane[l] \in Lanes
          /\ lane[l].flight \in Flights
      BY <1>1 DEF Commit, Sending, Deliver, Sound, TypeOK, Lanes
    <3> QED
      BY <3>1 DEF Sample, Lanes, Flights
  <2> QED
    BY <2>1, <2>2 DEF InStore
<1>2. ASSUME NEW val, InStore(b, val), stored'[b].val = val,
             ~\E l \in Leases : BookOf[l] = b /\ Commit(l)
      PROVE  InStore(b, stored[b].val)'
  <2>1. superseded'[b] \/ \E v \in versions'[b] : v.val = val
    BY <1>2, StoreKeeps
  <2> QED
    BY <1>2, <2>1 DEF InStore
<1>3. CASE stored'[b] = stored[b] /\ ~\E l \in Leases : BookOf[l] = b /\ Commit(l)
  <2>1. InStore(b, stored[b].val)
    BY <1>3 DEF Kept, Lasting
  <2> QED
    BY <1>2, <1>3, <2>1
<1>4. ASSUME NEW o \in Opens, OpenTakesOver(o), opening[o].book = b,
             opening[o].decision.ack # 0, OpenSaved(opening[o].lease, opening[o].decision.ack),
             ~\E l \in Leases : BookOf[l] = b /\ Commit(l)
      PROVE  InStore(b, stored[b].val)'
  <2>1. /\ UnderWay(o)
        /\ \/ opening[o].phase = "takeOver"
           \/ opening[o].phase = "publish" /\ opening[o].saved = "none"
    BY <1>4 DEF OpenTakesOver, TakesOver, AtPhase, UnderWay
  <2>2. BookOf[opening[o].lease] = b
    BY <1>4, <2>1, OpeningParts DEF Shaped, Links, Candidate
  <2>3. /\ checkpoint[b] # None /\ checkpoint[b].id = opening[o].decision.ack
        /\ stored'[b].val = checkpoint[b].val
    BY <1>4, <2>2 DEF OpenSaved, Sound, TypeOK
  <2>4. Backed(o, b)
    BY <1>4, <2>1, <2>3 DEF Kept, Acknowledges
  <2>5. InStore(b, checkpoint[b].val)
    BY <2>1, <2>4 DEF Backed, Undelivered, Waits
  <2> QED
    BY <1>2, <1>4, <2>3, <2>5
<1> QED
  BY <1>1, <1>3, <1>4, StoredSteps

LEMMA KeptStep ==
  ASSUME Linked, Alone, Alone', Kept, [NextSession]_vars
  PROVE  Kept'
<1> USE DEF Linked
<1>1. \A l \in Leases : Based(l)'
  BY BasedStep DEF Kept
<1>2. \A o \in Opens : Laneless(o)'
  BY LanelessStep DEF Kept
<1>3. CASE NextSession
  <2>1. ASSUME NEW o \in Opens PROVE Acknowledges(o)'
    BY <1>3, AcknowledgesStep DEF Kept
  <2> QED
    BY <1>1, <1>2, <1>3, <2>1, LastingStep DEF Kept
<1>4. CASE UNCHANGED vars
  <2>1. /\ versions' = versions /\ superseded' = superseded /\ checkpoint' = checkpoint
        /\ made' = made /\ stored' = stored /\ opening' = opening /\ held' = held /\ lane' = lane
    BY <1>4 DEF vars, writerVars, writer, records, history, store
  <2>2. Lasting'
    BY <2>1 DEF Kept, Lasting, InStore
  <2>3. ASSUME NEW o \in Opens PROVE Acknowledges(o)'
    BY <2>1 DEF Kept, Acknowledges, UnderWay, Backed, InStore, Undelivered, Waits, Ahead
  <2> QED
    BY <1>1, <1>2, <2>2, <2>3 DEF Kept
<1> QED
  BY <1>3, <1>4

LEMMA KeepsPosition == Linked /\ Kept => PositionIsKept
<1> SUFFICES ASSUME Linked, Kept, NEW b \in Books
             PROVE  \/ position[b] = None
                    \/ superseded[b]
                    \/ checkpoint[b] # None /\ checkpoint[b].val = position[b]
                    \/ \E v \in versions[b] : v.val = position[b]
  BY DEF PositionIsKept
<1>1. CASE checkpoint[b] # None
  BY <1>1 DEF Linked, Sound, BookSound
<1>2. CASE checkpoint[b] = None
  <2>1. position[b] = stored[b].val
    BY <1>2 DEF Linked, Sound, BookSound
  <2> QED
    BY <2>1 DEF Kept, Lasting, InStore
<1> QED
  BY <1>1, <1>2

\* As long as one book at a time is being opened, the last position recorded of
\* a book is in the store or in its recovery record, unless another device's
\* position took its place: whatever writes fail or are answered late, whatever
\* is merged, and also when an opening acknowledges a record it decided about
\* several steps before.
THEOREM LastPositionIsKept == SessionSpec /\ []Alone => []PositionIsKept
<1>1. InitSession => Kept
  BY DEF InitSession, Init, Kept, Based, Laneless, Acknowledges, Lasting, UnderWay
<1>2. Linked /\ Alone /\ Alone' /\ Kept /\ [NextSession]_vars => Kept'
  BY KeptStep
<1>3. Linked /\ Kept => PositionIsKept
  BY KeepsPosition
<1> QED
  BY <1>1, <1>2, <1>3, Linking, PTL DEF SessionSpec

=============================================================================
