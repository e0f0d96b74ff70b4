--------------------------- MODULE ReadingSession ---------------------------
(***************************************************************************)
(* Reading sessions around the writer of ProgressWriter: opening a book,   *)
(* turning pages, leaving it, hiding and showing the window, and the       *)
(* portable store that takes the positions (src/ui/useBookOpen.ts,         *)
(* App.tsx, useShelfProgressCommit.ts, useProgressRuntime.ts,              *)
(* portableState/ownedProgressSessions.ts, shelfStoreAdapter.ts).          *)
(*                                                                         *)
(* A session is a basis in the store that was adopted for a version the    *)
(* reader was shown; its lease names it.  Openings and leavings await the  *)
(* store several times, and page turns, writes, merges of other devices'   *)
(* versions, lost bases and crashes fall between.                          *)
(***************************************************************************)
EXTENDS ProgressWriter

CONSTANTS
  Opens,       \* openings that may be under way at once
  MaxRemote,   \* bound: versions that arrive from other devices
  MaxWrites,   \* bound: local writes of a book
  MaxFaults,   \* bound: requests that fail or lose their answer, restarts
  CloseFaults  \* whether releasing a basis may fail

ASSUME OpensAssumption == {"leave", "hide"} \cup Opens \subseteq Callers
ASSUME BoundsAssumption == {MaxRemote, MaxWrites, MaxFaults} \subseteq Nat

VARIABLES
  versions,    \* the store: versions of a book's position, none older than another
  revision,    \* the store: local writes of a book
  session,     \* OwnedProgressSessions.sessions, by lease
  active,      \* OwnedProgressSessions.active
  reader,      \* activeProgressLeaseRef
  view,        \* the book that is displayed
  busy,        \* shelfBusyRef
  opening,     \* openings under way
  leaving,     \* the leaving under way
  refused,     \* the last leaving ended with the choice to leave anyway
  generation,  \* bases of earlier runs of the store are lost
  remote, faults, \* counters for the bounds
  superseded   \* history: another device replaced the book's own position

store == <<versions, revision, remote, superseded>>
sessions == <<session, active>>
screen == <<reader, view, busy, refused>>
vars == <<writerVars, store, sessions, screen, opening, leaving, generation, faults>>

InitSession ==
  /\ Init
  /\ versions = [b \in Books |-> {}]
  /\ revision = [b \in Books |-> 0]
  /\ session = [l \in Leases |-> None]
  /\ active = [b \in Books |-> None]
  /\ reader = None
  /\ view = None
  /\ busy = FALSE
  /\ opening = [o \in Opens |-> None]
  /\ leaving = None
  /\ refused = FALSE
  /\ generation = 0
  /\ remote = 0
  /\ faults = 0
  /\ superseded = [b \in Books |-> FALSE]

StampOf(v) == [by |-> v.by, n |-> v.n]

Fault == faults < MaxFaults /\ faults' = faults + 1

-----------------------------------------------------------------------------
\* Sessions

\* run: the tasks of a session need it open, current and not being closed.
Live(l) ==
  session[l] # None /\ ~session[l].closing /\ active[BookOf[l]] = l

\* A basis that the store still knows and that no other local write overtook.
Current(l) ==
  session[l].generation = generation /\ session[l].revision = revision[BookOf[l]]

\* Adopting a choice: the version with the stamp, or nothing of nothing.
Adoptable(b, shown) ==
  IF shown = None THEN versions[b] = {}
  ELSE \E v \in versions[b] : StampOf(v) = shown

Observed(b, shown) == {v \in versions[b] : StampOf(v) = shown}

Adopted(b, shown) ==
  [observed |-> Observed(b, shown), revision |-> revision[b],
   generation |-> generation, shown |-> shown, opened |-> shown,
   invalid |-> FALSE, closing |-> FALSE]

\* Bound again, a session still is what the reader opened.
Again(l, shown) == [Adopted(BookOf[l], shown) EXCEPT !.opened = session[l].opened]

\* Mutant: a basis that went stale is bound to whatever there is.
ReboundToAny(l) ==
  LET b == BookOf[l]
  IN  IF versions[b] = {} THEN Again(l, None)
      ELSE Again(l, StampOf(CHOOSE v \in versions[b] : TRUE))

\* rebindProgressSessionValue: the session is bound again to the version it
\* shows, or waits for a choice when that is gone.
Rebound(l) ==
  IF Adoptable(BookOf[l], session[l].shown) THEN Again(l, session[l].shown)
  ELSE [session[l] EXCEPT !.invalid = TRUE]

\* A session is closed once its tasks are over.
Idle(l) == lane[l] # None => lane[l].flight = None

\* close, once its release is answered: the session is gone either way.
Closed(l) ==
  /\ session' = [session EXCEPT ![l] = None]
  /\ active' = [b \in Books |-> IF active[b] = l THEN None ELSE active[b]]

-----------------------------------------------------------------------------
\* Reading

\* persistShelfProgress: the position is staged, then queued.  Its guards
\* (a restored position not shown yet, a page under way) only leave it out.
PageTurn ==
  /\ view # None
  /\ reader # None /\ session[reader] # None
  /\ \E val \in Positions :
       \/ Accept(reader, session[reader].shown, val)
       \/ StageOnly(BookOf[reader], session[reader].shown, val)
  /\ UNCHANGED <<store, sessions, screen, opening, leaving, generation, faults>>

Timer ==
  /\ \E l \in Leases : TimerFires(l)
  /\ UNCHANGED <<store, sessions, screen, opening, leaving, generation, faults>>

Sample(l) == lane[l].flight.sample

Sending(l) == lane[l] # None /\ lane[l].flight # None /\ lane[l].flight.stage = "sent"

\* What the store makes of a write: the position it shows already is left as it
\* is; a new version takes the place of what was observed and of older own ones.
Unchanged(l) ==
  \E v \in session[l].observed : session[l].observed = {v} /\ v.val = Sample(l).val

Written(l) ==
  [by |-> "own", n |-> revision[BookOf[l]] + 1, val |-> Sample(l).val]

AfterWrite(l) ==
  {v \in versions[BookOf[l]] \ session[l].observed : v.by # "own"} \cup {Written(l)}

\* The write is committed.
Commit(l) ==
  LET b == BookOf[l]
  IN  /\ Sending(l)
      /\ Live(l) /\ ~session[l].invalid /\ Current(l)
      /\ Deliver(l)
      /\ IF Unchanged(l) THEN UNCHANGED <<versions, revision, superseded>>
         ELSE /\ revision[b] < MaxWrites
              /\ versions' = [versions EXCEPT ![b] = AfterWrite(l)]
              /\ revision' = [revision EXCEPT ![b] = @ + 1]
              /\ superseded' = [superseded EXCEPT ![b] = FALSE]
      /\ UNCHANGED <<remote, sessions, screen, opening, leaving, generation, faults>>

\* Mutant: what is shown becomes the version, and not its stamp.
ContinuedWithVersion(l) ==
  LET b == BookOf[l]
      own == {v \in versions[b] : v.by = "own" /\ v.n = revision[b]}
  IN  IF session[l].revision = revision[b] THEN session[l]
      ELSE [session[l] EXCEPT !.observed = own, !.revision = revision[b],
                              !.shown = IF own = {} THEN None ELSE CHOOSE v \in own : TRUE]

\* The session goes on from what it wrote.
Continued(l) ==
  LET b == BookOf[l]
      own == {v \in versions[b] : v.by = "own" /\ v.n = revision[b]}
  IN  IF session[l].revision = revision[b] THEN session[l]
      ELSE [session[l] EXCEPT !.observed = own, !.revision = revision[b],
                              !.shown = [by |-> "own", n |-> revision[b]]]

\* The answer of a committed write arrives.
Answered(l) ==
  /\ Confirm(l)
  /\ session' = [session EXCEPT ![l] = Continued(l)]
  /\ UNCHANGED <<store, active, screen, opening, leaving, generation, faults>>

\* The answer arrives, but what the shelf shows of it cannot be read.
ProjectionFails(l) ==
  /\ Fault
  /\ lane[l] # None /\ lane[l].flight # None /\ lane[l].flight.stage = "stored"
  /\ Reject(l)
  /\ session' = [session EXCEPT ![l] = Continued(l)]
  /\ UNCHANGED <<store, active, screen, opening, leaving, generation>>

\* The request fails, before or after it was carried out.
RequestFails(l) ==
  /\ Fault
  /\ Reject(l)
  /\ UNCHANGED <<store, sessions, screen, opening, leaving, generation>>

\* The store refuses a basis it does not know or that was overtaken.  The
\* session is bound again for the next attempt; this one is not confirmed.
StaleBasis(l) ==
  /\ Sending(l)
  /\ Live(l) /\ ~session[l].invalid /\ ~Current(l)
  /\ Reject(l)
  /\ session' = [session EXCEPT ![l] = Rebound(l)]
  /\ UNCHANGED <<store, active, screen, opening, leaving, generation, faults>>

\* A session that is closed, or waits for a choice, writes nothing.
Refused(l) ==
  /\ Sending(l)
  /\ ~Live(l) \/ session[l].invalid
  /\ Reject(l)
  /\ UNCHANGED <<store, sessions, screen, opening, leaving, generation, faults>>

WriteEnds(l) == Answered(l) \/ StaleBasis(l) \/ Refused(l)

\* Another device's version arrives beside this device's, or in its place.
Merge(b) ==
  /\ remote < MaxRemote
  /\ remote' = remote + 1
  /\ \E val \in Positions, seen \in BOOLEAN :
       LET v == [by |-> "other", n |-> remote', val |-> val]
       IN  /\ versions' = [versions EXCEPT ![b] =
                {v} \cup (IF seen THEN {} ELSE {w \in @ : w.by = "own"})]
           /\ superseded' = [superseded EXCEPT ![b] = @ \/ ~(versions[b] \subseteq versions'[b])]
  /\ UNCHANGED <<writerVars, revision, sessions, screen, opening, leaving, generation, faults>>

\* The store starts again under the running window; its bases are lost.
Restart ==
  /\ Fault
  /\ generation' = generation + 1
  /\ UNCHANGED <<writerVars, store, sessions, screen, opening, leaving>>

\* The window is shown again: a session of an earlier run is bound again.
Shown ==
  /\ reader # None
  /\ Live(reader) /\ (Idle(reader) \/ Sending(reader))
  /\ session[reader].generation # generation
  /\ session' = [session EXCEPT ![reader] = Rebound(reader)]
  /\ UNCHANGED <<writerVars, store, active, screen, opening, leaving, generation, faults>>

\* What waits is written now: a window that is hidden flushes the reader's lane, one
\* that is asked to close every lane, one after the other here.
Hidden ==
  /\ \E l \in Leases : Flush("hide", l)
  /\ UNCHANGED <<store, sessions, screen, opening, leaving, generation, faults>>

\* Nobody looks at what that flush has come to, but for a closing window: it ends,
\* or offers to close anyway.
HiddenFlushed ==
  /\ Collect("hide")
  /\ UNCHANGED <<store, sessions, screen, opening, leaving, generation, faults>>

\* Nothing but the store and the recovery records is left.
WindowGone ==
  /\ session' = [l \in Leases |-> None]
  /\ active' = [b \in Books |-> None]
  /\ reader' = None
  /\ view' = None
  /\ busy' = FALSE
  /\ refused' = FALSE
  /\ opening' = [o \in Opens |-> None]
  /\ leaving' = None
  /\ UNCHANGED <<store, generation, faults>>

\* The process ends, or the window closes with everything saved.
CrashSession == Crash /\ WindowGone

\* The window closes though its flush failed ("close anyway"): a lane is handed
\* off, and those whose handoff fails go as they are.
CloseAnyway ==
  /\ \E l \in Leases : session[l] # None /\ CloseUnsaved(l, session[l].shown)
  /\ WindowGone

-----------------------------------------------------------------------------
\* Opening a book (handleShelfOpen)

NoDecision == [sel |-> None, ack |-> 0, restore |-> None, explicit |-> FALSE]

AtPhase(o, phase) == opening[o] # None /\ opening[o].phase = phase

Goes(o, changed) == opening' = [opening EXCEPT ![o] = changed]

\* The opening is over; whatever its end, the next one may begin.
Ends(o) ==
  /\ opening' = [opening EXCEPT ![o] = None]
  /\ busy' = FALSE

\* Once the store has answered that it is there, the lane of the book, if any,
\* is flushed.  The displayed book may be another one.
OpenBegin(o, b) ==
  /\ ~busy
  /\ opening[o] = None
  /\ busy' = TRUE
  /\ Goes(o, [book |-> b, phase |-> IF held[b] = None THEN "read" ELSE "flush",
              previous |-> reader, target |-> held[b], saved |-> "none",
              previousSaved |-> FALSE, turn |-> 0, lease |-> None, decision |-> NoDecision])
  /\ IF held[b] = None THEN UNCHANGED writerVars ELSE Flush(o, held[b])
  /\ UNCHANGED <<store, sessions, reader, view, refused, leaving, generation, faults>>

\* The opening fails, or the reader gives it up, before a session is prepared.
OpenGivesUp(o) ==
  /\ AtPhase(o, "read") \/ AtPhase(o, "prepare")
  /\ Ends(o)
  /\ UNCHANGED <<writerVars, store, sessions, reader, view, refused, leaving, generation, faults>>

OpenFlushed(o) ==
  /\ AtPhase(o, "flush")
  /\ Collect(o)
  /\ Goes(o, [opening[o] EXCEPT !.phase = "read", !.saved = answer[o].status])
  /\ UNCHANGED <<store, sessions, screen, leaving, generation, faults>>

\* Mutant: the store's position is shown, whatever the checkpoint says.
DecisionsOfStore(b) ==
  {[NoDecision EXCEPT !.sel = v] : v \in versions[b]}
    \cup (IF versions[b] = {} THEN {NoDecision} ELSE {})

\* Mutant: the checkpoint counts as saved where the store has one position.
DecisionsAcknowledging(b) ==
  {[NoDecision EXCEPT !.sel = v, !.ack = IF checkpoint[b] = None THEN 0 ELSE checkpoint[b].id] :
     v \in versions[b]}
    \cup (IF versions[b] = {} THEN {NoDecision} ELSE {})

\* Where to open: with one version in the store the checkpoint is saved in it,
\* or is restored on top of it, or the reader chooses; with several the reader
\* chooses; a checkpoint that the reader does not choose stays.
Decisions(b) ==
  LET V == versions[b]
      c == checkpoint[b]
      one == \E v \in V : V = {v}
      chosen(explicit) == {[NoDecision EXCEPT !.sel = v, !.explicit = explicit] : v \in V}
      empty(explicit) ==
        IF V = {} THEN {[NoDecision EXCEPT !.explicit = explicit]} ELSE {}
      local(explicit) ==
        IF V = {} THEN {[NoDecision EXCEPT !.restore = c.val, !.explicit = explicit]}
        ELSE {[NoDecision EXCEPT !.sel = v, !.restore = c.val, !.explicit = explicit] : v \in V}
  IN  IF c = None THEN chosen(~one) \cup empty(FALSE)
      ELSE IF one /\ \E v \in V : v.val = c.val
           THEN {[NoDecision EXCEPT !.sel = v, !.ack = c.id] : v \in V}
      ELSE IF \/ one /\ \E v \in V : StampOf(v) = c.shown
              \/ V = {} /\ c.shown = None
           THEN local(FALSE)
      ELSE local(TRUE) \cup chosen(TRUE) \cup empty(TRUE)

\* Another book that is open is flushed before this one is prepared.
FlushesPrevious(o) ==
  LET p == opening[o].previous
  IN  p # None /\ p # opening[o].target /\ BookOf[p] # opening[o].book

\* The book is read afresh after the flush.  When that failed, only a position
\* the reader chose may take over.
OpenDecide(o) ==
  /\ AtPhase(o, "read")
  /\ \E d \in Decisions(opening[o].book) :
       /\ opening[o].saved = "failed" => d.explicit
       /\ Goes(o, [opening[o] EXCEPT
            !.phase = IF FlushesPrevious(o) THEN "flushPrevious" ELSE "prepare",
            !.decision = d, !.turn = turn[opening[o].book]])
  /\ IF FlushesPrevious(o) THEN Flush(o, opening[o].previous) ELSE UNCHANGED writerVars
  /\ UNCHANGED <<store, sessions, screen, leaving, generation, faults>>

OpenFlushedPrevious(o) ==
  /\ AtPhase(o, "flushPrevious")
  /\ Collect(o)
  /\ Goes(o, [opening[o] EXCEPT !.phase = "prepare",
                                !.previousSaved = (answer[o].status = "saved")])
  /\ UNCHANGED <<store, sessions, screen, leaving, generation, faults>>

Shows(d) == IF d.sel = None THEN None ELSE StampOf(d.sel)

\* A lease is a new object: nothing refers to it yet.
Fresh(l) ==
  /\ session[l] = None /\ lane[l] = None /\ reader # l
  /\ leaving # None => leaving.lease # l
  /\ \A o \in Opens : opening[o] # None => l \notin {opening[o].previous, opening[o].target}

\* The choice is adopted; it may be gone by now.
OpenPrepare(o) ==
  LET b == opening[o].book
      shown == Shows(opening[o].decision)
  IN  /\ AtPhase(o, "prepare")
      /\ Adoptable(b, shown)
      /\ \E l \in Leases :
           /\ BookOf[l] = b /\ Fresh(l)
           /\ session' = [session EXCEPT ![l] = Adopted(b, shown)]
           /\ Goes(o, [opening[o] EXCEPT !.phase = "publish", !.lease = l])
      /\ UNCHANGED <<writerVars, store, active, screen, leaving, generation, faults>>

\* The candidate of an opening that failed is closed; what is displayed stays.
OpenAborts(o) ==
  /\ opening[o] # None
  /\ opening[o].phase = "abort" \/ (opening[o].phase = "publish" /\ opening[o].lease # None)
  /\ Closed(opening[o].lease)
  /\ reader' = IF reader = opening[o].lease THEN None ELSE reader
  /\ Ends(o)
  /\ UNCHANGED <<writerVars, store, view, refused, leaving, generation, faults>>

CloseBegins(l) ==
  session' = IF session[l] = None THEN session ELSE [session EXCEPT ![l].closing = TRUE]

\* Mutant: the book's session is closed, and its lane left.
OpenClosesTarget(o) ==
  /\ AtPhase(o, "publish")
  /\ opening[o].saved # "none"
  /\ CloseBegins(opening[o].target)
  /\ Goes(o, [opening[o] EXCEPT !.phase = "closeTarget"])
  /\ UNCHANGED <<writerVars, store, active, screen, leaving, generation, faults>>

\* The parsed book takes over.  First the lanes of the old sessions go: the
\* book's own is retired, or handed off when its flush had failed, ...
OpenReleasesTarget(o) ==
  LET l == opening[o].target
  IN  /\ AtPhase(o, "publish")
      /\ opening[o].saved # "none"
      /\ IF opening[o].saved = "saved" THEN Retire(l)
         ELSE Handoff(l, IF session[l] = None THEN None ELSE session[l].shown)
      /\ CloseBegins(l)
      /\ Goes(o, [opening[o] EXCEPT !.phase = "closeTarget"])
      /\ UNCHANGED <<store, active, screen, leaving, generation, faults>>

\* ... and the one of the other book, if it was saved.
OpenReleasesPrevious(o) ==
  LET l == opening[o].previous
  IN  /\ \/ AtPhase(o, "publish") /\ opening[o].saved = "none"
         \/ AtPhase(o, "released")
      /\ opening[o].previousSaved
      /\ Retire(l)
      /\ CloseBegins(l)
      /\ Goes(o, [opening[o] EXCEPT !.phase = "closePrevious"])
      /\ UNCHANGED <<store, active, screen, leaving, generation, faults>>

\* A lane that was used meanwhile is not dropped: the opening fails.
OpenCannotRelease(o) ==
  /\ \/ /\ AtPhase(o, "publish") /\ opening[o].saved # "none"
        /\ ~(IF opening[o].saved = "saved" THEN MayRetire(opening[o].target)
             ELSE MayHandOff(opening[o].target))
     \/ /\ \/ AtPhase(o, "publish") /\ opening[o].saved = "none"
           \/ AtPhase(o, "released")
        /\ opening[o].previousSaved
        /\ ~MayRetire(opening[o].previous)
  /\ Goes(o, [opening[o] EXCEPT !.phase = "abort"])
  /\ UNCHANGED <<writerVars, store, sessions, screen, leaving, generation, faults>>

Releasing(o) ==
  IF opening[o].phase = "closeTarget" THEN opening[o].target ELSE opening[o].previous

OpenClosed(o) ==
  /\ AtPhase(o, "closeTarget") \/ AtPhase(o, "closePrevious")
  /\ Idle(Releasing(o))
  /\ Closed(Releasing(o))
  /\ \/ /\ reader' = IF reader = Releasing(o) THEN None ELSE reader
        /\ Goes(o, [opening[o] EXCEPT !.phase =
             IF @ = "closeTarget" /\ opening[o].previousSaved THEN "released" ELSE "takeOver"])
        /\ UNCHANGED faults
     \/ /\ CloseFaults /\ Fault
        /\ reader' = reader
        /\ Goes(o, [opening[o] EXCEPT !.phase = "abort"])
  /\ UNCHANGED <<writerVars, store, view, busy, refused, leaving, generation>>

TakesOver(o) ==
  \/ AtPhase(o, "takeOver")
  \/ AtPhase(o, "publish") /\ opening[o].saved = "none" /\ ~opening[o].previousSaved

\* The candidate becomes the book's session, and its lane is registered.  The
\* recovery record may be another one by now, or fail to be written or removed.
OpenTakesOver(o) ==
  LET b == opening[o].book
      l == opening[o].lease
      d == opening[o].decision
  IN  /\ TakesOver(o)
      /\ session[l] # None /\ ~session[l].closing
      /\ active[b] \in {None, l}
      /\ active' = [active EXCEPT ![b] = l]
      /\ \/ d.restore # None /\ OpenRestoring(l, session[l].shown, d.restore)
         \/ d.ack # 0 /\ OpenSaved(l, d.ack)
         \/ Open(l)
      /\ reader' = l
      /\ view' = b
      /\ Ends(o)
      /\ UNCHANGED <<store, session, refused, leaving, generation, faults>>

\* Another session of the book is there: the opening fails.
OpenCannotTakeOver(o) ==
  LET b == opening[o].book
      l == opening[o].lease
  IN  /\ TakesOver(o)
      /\ active[b] \notin {None, l} \/ held[b] # None
      /\ active' = IF active[b] \in {None, l} THEN [active EXCEPT ![b] = l] ELSE active
      /\ Goes(o, [opening[o] EXCEPT !.phase = "abort"])
      /\ UNCHANGED <<writerVars, store, session, screen, leaving, generation, faults>>

-----------------------------------------------------------------------------
\* Leaving the book (leaveReader)

LeaveRefused ==
  /\ leaving' = None
  /\ busy' = FALSE
  /\ refused' = TRUE

\* The reader leaves; after a refusal the choice is to leave unsaved.
LeaveBegin(unsaved) ==
  /\ view # None
  /\ leaving = None
  /\ unsaved => refused
  /\ \/ /\ reader = None
        /\ leaving' = [lease |-> None, phase |-> "done", unsaved |-> unsaved, caught |-> FALSE]
        /\ busy' = TRUE
        /\ UNCHANGED <<refused, writerVars>>
     \/ /\ reader # None
        /\ Flush("leave", reader)
        /\ leaving' = [lease |-> reader, phase |-> "flush", unsaved |-> unsaved, caught |-> FALSE]
        /\ busy' = TRUE
        /\ UNCHANGED refused
     \/ /\ reader # None /\ held[BookOf[reader]] # reader
        /\ LeaveRefused
        /\ UNCHANGED writerVars
  /\ UNCHANGED <<store, sessions, reader, view, opening, generation, faults>>

\* Leaving once more, as the Android Back key can: the second call shares the
\* flush of the first or finds no lane, fails either way and resets the busy
\* flag; or it finds nothing left to save, and the book goes.  A flush of its
\* own, for a session that took over since, is left out.
LeaveAgain ==
  /\ view # None
  /\ leaving # None
  /\ busy' = FALSE
  /\ \/ /\ reader # None
        /\ \/ held[BookOf[reader]] # reader
           \/ leaving.phase = "done" /\ leaving.lease = reader
        /\ refused' = TRUE
        /\ UNCHANGED view
     \/ /\ reader = None
        /\ view' = None
        /\ refused' = FALSE
  /\ UNCHANGED <<writerVars, store, sessions, reader, opening, leaving, generation, faults>>

LeaveSettled ==
  leaving # None /\ leaving.phase = "flush" /\ answer["leave"].status # "waiting"

\* The position was saved, or another flush retries what the verdict left.
LeaveSaved ==
  /\ LeaveSettled /\ answer["leave"].status = "saved"
  /\ Retire(leaving.lease)
  /\ CloseBegins(leaving.lease)
  /\ leaving' = [leaving EXCEPT !.phase = "close"]
  /\ UNCHANGED <<store, active, screen, opening, generation, faults>>

\* A position that could not be saved moves to its recovery record when the
\* reader leaves anyway; where it cannot move, its lane and its session stay.
LeaveUnsaved ==
  LET l == leaving.lease
  IN  /\ LeaveSettled /\ answer["leave"].status = "failed"
      /\ \/ /\ ~leaving.unsaved
            /\ Collect("leave")
            /\ LeaveRefused
            /\ UNCHANGED session
         \/ /\ leaving.unsaved
            /\ Handoff(l, IF session[l] = None THEN None ELSE session[l].shown)
            /\ CloseBegins(l)
            /\ leaving' = [leaving EXCEPT !.phase = "close", !.caught = TRUE]
            /\ UNCHANGED <<busy, refused>>
         \/ /\ leaving.unsaved
            /\ ~MayHandOff(l)
            /\ leaving' = [leaving EXCEPT !.phase = "done"]
            /\ UNCHANGED <<writerVars, session, busy, refused>>
      /\ UNCHANGED <<store, active, reader, view, opening, generation, faults>>

LeaveClosed ==
  /\ leaving # None /\ leaving.phase = "close"
  /\ Idle(leaving.lease)
  /\ Closed(leaving.lease)
  /\ \/ /\ reader' = None
        /\ leaving' = [leaving EXCEPT !.phase = "done"]
        /\ UNCHANGED <<writerVars, busy, refused, faults>>
     \/ /\ CloseFaults /\ Fault /\ ~leaving.caught
        /\ reader' = reader
        /\ Collect("leave")
        /\ LeaveRefused
  /\ UNCHANGED <<store, view, opening, generation>>

LeaveDone ==
  /\ leaving # None /\ leaving.phase = "done"
  /\ IF answer["leave"] = None THEN UNCHANGED writerVars ELSE Collect("leave")
  /\ leaving' = None
  /\ view' = None
  /\ busy' = FALSE
  /\ refused' = FALSE
  /\ UNCHANGED <<store, sessions, reader, opening, generation, faults>>

-----------------------------------------------------------------------------
\* An opening that can only fail.
MustGiveUp(o) ==
  \/ /\ AtPhase(o, "read") /\ opening[o].saved = "failed"
     /\ \A d \in Decisions(opening[o].book) : ~d.explicit
  \/ /\ AtPhase(o, "read") /\ FlushesPrevious(o)
     /\ held[BookOf[opening[o].previous]] # opening[o].previous
  \/ AtPhase(o, "prepare") /\ ~Adoptable(opening[o].book, Shows(opening[o].decision))

Proceeds(o) ==
  \/ OpenDecide(o) \/ OpenPrepare(o) \/ OpenReleasesTarget(o)
  \/ OpenReleasesPrevious(o) \/ OpenCannotRelease(o) \/ OpenClosed(o)
  \/ OpenTakesOver(o) \/ OpenCannotTakeOver(o)
  \/ MustGiveUp(o) /\ OpenGivesUp(o)
  \/ AtPhase(o, "abort") /\ OpenAborts(o)

Opening(o) == Proceeds(o) \/ OpenGivesUp(o) \/ OpenAborts(o)

Leaving == LeaveClosed \/ LeaveDone

\* A flush that has come to a verdict resumes its caller before anything else
\* runs: the caller is the next promise job.
Settled ==
  \/ LeaveSettled
  \/ \E c \in {"hide"} \cup Opens : answer[c] # None /\ answer[c].status # "waiting"

Resumes ==
  \/ LeaveSaved \/ LeaveUnsaved \/ HiddenFlushed
  \/ \E o \in Opens : OpenFlushed(o) \/ OpenFlushedPrevious(o)

Events ==
  \/ PageTurn \/ Timer \/ Restart \/ Shown \/ Hidden \/ CrashSession \/ CloseAnyway
  \/ \E l \in Leases :
       \/ Commit(l) \/ WriteEnds(l) \/ ProjectionFails(l) \/ RequestFails(l)
  \/ \E b \in Books : Merge(b) \/ \E o \in Opens : OpenBegin(o, b)
  \/ \E o \in Opens : Opening(o)
  \/ \E unsaved \in BOOLEAN : LeaveBegin(unsaved)
  \/ LeaveAgain
  \/ Leaving

NextSession == Resumes \/ (~Settled /\ Events)

SessionSpec == InitSession /\ [][NextSession]_vars

\* Requests are answered, timers fire, dialogs are answered in some way.  The
\* reader need not turn a page, open a book or leave one, and nothing need fail
\* that can go on.  Resuming callers delay an event, but not for ever.
SessionFairness ==
  /\ SF_vars(~Settled /\ Timer)
  /\ \A l \in Leases : SF_vars(~Settled /\ (Commit(l) \/ WriteEnds(l)))
  /\ \A o \in Opens : SF_vars(~Settled /\ Proceeds(o))
  /\ SF_vars(~Settled /\ Leaving)
  /\ WF_vars(Resumes)

FairSessionSpec == SessionSpec /\ SessionFairness

-----------------------------------------------------------------------------
\* Properties

\* What a version is named by, and what a session may show: one, or nothing.
VersionStamps == [by : {"own", "other"}, n : 0 .. MaxWrites + MaxRemote]
Versions == [by : {"own", "other"}, n : 0 .. MaxWrites + MaxRemote, val : Positions]
Sessions ==
  [observed : SUBSET Versions, revision : Nat, generation : Nat,
   shown : VersionStamps \cup {None}, opened : VersionStamps \cup {None},
   invalid : BOOLEAN, closing : BOOLEAN]
Choices ==
  [sel : Versions \cup {None}, ack : Nat, restore : Positions \cup {None},
   explicit : BOOLEAN]
Openings ==
  [book : Books,
   phase : {"flush", "read", "flushPrevious", "prepare", "publish", "closeTarget",
            "released", "closePrevious", "takeOver", "abort"},
   previous : Leases \cup {None}, target : Leases \cup {None},
   saved : {"none", "saved", "failed"}, previousSaved : BOOLEAN, turn : Nat,
   lease : Leases \cup {None}, decision : Choices]
Leavings ==
  [lease : Leases \cup {None}, phase : {"flush", "close", "done"},
   unsaved : BOOLEAN, caught : BOOLEAN]

ASSUME StampsAssumption == VersionStamps \cup {None} \subseteq Stamps
ASSUME RecordsAssumption == None \notin Versions \cup Sessions \cup Openings \cup Leavings

\* Every variable keeps its shape.
SessionTypeOK ==
  /\ TypeOK
  /\ versions \in [Books -> SUBSET Versions]
  /\ revision \in [Books -> 0 .. MaxWrites]
  /\ session \in [Leases -> Sessions \cup {None}]
  /\ active \in [Books -> Leases \cup {None}]
  /\ reader \in Leases \cup {None}
  /\ view \in Books \cup {None}
  /\ busy \in BOOLEAN /\ refused \in BOOLEAN
  /\ opening \in [Opens -> Openings \cup {None}]
  /\ leaving \in Leavings \cup {None}
  /\ generation \in Nat /\ faults \in 0 .. MaxFaults
  /\ remote \in 0 .. MaxRemote
  /\ superseded \in [Books -> BOOLEAN]

\* Openings that may have released the displayed book's lane.
Replacing(o) ==
  opening[o] # None
    /\ opening[o].phase \in {"closeTarget", "released", "closePrevious", "takeOver", "abort"}

\* What is displayed can be saved.  A lane in the writer's map belongs to a
\* session that is open and current, so that no queued position meets a session
\* that was closed under it; and outside of leaving and of taking over, the
\* displayed book has the lane of the session that page turns are recorded
\* under, never one of another book.
ReaderIsWritable ==
  /\ \A b \in Books : held[b] # None => Live(held[b])
  /\ view # None /\ reader # None => BookOf[reader] = view
  /\ view # None /\ leaving = None /\ (\A o \in Opens : ~Replacing(o))
       => reader # None /\ held[view] = reader

\* The last recorded position of a book is in the portable store or in the
\* recovery record, unless another device's position took its place.
PositionIsKept ==
  \A b \in Books :
    \/ position[b] = None
    \/ superseded[b]
    \/ checkpoint[b] # None /\ checkpoint[b].val = position[b]
    \/ \E v \in versions[b] : v.val = position[b]

\* A session's writes replace another device's version only when it is the one
\* the book was opened at: not one that arrived later, however often the basis
\* was lost, overtaken or bound again.
ReplacesOnlyShown ==
  \A l \in Leases : session[l] # None =>
    \A v \in session[l].observed : v.by = "other" => StampOf(v) = session[l].opened

\* A book that opens without a question opens at the last position recorded of
\* it, or that position was saved and the store has another one by now.
SilentOpenFindsPosition ==
  [][\A o \in Opens :
       LET b == opening[o].book
           d == opening[o].decision
       IN  opening[o] # None /\ view' = b /\ reader' # reader /\ reader' = opening[o].lease
             /\ ~d.explicit /\ opening[o].turn = turn[b]
           => \/ d.restore = position[b]
              \/ d.sel # None /\ d.sel.val = position[b]
              \/ stored[b].val = position[b]]_vars

\* An opening ends, and leaving does: neither waits for ever for a write, for a
\* flush or for the other, and the shelf does not stay busy.
ShelfIsReleased ==
  /\ \A o \in Opens : (opening[o] # None) ~> (opening[o] = None)
  /\ (leaving # None) ~> (leaving = None)

\* "Explicit user choice after a failed save: never block leaving"
\* (useBookOpen.ts), "Leaving never depends on this succeeding"
\* (saveFailureExit.ts).
LeavingAnywayLeaves == [][LeaveBegin(TRUE) => leaving' # None]_vars
=============================================================================
