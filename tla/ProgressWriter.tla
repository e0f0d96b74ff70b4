--------------------------- MODULE ProgressWriter ---------------------------
(***************************************************************************)
(* The writer of reading positions (src/ui/progressWriter.ts) with the     *)
(* local checkpoints that its samples are staged in before they are queued *)
(* (localProgressCheckpoint.ts, checkpointProgressRepair.ts).              *)
(*                                                                         *)
(* A lane belongs to one lease and keeps the latest position that waits,   *)
(* the one that failed, and the one write that is under way.  Timers,      *)
(* flushes of several callers, answers of the store and page turns meet    *)
(* in any order; the code between two awaits is one step, and the flushes  *)
(* that wait for a write run on, in the order in which they came, in the   *)
(* step that ends it, as the promise jobs of the language do.              *)
(***************************************************************************)
EXTENDS Naturals, Sequences

CONSTANTS
  Books,
  Leases,     \* the sessions of a run of the application and of the next ones
  BookOf,     \* the book of a lease
  Callers,    \* who may flush: an opening, a leaving, a hidden window
  Positions,  \* reading positions, compared by their stable fields
  Stamps,     \* what a session may show: the version it was opened from
  None,
  MaxTurns    \* bound: positions recorded of a book

ASSUME BookOfAssumption == BookOf \in [Leases -> Books]
ASSUME TurnsAssumption == MaxTurns \in Nat

VARIABLES
  held,        \* the writer's map from books to lanes, by their lease
  lane,        \* the lane objects
  waits,       \* the flushes that await the write of a lane, in order
  answer,      \* what a caller's flush has come to
  checkpoint,  \* the recovery record of a book, kept across crashes
  made,        \* checkpoint ids handed out
  turn,        \* history: positions recorded of a book
  position,    \* history: the last one recorded
  stored       \* history: the last one the store has taken, with its turn

writer == <<held, lane, waits, answer>>
records == <<checkpoint, made>>
history == <<turn, position, stored>>
writerVars == <<writer, records, history>>

Init ==
  /\ held = [b \in Books |-> None]
  /\ lane = [l \in Leases |-> None]
  /\ waits = [l \in Leases |-> <<>>]
  /\ answer = [c \in Callers |-> None]
  /\ checkpoint = [b \in Books |-> None]
  /\ made = 0
  /\ turn = [b \in Books |-> 0]
  /\ position = [b \in Books |-> None]
  /\ stored = [b \in Books |-> [at |-> 0, val |-> None]]

-----------------------------------------------------------------------------
\* Lanes

NewLane ==
  [sequence |-> 0, started |-> FALSE, pending |-> None, failed |-> None,
   flight |-> None, timer |-> FALSE]

HasUnsaved(L) == L.pending # None \/ L.failed # None \/ L.flight # None

\* start: the pending sample becomes the write under way.
Start(L) ==
  IF L.flight # None \/ L.pending = None THEN L
  ELSE [L EXCEPT !.pending = None, !.started = TRUE,
                 !.flight = [sample |-> L.pending, stage |-> "sent"]]

\* Mutant: only the first sample of a lane is scheduled.
ScheduleFirst(L) ==
  IF L.flight # None \/ L.pending = None \/ L.started THEN L ELSE Start(L)

\* schedule: the first sample of a lane is written at once, later ones when
\* the timer fires.
Schedule(L) ==
  IF L.flight # None \/ L.pending = None \/ L.timer THEN L
  ELSE IF L.started THEN [L EXCEPT !.timer = TRUE] ELSE Start(L)

Queued(L, sample) ==
  Schedule([L EXCEPT !.pending = sample, !.sequence = sample.at, !.failed = None])

\* Mutant: a late failure brings its sample back whatever was queued since.
AfterFailureAlways(L) ==
  [L EXCEPT !.failed = L.flight.sample, !.flight = None]

\* Mutant: the write is kept, and not its sample.
AfterFailureKept(L) ==
  [L EXCEPT !.failed = IF L.sequence = L.flight.sample.at THEN L.flight ELSE @,
            !.flight = None]

\* A newer queued sample is authoritative: an old rejection restores nothing.
AfterFailure(L) ==
  [L EXCEPT !.failed = IF L.sequence = L.flight.sample.at
                       THEN L.flight.sample ELSE @,
            !.flight = None]

AfterSuccess(L) == [L EXCEPT !.flight = None]

\* Mutant: the sample is put back, and its write not started.
RevivedUnstarted(L) ==
  [L EXCEPT !.timer = FALSE,
            !.pending = IF L.pending = None THEN L.failed ELSE L.pending,
            !.failed = IF L.pending = None THEN None ELSE L.failed]

\* A flush goes on writing: with what waits, or once more with what failed.
Revived(L) ==
  Start([L EXCEPT !.timer = FALSE,
                  !.pending = IF L.pending = None THEN L.failed ELSE L.pending,
                  !.failed = IF L.pending = None THEN None ELSE L.failed])

\* Mutant: what failed is retried again and again.
GoesOnAlways(L, phase) == L.pending # None \/ L.failed # None

\* A flush that has not begun to drain retries what failed, once.
GoesOn(L, phase) == L.pending # None \/ (phase = "settling" /\ L.failed # None)

Verdict(L) == IF L.failed # None THEN "failed" ELSE "saved"

-----------------------------------------------------------------------------
\* Registering, recording and timers

\* stageCheckpointSample: the same stable position keeps its record.
Staged(b, shown, val) ==
  IF checkpoint[b] # None /\ checkpoint[b].val = val THEN checkpoint[b]
  ELSE [id |-> made + 1, shown |-> shown, val |-> val]

Stage(b, shown, val) ==
  /\ checkpoint' = [checkpoint EXCEPT ![b] = Staged(b, shown, val)]
  /\ made' = IF Staged(b, shown, val).id > made THEN made + 1 ELSE made

Recorded(b, val) ==
  /\ turn[b] < MaxTurns
  /\ turn' = [turn EXCEPT ![b] = @ + 1]
  /\ position' = [position EXCEPT ![b] = val]
  /\ UNCHANGED stored

\* A position is staged and then queued with its checkpoint's id.
Accept(l, shown, val) ==
  LET b == BookOf[l]
  IN  /\ held[b] = l
      /\ Recorded(b, val)
      /\ Stage(b, shown, val)
      /\ lane' = [lane EXCEPT ![l] =
           Queued(@, [at |-> turn'[b], id |-> Staged(b, shown, val).id, val |-> val])]
      /\ UNCHANGED <<held, waits, answer>>

\* A position is staged while its lane is gone already: queueing it throws, the
\* record stays.
StageOnly(b, shown, val) ==
  /\ held[b] = None
  /\ Recorded(b, val)
  /\ Stage(b, shown, val)
  /\ UNCHANGED writer

TimerFires(l) ==
  /\ lane[l] # None /\ lane[l].timer
  /\ lane' = [lane EXCEPT ![l] = Start([@ EXCEPT !.timer = FALSE])]
  /\ UNCHANGED <<held, waits, answer, records, history>>

-----------------------------------------------------------------------------
\* The write under way

\* The store takes the sample; its answer is still to come.
Deliver(l) ==
  /\ lane[l] # None /\ lane[l].flight # None
  /\ lane[l].flight.stage = "sent"
  /\ lane' = [lane EXCEPT ![l].flight.stage = "stored"]
  /\ stored' = [stored EXCEPT ![BookOf[l]] =
       [at |-> lane[l].flight.sample.at, val |-> lane[l].flight.sample.val]]
  /\ UNCHANGED <<held, waits, answer, records, turn, position>>

Told(l, L, callers) ==
  answer' = [c \in Callers |->
    IF c \in callers THEN [lease |-> l, status |-> Verdict(L)] ELSE answer[c]]

\* The end of a write: the lane is scheduled again, and the flushes that wait
\* for it run on, each to its verdict or to the next write.
EndFlight(l, ended) ==
  LET L == Schedule(ended)
      W == waits[l]
      going == {i \in 1 .. Len(W) : GoesOn(L, W[i].phase)}
  IN  \/ /\ going = {}
         /\ lane' = [lane EXCEPT ![l] = IF W = <<>> THEN L ELSE [L EXCEPT !.timer = FALSE]]
         /\ waits' = [waits EXCEPT ![l] = <<>>]
         /\ Told(l, L, {W[i].caller : i \in 1 .. Len(W)})
      \/ \E first \in going :
           /\ \A i \in going : first <= i
           /\ lane' = [lane EXCEPT ![l] = Revived(L)]
           /\ waits' = [waits EXCEPT ![l] =
                <<[W[first] EXCEPT !.phase = "draining"]>> \o SubSeq(W, first + 1, Len(W))]
           /\ Told(l, L, {W[i].caller : i \in 1 .. first - 1})

\* Mutant: a confirmed write removes whatever record there is.
AcknowledgedAny(c, id) == None

Acknowledged(c, id) == IF c # None /\ c.id = id THEN None ELSE c

\* The write is confirmed, and its record goes unless a newer one took its
\* place; removing it may fail, which changes nothing else.
Confirm(l) ==
  /\ lane[l] # None /\ lane[l].flight # None
  /\ lane[l].flight.stage = "stored"
  /\ \/ UNCHANGED checkpoint
     \/ checkpoint' = [checkpoint EXCEPT ![BookOf[l]] =
          Acknowledged(@, lane[l].flight.sample.id)]
  /\ EndFlight(l, AfterSuccess(lane[l]))
  /\ UNCHANGED <<held, made, history>>

\* The write fails, or is carried out and its answer lost.
Reject(l) ==
  /\ lane[l] # None /\ lane[l].flight # None
  /\ EndFlight(l, AfterFailure(lane[l]))
  /\ UNCHANGED <<held, records, history>>

-----------------------------------------------------------------------------
\* Flushing, and the end of a lane

Flush(c, l) ==
  /\ held[BookOf[l]] = l
  /\ answer[c] = None
  /\ LET L == [lane[l] EXCEPT !.timer = FALSE]
         wait(phase) == /\ waits' = [waits EXCEPT ![l] =
                             Append(@, [caller |-> c, phase |-> phase])]
                        /\ answer' = [answer EXCEPT ![c] =
                             [lease |-> l, status |-> "waiting"]]
     IN  \/ /\ L.flight # None
            /\ lane' = [lane EXCEPT ![l] = L]
            /\ wait("settling")
         \/ /\ L.flight = None /\ GoesOn(L, "settling")
            /\ lane' = [lane EXCEPT ![l] = Revived(L)]
            /\ wait("draining")
         \/ /\ ~HasUnsaved(L)
            /\ lane' = [lane EXCEPT ![l] = L]
            /\ answer' = [answer EXCEPT ![c] = [lease |-> l, status |-> "saved"]]
            /\ UNCHANGED waits
  /\ UNCHANGED <<held, records, history>>

\* The caller goes on with what it was told.
Collect(c) ==
  /\ answer[c] # None /\ answer[c].status # "waiting"
  /\ answer' = [answer EXCEPT ![c] = None]
  /\ UNCHANGED <<held, lane, waits, records, history>>

\* The lane leaves the map; no write is under way that still uses it.
Drop(l) ==
  /\ held' = [held EXCEPT ![BookOf[l]] = None]
  /\ lane' = [lane EXCEPT ![l] = None]
  /\ UNCHANGED <<waits, answer>>

MayRetire(l) == held[BookOf[l]] = l /\ ~HasUnsaved(lane[l])

Retire(l) ==
  /\ MayRetire(l)
  /\ Drop(l)
  /\ UNCHANGED <<records, history>>

MayHandOff(l) == held[BookOf[l]] = l /\ lane[l].flight = None

\* The latest sample that is not saved is staged.
Retain(l, shown) ==
  LET L == lane[l]
  IN  IF L.pending # None THEN Stage(BookOf[l], shown, L.pending.val)
      ELSE IF L.failed # None THEN Stage(BookOf[l], shown, L.failed.val)
      ELSE UNCHANGED records

\* handoffToCheckpoint: the lane goes once its sample is staged.
Handoff(l, shown) ==
  /\ MayHandOff(l)
  /\ Retain(l, shown)
  /\ Drop(l)
  /\ UNCHANGED history

-----------------------------------------------------------------------------
\* Opening a book

\* The lane of an opened book; its first sample may be queued at once.
Register(l, L) ==
  /\ held[BookOf[l]] = None
  /\ lane[l] = None
  /\ held' = [held EXCEPT ![BookOf[l]] = l]
  /\ lane' = [lane EXCEPT ![l] = L]
  /\ UNCHANGED <<waits, answer>>

Open(l) == Register(l, NewLane) /\ UNCHANGED <<records, history>>

\* The book opens where the store says, which is what the checkpoint with this
\* id says too: it is acknowledged.
OpenSaved(l, id) ==
  LET b == BookOf[l]
  IN  /\ Register(l, NewLane)
      /\ checkpoint[b] # None /\ checkpoint[b].id = id
      /\ checkpoint' = [checkpoint EXCEPT ![b] = None]
      /\ stored' = [stored EXCEPT ![b] = [at |-> turn[b], val |-> checkpoint[b].val]]
      /\ UNCHANGED <<made, turn, position>>

\* The book opens at the checkpoint's position, which is staged and queued: as
\* the position it is, or as a new one when it was saved or replaced meanwhile.
OpenRestoring(l, shown, val) ==
  LET b == BookOf[l]
  IN  /\ IF checkpoint[b] # None /\ val = position[b] THEN UNCHANGED history
         ELSE Recorded(b, val)
      /\ Stage(b, shown, val)
      /\ Register(l, Queued(NewLane,
           [at |-> turn'[b], id |-> Staged(b, shown, val).id, val |-> val]))

Vanish ==
  /\ held' = [b \in Books |-> None]
  /\ lane' = [l \in Leases |-> None]
  /\ waits' = [l \in Leases |-> <<>>]
  /\ answer' = [c \in Callers |-> None]

\* The process ends.  Records and what the store has taken survive.
Crash == Vanish /\ UNCHANGED <<records, history>>

\* The window closes though a position is not saved: the lane is handed off, and
\* the process ends.
CloseUnsaved(l, shown) ==
  /\ MayHandOff(l)
  /\ Retain(l, shown)
  /\ Vanish
  /\ UNCHANGED history

Next ==
  \/ Crash
  \/ \E c \in Callers : Collect(c) \/ \E l \in Leases : Flush(c, l)
  \/ \E l \in Leases :
       \/ TimerFires(l) \/ Deliver(l) \/ Confirm(l) \/ Reject(l)
       \/ Retire(l) \/ Open(l)
       \/ \E id \in 1 .. made : OpenSaved(l, id)
  \/ \E l \in Leases, shown \in Stamps :
       \/ Handoff(l, shown) \/ CloseUnsaved(l, shown)
       \/ \E val \in Positions : Accept(l, shown, val) \/ OpenRestoring(l, shown, val)
  \/ \E b \in Books, shown \in Stamps, val \in Positions : StageOnly(b, shown, val)

\* Timers fire, and the store answers in its time, with a result or an error.
Fairness ==
  \A l \in Leases :
    WF_writerVars(TimerFires(l)) /\ WF_writerVars(Confirm(l) \/ Reject(l))

Spec == Init /\ [][Next]_writerVars
FairSpec == Spec /\ Fairness

-----------------------------------------------------------------------------
\* Properties

Samples == [at : Nat, id : Nat, val : Positions]
Flights == [sample : Samples, stage : {"sent", "stored"}]
Lanes ==
  [sequence : Nat, started : BOOLEAN, pending : Samples \cup {None},
   failed : Samples \cup {None}, flight : Flights \cup {None}, timer : BOOLEAN]
Checkpoints == [id : Nat, shown : Stamps, val : Positions]
Waiting == [caller : Callers, phase : {"settling", "draining"}]
Answers == [lease : Leases, status : {"waiting", "saved", "failed"}]

ASSUME NoneAssumption ==
  None \notin Leases \cup Samples \cup Flights \cup Lanes \cup Checkpoints \cup Answers

\* Every variable keeps its shape.
TypeOK ==
  /\ held \in [Books -> Leases \cup {None}]
  /\ lane \in [Leases -> Lanes \cup {None}]
  /\ waits \in [Leases -> Seq(Waiting)]
  /\ answer \in [Callers -> Answers \cup {None}]
  /\ checkpoint \in [Books -> Checkpoints \cup {None}]
  /\ made \in Nat
  /\ turn \in [Books -> Nat]
  /\ position \in [Books -> Positions \cup {None}]
  /\ stored \in [Books -> [at : Nat, val : Positions \cup {None}]]

\* The last position that was recorded of a book is in the store, or in the
\* recovery record that a crash leaves behind: whatever fails, is retried,
\* answered late, acknowledged late or handed off.
NothingLost ==
  \A b \in Books :
    \/ position[b] = stored[b].val
    \/ checkpoint[b] # None /\ checkpoint[b].val = position[b]

\* A queued position is never left lying: a write is under way whose end
\* schedules it, or a timer runs.
NoStarvedSample ==
  \A l \in Leases :
    lane[l] # None /\ lane[l].pending # None =>
      lane[l].flight # None \/ lane[l].timer

\* The lanes, timers, retries and handoffs of the code implement one channel
\* per book in which an older position never arrives after a newer one, and
\* "saved" is said only of a session whose last position has arrived.
Channel ==
  INSTANCE LatestChannel WITH
    offered <- turn,
    delivered <- [b \in Books |-> stored[b].at],
    latest <- [l \in Leases |-> IF lane[l] = None THEN 0 ELSE lane[l].sequence],
    verdict <- [c \in Callers |->
      IF answer[c] # None /\ answer[c].status = "waiting" THEN None ELSE answer[c]]

RefinesLatestChannel == Channel!Spec

\* A flush comes to a verdict: it neither waits for ever nor retries a failing
\* store again and again.
FlushReturns ==
  \A c \in Callers :
    (answer[c] # None /\ answer[c].status = "waiting")
      ~> (answer[c] = None \/ answer[c].status # "waiting")
=============================================================================
