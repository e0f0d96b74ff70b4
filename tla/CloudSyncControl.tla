-------------------------- MODULE CloudSyncControl --------------------------
(***************************************************************************)
(* When cloud rounds run: the schedule of cloud_sync/scheduler.rs and the  *)
(* service around it in cloud_sync/commands.rs.  Commands of the window, a *)
(* timer task, round tasks and one administrative operation share Control  *)
(* under a lock and queue for one gate; every action below is what one     *)
(* holder of the lock does.  Asking for a round and arming the timer take  *)
(* the lock twice; nothing but a timer that was armed before can come      *)
(* between, and it decides by the schedule it finds, so both are one step. *)
(*                                                                         *)
(* Times are what is left of them: 0 is due now.  Wall-clock time does not *)
(* step back.  How long a failed round waits is any of Backoffs, which     *)
(* stands for the growing delays and the server's Retry-After.             *)
(***************************************************************************)
EXTENDS Naturals, Sequences

CONSTANTS
  StartupDelay, QuietWindow, ProgressWindow,
  Backoffs,
  Operations,   \* which administrative operations are used
  MaxCalls      \* bound: commands of the window

AllOperations == {"test", "connect", "disconnect", "reset"}

ASSUME ControlAssumption ==
  /\ {StartupDelay, QuietWindow, ProgressWindow, MaxCalls} \subseteq Nat
  /\ Backoffs \subseteq Nat
  /\ Operations \subseteq AllOperations

Changes == {"DataChanged", "ProgressChanged"}

Triggers == Changes \cup {"Manual", "Startup", "Foreground", "ReaderClosed"}

Outcomes == {"done", "retryable", "failed"}

VARIABLES
  foreground, busy,   \* Activity: the window is visible; the reader is touched
  connected,          \* a connection is set up
  schedule,
  timer,              \* the timer task that has not been cancelled, if any
  epoch,
  rounds,             \* epochs whose round task has not ended
  stopped,            \* those of them whose Cancel was set
  lost,               \* history: those of them that a test took round_cancel from
  token,              \* whose Cancel round_cancel is
  queue,              \* the gate: its holder, then who waits for it, in order
  admin,              \* the administrative operation under way (admin_busy)
  owed,               \* rounds that connect and reset still have to ask for
  calls

activity == <<foreground, busy>>
tasks == <<rounds, stopped, lost, token, queue>>
vars == <<activity, connected, schedule, timer, epoch, tasks, admin, owed, calls>>

\* due means something while pending only: the program sets and clears both together.
Fresh ==
  [running |-> FALSE, pending |-> FALSE, due |-> 0, retry |-> 0, blocked |-> FALSE,
   manual |-> FALSE, window |-> 0]

NoTimer == [armed |-> FALSE]
TimerOf(e, t) == [armed |-> TRUE, epoch |-> e, due |-> t]

NoTicket == [kind |-> "none", epoch |-> 0]
AdminTicket == [kind |-> "admin", epoch |-> 0]
RoundTicket(e) == [kind |-> "round", epoch |-> e]

\* Loading fails once, at the start, when the connection file is damaged.
Init ==
  /\ foreground = TRUE
  /\ busy = FALSE
  /\ connected \in BOOLEAN
  /\ schedule \in {s \in {Fresh, [Fresh EXCEPT !.blocked = TRUE]} : connected => s = Fresh}
  /\ timer = NoTimer
  /\ epoch = 0
  /\ rounds = {}
  /\ stopped = {}
  /\ lost = {}
  /\ token = NoTicket
  /\ queue = <<>>
  /\ admin = "none"
  /\ owed = 0
  /\ calls = 0

-----------------------------------------------------------------------------
\* The schedule

Earlier(m, n) == IF m <= n THEN m ELSE n
Later(m, n) == IF m >= n THEN m ELSE n

Delay(s, reason) ==
  CASE reason = "Startup" -> StartupDelay
    [] reason = "DataChanged" -> QuietWindow
    [] reason = "ProgressChanged" -> Later(QuietWindow, s.window)
    [] OTHER -> 0

DueWith(s, reason) ==
  LET due == Later(Delay(s, reason), s.retry)
  IN  IF ~s.pending THEN due
      ELSE IF reason \in Changes /\ s.due > 0 /\ ~s.manual THEN Later(s.due, due)
      ELSE Earlier(s.due, due)

Unblocked(s) == [s EXCEPT !.blocked = FALSE, !.retry = 0, !.manual = TRUE]

Called(s, reason) ==
  CASE reason = "Manual" -> Unblocked(s)
    [] reason = "Foreground" /\ ~s.blocked -> [s EXCEPT !.retry = 0]
    [] OTHER -> s

Requested(s, reason) ==
  LET c == Called(s, reason)
  IN  IF c.blocked THEN c
      ELSE [c EXCEPT !.pending = TRUE, !.due = DueWith(c, reason)]

Startable(s) == ~s.running /\ s.pending /\ ~s.blocked /\ s.due = 0

Started(s) ==
  [s EXCEPT !.running = TRUE, !.pending = FALSE, !.manual = FALSE, !.due = 0,
            !.window = ProgressWindow]

Withdrawn(s) == [Fresh EXCEPT !.blocked = s.blocked, !.window = s.window]

\* Mutants: a round that was stopped leaves the schedule running; a failure
\* blocks the round that was asked for by hand.
FinishedStuck(s, outcome, backoff) ==
  IF outcome = "cancelled" THEN [s EXCEPT !.pending = TRUE, !.due = 0]
  ELSE [s EXCEPT !.running = FALSE]

FinishedBlocked(s, outcome, backoff) ==
  LET over == [s EXCEPT !.running = FALSE]
  IN  CASE outcome = "failed" ->
             [over EXCEPT !.blocked = TRUE, !.pending = FALSE, !.due = 0, !.retry = 0]
        [] OTHER -> over

Finished(s, outcome, backoff) ==
  LET over == [s EXCEPT !.running = FALSE]
  IN  CASE outcome = "done" -> [over EXCEPT !.retry = 0]
        [] outcome # "done" /\ s.manual /\ s.pending ->
             [over EXCEPT !.blocked = FALSE, !.retry = 0, !.due = 0]
        [] outcome = "cancelled" /\ ~(s.manual /\ s.pending) ->
             [over EXCEPT !.pending = TRUE, !.due = 0]
        [] outcome = "retryable" /\ ~(s.manual /\ s.pending) ->
             [over EXCEPT !.pending = TRUE, !.due = backoff, !.retry = backoff]
        [] outcome = "failed" /\ ~(s.manual /\ s.pending) ->
             [over EXCEPT !.blocked = TRUE, !.pending = FALSE, !.due = 0, !.retry = 0]

-----------------------------------------------------------------------------
\* Tools of the service

\* Mutant: a timer that is running is kept.
KeptTimer ==
  timer' = IF timer.armed \/ ~schedule'.pending THEN timer
           ELSE TimerOf(epoch', schedule'.due)

Arm ==
  timer' =
    IF /\ admin' = "none"
       /\ ~schedule'.running
       /\ connected'
       /\ ~schedule'.blocked
       /\ foreground'
       /\ schedule'.pending
    THEN TimerOf(epoch', schedule'.due)
    ELSE NoTimer

\* Mutants: only the timer is stopped; a round that is over is stopped too.
StopNothing == stopped' = stopped
StopGone == stopped' = stopped \cup {token.epoch}

StopRound ==
  stopped' = stopped \cup {e \in rounds : token = RoundTicket(e)}

Call == calls < MaxCalls /\ calls' = calls + 1

-----------------------------------------------------------------------------
\* Commands of the window

Trigger(reason) ==
  /\ Call
  /\ connected
  /\ schedule' = Requested(schedule, reason)
  /\ UNCHANGED <<activity, connected, epoch, tasks, admin, owed>>
  /\ Arm

SetContext(fg, touched) ==
  /\ Call
  /\ foreground' = fg
  /\ busy' = touched
  /\ IF fg THEN UNCHANGED stopped ELSE StopRound
  /\ schedule' = IF fg /\ ~foreground /\ connected THEN Requested(schedule, "Foreground")
                 ELSE schedule
  /\ UNCHANGED <<connected, epoch, rounds, lost, token, queue, admin, owed>>
  /\ Arm

Cancel ==
  /\ Call
  /\ epoch' = epoch + 1
  /\ StopRound
  /\ schedule' = Withdrawn(schedule)
  /\ timer' = NoTimer
  /\ UNCHANGED <<activity, connected, rounds, lost, token, queue, admin, owed>>

\* test_connection lets the round go on; the others end it and wait.
BeginAdmin(operation) ==
  /\ Call
  /\ admin = "none"
  /\ operation \in Operations
  /\ admin' = operation
  /\ timer' = NoTimer
  /\ IF operation = "test"
     THEN UNCHANGED <<epoch, stopped, schedule>>
     ELSE /\ epoch' = epoch + 1
          /\ StopRound
          /\ schedule' = Withdrawn(schedule)
  /\ UNCHANGED <<activity, connected, rounds, lost, token, queue, owed>>

-----------------------------------------------------------------------------
\* The administrative operation

AdminQueues ==
  /\ admin # "none"
  /\ \A i \in DOMAIN queue : queue[i] # AdminTicket
  /\ queue' = Append(queue, AdminTicket)
  /\ UNCHANGED <<activity, connected, schedule, timer, epoch, rounds, stopped, lost,
                 token, admin, owed, calls>>

Holds(ticket) == queue # <<>> /\ Head(queue) = ticket

\* From here on round_cancel is the operation's own.  A test has ended no round, and
\* the one that waits behind it for the gate can no longer be stopped.
AdminEnters ==
  /\ Holds(AdminTicket)
  /\ token # AdminTicket
  /\ token' = AdminTicket
  /\ lost' = IF admin = "test" THEN lost \cup (rounds \ stopped) ELSE lost
  /\ UNCHANGED <<activity, connected, schedule, timer, epoch, rounds, stopped, queue,
                 admin, owed, calls>>

Effect(result) ==
  IF result = "failed" \/ admin = "test"
  THEN UNCHANGED <<connected, schedule, owed>>
  ELSE /\ schedule' = Fresh
       /\ connected' = CASE admin = "connect" -> TRUE
                         [] admin = "disconnect" -> FALSE
                         [] admin = "reset" -> connected
       /\ owed' = IF admin # "disconnect" /\ result = "done" THEN owed + 1 ELSE owed

\* It can fail, do all, or do all but report a failure and ask for no round:
\* connect does when the old credential cannot be deleted.
AdminEnds(result) ==
  /\ Holds(AdminTicket)
  /\ token = AdminTicket
  /\ result = "half" => admin = "connect"
  /\ Effect(result)
  /\ queue' = Tail(queue)
  /\ admin' = "none"
  /\ UNCHANGED <<activity, epoch, rounds, stopped, lost, token, calls>>
  /\ Arm

FollowUp ==
  /\ owed > 0
  /\ owed' = owed - 1
  /\ schedule' = IF connected THEN Requested(schedule, "Manual") ELSE schedule
  /\ UNCHANGED <<activity, connected, epoch, tasks, admin, calls>>
  /\ IF connected THEN Arm ELSE UNCHANGED timer

-----------------------------------------------------------------------------
\* The timer and the rounds

\* The timer task waits until it is due and the reader is left alone.
TimerFires ==
  /\ timer.armed
  /\ timer.due = 0
  /\ foreground /\ ~busy
  /\ timer' = NoTimer
  /\ IF timer.epoch = epoch /\ admin = "none" /\ Startable(schedule)
     THEN /\ schedule' = Started(schedule)
          /\ rounds' = rounds \cup {epoch}
          /\ token' = RoundTicket(epoch)
     ELSE UNCHANGED <<schedule, rounds, token>>
  /\ UNCHANGED <<activity, connected, epoch, stopped, lost, queue, admin, owed, calls>>

RoundQueues(e) ==
  /\ e \in rounds
  /\ \A i \in DOMAIN queue : queue[i] # RoundTicket(e)
  /\ queue' = Append(queue, RoundTicket(e))
  /\ UNCHANGED <<activity, connected, schedule, timer, epoch, rounds, stopped, lost,
                 token, admin, owed, calls>>

\* Mutant: the result of a round counts whatever happened meanwhile.
CurrentAlways(e) == TRUE

Current(e) == e = epoch

\* A round that was stopped may have been past its last check.
RoundEnds(e, outcome, backoff) ==
  /\ Holds(RoundTicket(e))
  /\ outcome \in Outcomes \/ (outcome = "cancelled" /\ e \in stopped)
  /\ queue' = Tail(queue)
  /\ rounds' = rounds \ {e}
  /\ stopped' = stopped \ {e}
  /\ lost' = lost \ {e}
  /\ UNCHANGED <<activity, connected, epoch, token, admin, owed, calls>>
  /\ IF Current(e)
     THEN /\ schedule' = Finished(schedule, outcome, backoff)
          /\ Arm
     ELSE UNCHANGED <<schedule, timer>>

Less(n) == IF n = 0 THEN 0 ELSE n - 1

Tick ==
  /\ schedule.due + schedule.retry + schedule.window > 0
  /\ schedule' = [schedule EXCEPT !.due = Less(@), !.retry = Less(@), !.window = Less(@)]
  /\ timer' = IF timer.armed THEN [timer EXCEPT !.due = Less(@)] ELSE timer
  /\ UNCHANGED <<activity, connected, epoch, tasks, admin, owed, calls>>

Ends ==
  \E e \in rounds, outcome \in Outcomes \cup {"cancelled"}, backoff \in Backoffs :
    RoundEnds(e, outcome, backoff)

Next ==
  \/ \E reason \in Triggers : Trigger(reason)
  \/ \E fg, touched \in BOOLEAN : SetContext(fg, touched)
  \/ Cancel
  \/ \E operation \in Operations : BeginAdmin(operation)
  \/ AdminQueues \/ AdminEnters \/ FollowUp
  \/ \E result \in {"done", "half", "failed"} : AdminEnds(result)
  \/ TimerFires
  \/ \E e \in rounds : RoundQueues(e)
  \/ Ends
  \/ Tick

Spec == Init /\ [][Next]_vars

\* Time passes, tasks run, and requests end: each has a deadline.  A round that
\* was not stopped waits while the window is hidden or the reader is touched.
Fairness ==
  /\ WF_vars(Tick)
  /\ WF_vars(TimerFires)
  /\ WF_vars(\E e \in rounds : RoundQueues(e))
  /\ WF_vars(Ends /\ (Head(queue).epoch \in stopped \/ (foreground /\ ~busy)))
  /\ WF_vars(AdminQueues)
  /\ WF_vars(AdminEnters)
  /\ WF_vars(\E result \in {"done", "half", "failed"} : AdminEnds(result))
  /\ WF_vars(FollowUp)

FairSpec == Spec /\ Fairness

-----------------------------------------------------------------------------
\* Properties

Epochs == 0 .. MaxCalls
Tickets == {NoTicket, AdminTicket} \cup {RoundTicket(e) : e \in Epochs}

Schedules ==
  [running : BOOLEAN, pending : BOOLEAN, due : Nat, retry : Nat, blocked : BOOLEAN,
   manual : BOOLEAN, window : Nat]

\* Every variable keeps its shape, and the gate has each task in it once.
TypeOK ==
  /\ {foreground, busy, connected} \subseteq BOOLEAN
  /\ schedule \in Schedules
  /\ timer \in [armed : {TRUE}, epoch : Epochs, due : Nat] \cup {NoTimer}
  /\ epoch \in Epochs
  /\ rounds \subseteq Epochs
  /\ stopped \subseteq rounds
  /\ lost \subseteq rounds
  /\ token \in Tickets
  /\ queue \in Seq(Tickets \ {NoTicket})
  /\ \A i, j \in DOMAIN queue : queue[i] = queue[j] => i = j
  /\ admin \in AllOperations \cup {"none"}
  /\ owed \in 0 .. MaxCalls
  /\ calls \in 0 .. MaxCalls

\* A wanted round is never left without a timer: whichever command, failure,
\* return to the foreground or end of an operation comes last arms one that
\* will find its epoch current and the round due.
Waiting ==
  /\ schedule.pending /\ ~schedule.running /\ ~schedule.blocked
  /\ connected /\ foreground /\ admin = "none"

NoLostTimer == Waiting => timer = TimerOf(epoch, schedule.due)

\* The schedule counts as running exactly while the round of the current epoch
\* exists: a round that was stopped or overtaken never ends another one's turn,
\* and none that ended keeps the schedule busy.
RunningIsCurrent == schedule.running <=> epoch \in rounds

\* A round asked for by hand is due at once, whatever failed before it, and
\* nothing postpones or blocks it until it starts.
ManualIsDue ==
  schedule.manual =>
    schedule.pending /\ schedule.due = 0 /\ schedule.retry = 0 /\ ~schedule.blocked

\* Stopping reaches every round but those that a test of the connection took
\* round_cancel from: a round that an operation, the stop button or hiding the window
\* has overtaken has been told to stop, whatever ran, ended or failed before.
OvertakenIsStopped ==
  \A e \in rounds : e # epoch \/ ~foreground => e \in stopped \cup lost

\* A wanted round starts, or stops being wanted, when the window stays visible
\* and the reader is left alone: no order of commands, failures and operations
\* leaves everyone waiting.
Wanted == schedule.pending /\ ~schedule.blocked /\ connected /\ foreground /\ ~busy

RequestsServed == Wanted ~> ~Wanted
=============================================================================
