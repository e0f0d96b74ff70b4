----------------------- MODULE CloudSyncControlProofs -----------------------
(***************************************************************************)
(* The schedule of cloud rounds keeps its promises for any delays, any     *)
(* operations and any number of calls.  Sound strengthens the invariants   *)
(* of CloudSyncControl: an operation other than a test of the connection   *)
(* has ended the round before it queues, only such an operation's ticket   *)
(* is in the gate, and epochs and owed rounds are paid for by calls.       *)
(***************************************************************************)
EXTENDS CloudSyncControl, SequenceTheorems, TLAPS

Timers == [armed : {TRUE}, epoch : Epochs, due : Nat] \cup {NoTimer}

DueByHand(s) == s.manual => s.pending /\ s.due = 0 /\ s.retry = 0 /\ ~s.blocked

\* Calls pay for epochs, operations and the rounds they ask for.
Paid ==
  /\ epoch <= calls
  /\ owed <= calls
  /\ admin # "none" => owed < calls
  /\ rounds \subseteq 0 .. epoch

AdminInGate == \E i \in DOMAIN queue : queue[i] = AdminTicket

\* Only an operation under way is in the gate, and it has ended the round.
AdminSound ==
  /\ AdminInGate => admin # "none"
  /\ admin \notin {"none", "test"} => epoch \notin rounds

Sound == TypeOK /\ Paid /\ AdminSound /\ ManualIsDue /\ NoLostTimer /\ RunningIsCurrent

-----------------------------------------------------------------------------
\* The schedule

\* A request keeps the shape and the turn of the schedule, and a round asked for
\* by hand due.
LEMMA RequestKeeps ==
  ASSUME NEW s \in Schedules, NEW reason \in Triggers, DueByHand(s)
  PROVE  /\ Requested(s, reason) \in Schedules
         /\ Requested(s, reason).running = s.running
         /\ DueByHand(Requested(s, reason))
<1> DEFINE c == Called(s, reason)
<1>1. c \in Schedules /\ c.running = s.running
  BY DEF Called, Unblocked, Schedules
<1>2. Delay(c, reason) \in Nat
  BY <1>1, ControlAssumption DEF Delay, Schedules, Later
<1>3. DueWith(c, reason) \in Nat
  BY <1>1, <1>2 DEF DueWith, Schedules, Later, Earlier
<1>4. CASE c.blocked
  <2>1. Requested(s, reason) = c
    BY <1>4 DEF Requested
  <2>2. ~c.manual
    BY <1>4 DEF Called, Unblocked, Schedules, DueByHand
  <2> QED
    BY <1>1, <2>1, <2>2 DEF DueByHand
<1>5. CASE ~c.blocked
  <2>1. Requested(s, reason) = [c EXCEPT !.pending = TRUE, !.due = DueWith(c, reason)]
    BY <1>5 DEF Requested
  <2>2. c.manual => c.retry = 0 /\ (c.pending => c.due = 0 \/ reason = "Manual")
    BY DEF Called, Unblocked, Schedules, DueByHand
  <2>3. c.manual => s.manual \/ reason = "Manual"
    BY DEF Called, Unblocked, Schedules
  <2>4. s.manual => c.pending /\ c.due = 0
    BY DEF Called, Unblocked, Schedules, DueByHand
  <2>5. reason = "Manual" => Delay(c, reason) = 0 /\ reason \notin Changes
    BY DEF Delay, Changes
  <2>6. c.manual => DueWith(c, reason) = 0
    BY <1>1, <1>2, <2>2, <2>3, <2>4, <2>5 DEF DueWith, Schedules, Later, Earlier
  <2> QED
    BY <1>1, <1>3, <1>5, <2>1, <2>2, <2>6 DEF Schedules, DueByHand
<1> QED
  BY <1>4, <1>5

\* A round that ends gives up the turn, and a round asked for by hand meanwhile
\* stays due.
LEMMA FinishKeeps ==
  ASSUME NEW s \in Schedules, NEW outcome \in Outcomes \cup {"cancelled"},
         NEW backoff \in Backoffs, DueByHand(s)
  PROVE  /\ Finished(s, outcome, backoff) \in Schedules
         /\ ~Finished(s, outcome, backoff).running
         /\ DueByHand(Finished(s, outcome, backoff))
<1>1. backoff \in Nat
  BY ControlAssumption
<1>2. CASE outcome = "done"
  BY <1>1, <1>2 DEF Finished, Schedules, DueByHand
<1>3. CASE outcome # "done" /\ s.manual /\ s.pending
  BY <1>1, <1>3 DEF Finished, Schedules, DueByHand
<1>4. CASE outcome = "cancelled" /\ ~(s.manual /\ s.pending)
  BY <1>1, <1>4 DEF Finished, Schedules, DueByHand
<1>5. CASE outcome = "retryable" /\ ~(s.manual /\ s.pending)
  BY <1>1, <1>5 DEF Finished, Schedules, DueByHand
<1>6. CASE outcome = "failed" /\ ~(s.manual /\ s.pending)
  BY <1>1, <1>6 DEF Finished, Schedules, DueByHand
<1> QED
  BY <1>2, <1>3, <1>4, <1>5, <1>6 DEF Outcomes

\* A schedule that starts afresh has no turn and nothing pending.
LEMMA FreshSchedule ==
  /\ Fresh \in Schedules /\ ~Fresh.running /\ ~Fresh.pending /\ DueByHand(Fresh)
  /\ \A s \in Schedules :
       /\ Withdrawn(s) \in Schedules /\ ~Withdrawn(s).running
       /\ ~Withdrawn(s).pending /\ DueByHand(Withdrawn(s))
BY DEF Fresh, Withdrawn, Schedules, DueByHand

\* Arming keeps the shape of the timer and loses none.
LEMMA ArmKeeps ==
  ASSUME schedule' \in Schedules, epoch' \in Epochs, Arm
  PROVE  timer' \in Timers /\ NoLostTimer'
<1>1. schedule'.due \in Nat
  BY DEF Schedules
<1>2. timer' = IF Waiting' THEN TimerOf(epoch', schedule'.due) ELSE NoTimer
  BY DEF Arm, Waiting
<1> QED
  BY <1>1, <1>2 DEF Timers, TimerOf, NoLostTimer

-----------------------------------------------------------------------------
\* The gate

GateOK(q) ==
  /\ q \in Seq(Tickets \ {NoTicket})
  /\ \A i, j \in DOMAIN q : q[i] = q[j] => i = j

\* A task that is not in the gate may join it.
LEMMA JoinGate ==
  ASSUME NEW q, GateOK(q), NEW t \in Tickets \ {NoTicket},
         \A i \in DOMAIN q : q[i] # t
  PROVE  /\ GateOK(Append(q, t))
         /\ \A i \in DOMAIN Append(q, t) :
              Append(q, t)[i] = t \/ \E j \in DOMAIN q : Append(q, t)[i] = q[j]
BY DEF GateOK

\* The holder leaves the gate for good, and nobody else does.
LEMMA LeaveGate ==
  ASSUME NEW q, GateOK(q), q # <<>>
  PROVE  /\ GateOK(Tail(q))
         /\ \A i \in DOMAIN Tail(q) : Tail(q)[i] # Head(q)
         /\ \A i \in DOMAIN Tail(q) : \E j \in DOMAIN q : Tail(q)[i] = q[j]
<1>1. q \in Seq(Tickets \ {NoTicket}) /\ Len(q) \in Nat \ {0} /\ DOMAIN q = 1 .. Len(q)
  BY DEF GateOK
<1>2. /\ Tail(q) \in Seq(Tickets \ {NoTicket})
      /\ DOMAIN Tail(q) = 1 .. (Len(q) - 1)
      /\ \A i \in 1 .. (Len(q) - 1) : Tail(q)[i] = q[i + 1]
  BY <1>1
<1>3. Head(q) = q[1]
  BY <1>1
<1> QED
  BY <1>1, <1>2, <1>3 DEF GateOK

\* Tickets tell tasks apart.
LEMMA TicketKinds ==
  /\ AdminTicket \in Tickets \ {NoTicket}
  /\ \A e \in Epochs : RoundTicket(e) \in Tickets \ {NoTicket} /\ RoundTicket(e) # AdminTicket
  /\ \A e, f \in Epochs : RoundTicket(e) = RoundTicket(f) => e = f
BY DEF Tickets, RoundTicket, AdminTicket, NoTicket

-----------------------------------------------------------------------------
\* Calls of the window

\* A trigger only asks and arms.
LEMMA TriggerSound ==
  ASSUME Sound, NEW reason \in Triggers, Trigger(reason)
  PROVE  Sound'
<1> USE DEF Sound
<1>1. /\ schedule' \in Schedules
      /\ schedule'.running = schedule.running
      /\ DueByHand(schedule')
  BY RequestKeeps DEF Trigger, TypeOK, ManualIsDue, DueByHand
<1>2. UNCHANGED <<activity, connected, epoch, tasks, admin, owed>>
  BY DEF Trigger
<1>3. timer' \in Timers /\ NoLostTimer'
  BY <1>1, <1>2, ArmKeeps DEF Trigger, TypeOK
<1>4. calls' = calls + 1 /\ calls' \in 0 .. MaxCalls
  BY ControlAssumption DEF Trigger, Call, TypeOK
<1>5. TypeOK'
  BY <1>1, <1>2, <1>3, <1>4 DEF TypeOK, Timers, activity, tasks
<1>6. Paid'
  BY <1>2, <1>4 DEF Paid, TypeOK, tasks, Epochs
<1>7. AdminSound'
  BY <1>2 DEF AdminSound, AdminInGate, tasks
<1>8. ManualIsDue' /\ RunningIsCurrent'
  BY <1>1, <1>2 DEF ManualIsDue, DueByHand, RunningIsCurrent, tasks
<1> QED
  BY <1>3, <1>5, <1>6, <1>7, <1>8

\* A change of the context asks for a round at most, and stops one at most.
LEMMA SetContextSound ==
  ASSUME Sound, NEW fg \in BOOLEAN, NEW touched \in BOOLEAN, SetContext(fg, touched)
  PROVE  Sound'
<1> USE DEF Sound
<1>1. /\ schedule' \in Schedules
      /\ schedule'.running = schedule.running
      /\ DueByHand(schedule')
  <2>1. "Foreground" \in Triggers
    BY DEF Triggers
  <2> QED
    BY <2>1, RequestKeeps DEF SetContext, TypeOK, ManualIsDue, DueByHand
<1>2. UNCHANGED <<connected, epoch, rounds, lost, token, queue, admin, owed>>
  BY DEF SetContext
<1>3. timer' \in Timers /\ NoLostTimer'
  BY <1>1, <1>2, ArmKeeps DEF SetContext, TypeOK
<1>4. calls' = calls + 1 /\ calls' \in 0 .. MaxCalls
  BY ControlAssumption DEF SetContext, Call, TypeOK
<1>5. stopped' \subseteq rounds
  BY DEF SetContext, StopRound, TypeOK
<1>6. {foreground', busy'} \subseteq BOOLEAN
  BY DEF SetContext
<1>7. TypeOK'
  BY <1>1, <1>2, <1>3, <1>4, <1>5, <1>6 DEF TypeOK, Timers
<1>8. Paid'
  BY <1>2, <1>4 DEF Paid, TypeOK, Epochs
<1>9. AdminSound'
  BY <1>2 DEF AdminSound, AdminInGate
<1>10. ManualIsDue' /\ RunningIsCurrent'
  BY <1>1, <1>2 DEF ManualIsDue, DueByHand, RunningIsCurrent
<1> QED
  BY <1>3, <1>7, <1>8, <1>9, <1>10

\* Both Cancel and an operation that ends the round open an epoch without one.
LEMMA NewEpochSound ==
  ASSUME Sound, Call, epoch' = epoch + 1, StopRound, schedule' = Withdrawn(schedule),
         timer' = NoTimer, admin' \in AllOperations \cup {"none"},
         AdminInGate => admin' # "none",
         UNCHANGED <<activity, connected, rounds, lost, token, queue, owed>>
  PROVE  Sound'
<1> USE DEF Sound
<1>1. /\ schedule' \in Schedules /\ ~schedule'.running
      /\ ~schedule'.pending /\ DueByHand(schedule')
  BY FreshSchedule DEF TypeOK
<1>2. calls' = calls + 1 /\ calls' \in 0 .. MaxCalls /\ epoch' \in Epochs
  BY ControlAssumption DEF Call, TypeOK, Paid, Epochs
<1>3. stopped' \subseteq rounds
  BY DEF StopRound, TypeOK
<1>4. TypeOK'
  BY <1>1, <1>2, <1>3 DEF TypeOK, activity
<1>5. epoch' \notin rounds'
  BY DEF Paid, TypeOK, Epochs
<1>6. Paid'
  BY <1>2 DEF Paid, TypeOK, Epochs
<1>7. AdminSound'
  BY <1>5 DEF AdminSound, AdminInGate
<1>8. ManualIsDue' /\ RunningIsCurrent' /\ NoLostTimer'
  BY <1>1, <1>5 DEF ManualIsDue, DueByHand, RunningIsCurrent, NoLostTimer, Waiting
<1> QED
  BY <1>4, <1>6, <1>7, <1>8

\* Cancel opens an epoch and leaves the operation alone.
LEMMA CancelSound ==
  ASSUME Sound, Cancel
  PROVE  Sound'
<1>1. /\ Call /\ epoch' = epoch + 1 /\ StopRound /\ schedule' = Withdrawn(schedule)
      /\ timer' = NoTimer /\ admin' = admin
      /\ UNCHANGED <<activity, connected, rounds, lost, token, queue, owed>>
  BY DEF Cancel
<1> QED
  BY <1>1, NewEpochSound DEF Sound, TypeOK, AdminSound

\* No operation begins while one is under way, so the gate has no ticket of one.
LEMMA BeginAdminSound ==
  ASSUME Sound, NEW operation \in Operations, BeginAdmin(operation)
  PROVE  Sound'
<1> USE DEF Sound
<1>1. /\ admin = "none" /\ admin' = operation /\ operation \in AllOperations
      /\ operation # "none" /\ ~AdminInGate
  BY ControlAssumption DEF BeginAdmin, AdminSound, AllOperations
<1>2. CASE operation # "test"
  BY <1>1, <1>2, NewEpochSound DEF BeginAdmin
<1>3. CASE operation = "test"
  <2>1. UNCHANGED <<activity, connected, epoch, stopped, schedule,
                    rounds, lost, token, queue, owed>>
    BY <1>3 DEF BeginAdmin
  <2>2. calls' = calls + 1 /\ calls' \in 0 .. MaxCalls /\ timer' = NoTimer
    BY ControlAssumption DEF BeginAdmin, Call, TypeOK
  <2>3. TypeOK'
    BY <1>1, <2>1, <2>2 DEF TypeOK, activity
  <2>4. Paid'
    BY <1>1, <2>1, <2>2 DEF Paid, TypeOK, Epochs
  <2>5. AdminSound' /\ ManualIsDue' /\ RunningIsCurrent' /\ NoLostTimer'
    BY <1>1, <1>3, <2>1
    DEF AdminSound, AdminInGate, ManualIsDue, RunningIsCurrent, NoLostTimer, Waiting
  <2> QED
    BY <2>3, <2>4, <2>5
<1> QED
  BY <1>2, <1>3

-----------------------------------------------------------------------------
\* The operation

\* A task joins the gate; nothing else changes.
LEMMA JoiningSound ==
  ASSUME Sound, NEW t \in Tickets \ {NoTicket},
         \A i \in DOMAIN queue : queue[i] # t,
         t = AdminTicket => admin # "none",
         queue' = Append(queue, t),
         UNCHANGED <<activity, connected, schedule, timer, epoch, rounds, stopped, lost,
                     token, admin, owed, calls>>
  PROVE  Sound'
<1> USE DEF Sound
<1>1. /\ GateOK(queue')
      /\ \A i \in DOMAIN queue' : queue'[i] = t \/ \E j \in DOMAIN queue : queue'[i] = queue[j]
  BY JoinGate DEF TypeOK, GateOK
<1>2. TypeOK'
  BY <1>1 DEF TypeOK, GateOK, activity
<1>3. Paid'
  BY DEF Paid
<1>4. AdminSound'
  BY <1>1 DEF AdminSound, AdminInGate
<1>5. ManualIsDue' /\ NoLostTimer' /\ RunningIsCurrent'
  BY DEF ManualIsDue, NoLostTimer, RunningIsCurrent, Waiting, activity
<1> QED
  BY <1>2, <1>3, <1>4, <1>5

\* The operation under way joins the gate once.
LEMMA AdminQueuesSound ==
  ASSUME Sound, AdminQueues
  PROVE  Sound'
BY JoiningSound, TicketKinds DEF AdminQueues

\* A round joins the gate once.
LEMMA RoundQueuesSound ==
  ASSUME Sound, NEW e \in rounds, RoundQueues(e)
  PROVE  Sound'
<1>1. e \in Epochs
  BY DEF Sound, TypeOK
<1> QED
  BY <1>1, JoiningSound, TicketKinds DEF RoundQueues

\* The operation takes round_cancel over; no part of Sound is about it.
LEMMA AdminEntersSound ==
  ASSUME Sound, AdminEnters
  PROVE  Sound'
<1> USE DEF Sound
<1>1. /\ token' = AdminTicket
      /\ lost' \subseteq lost \cup rounds
      /\ UNCHANGED <<activity, connected, schedule, timer, epoch, rounds, stopped, queue,
                     admin, owed, calls>>
  BY DEF AdminEnters
<1>2. TypeOK'
  BY <1>1 DEF TypeOK, Tickets, activity
<1>3. Paid' /\ AdminSound'
  BY <1>1 DEF Paid, AdminSound, AdminInGate
<1>4. ManualIsDue' /\ NoLostTimer' /\ RunningIsCurrent'
  BY <1>1 DEF ManualIsDue, NoLostTimer, RunningIsCurrent, Waiting, activity
<1> QED
  BY <1>2, <1>3, <1>4

\* The operation that ends was under way; unless it was a test it had ended the
\* round, so that a fresh schedule is no round's.
LEMMA AdminEndsSound ==
  ASSUME Sound, NEW result \in {"done", "half", "failed"}, AdminEnds(result)
  PROVE  Sound'
<1> USE DEF Sound
<1>1. GateOK(queue) /\ queue # <<>> /\ Head(queue) = AdminTicket
  BY DEF AdminEnds, Holds, TypeOK, GateOK
<1>2. admin # "none"
  <2>1. 1 \in DOMAIN queue /\ queue[1] = AdminTicket
    BY <1>1 DEF GateOK
  <2> QED
    BY <2>1 DEF AdminSound, AdminInGate
<1>3. /\ GateOK(queue')
      /\ \A i \in DOMAIN queue' : queue'[i] # AdminTicket
  BY <1>1, LeaveGate DEF AdminEnds
<1>4. /\ admin' = "none"
      /\ UNCHANGED <<activity, epoch, rounds, stopped, lost, token, calls>>
  BY DEF AdminEnds
<1>5. /\ connected' \in BOOLEAN
      /\ owed' \in 0 .. MaxCalls /\ owed' <= owed + 1
      /\ schedule' \in Schedules /\ DueByHand(schedule')
      /\ schedule'.running <=> epoch \in rounds
  <2>1. CASE result = "failed" \/ admin = "test"
    <3>1. UNCHANGED <<connected, schedule, owed>>
      BY <2>1 DEF AdminEnds, Effect
    <3>2. owed' <= owed + 1
      BY <3>1, ControlAssumption DEF TypeOK
    <3>3. DueByHand(schedule') /\ (schedule'.running <=> epoch \in rounds)
      BY <3>1 DEF ManualIsDue, DueByHand, RunningIsCurrent
    <3> QED
      BY <3>1, <3>2, <3>3 DEF TypeOK
  <2>2. CASE ~(result = "failed" \/ admin = "test")
    <3>1. schedule' = Fresh /\ epoch \notin rounds
      BY <1>2, <2>2 DEF AdminEnds, Effect, AdminSound
    <3>2. connected' \in BOOLEAN
      BY <1>2, <2>2 DEF AdminEnds, Effect, TypeOK, AllOperations
    <3>3. owed' = owed \/ owed' = owed + 1
      BY <2>2 DEF AdminEnds, Effect
    <3>4. owed < calls /\ owed \in Nat /\ calls \in 0 .. MaxCalls /\ MaxCalls \in Nat
      BY <1>2, ControlAssumption DEF Paid, TypeOK
    <3> QED
      BY <3>1, <3>2, <3>3, <3>4, FreshSchedule DEF Paid
  <2> QED
    BY <2>1, <2>2
<1>6. timer' \in Timers /\ NoLostTimer'
  BY <1>4, <1>5, ArmKeeps DEF AdminEnds, TypeOK
<1>7. TypeOK'
  BY <1>3, <1>4, <1>5, <1>6 DEF TypeOK, GateOK, Timers, activity
<1>8. Paid'
  <2>1. owed \in Nat /\ owed' \in Nat /\ calls \in Nat
    BY <1>5, ControlAssumption DEF TypeOK
  <2>2. owed' <= calls
    BY <1>2, <1>5, <2>1 DEF Paid
  <2> QED
    BY <1>4, <2>2 DEF Paid
<1>9. AdminSound'
  BY <1>3, <1>4 DEF AdminSound, AdminInGate
<1>10. ManualIsDue' /\ RunningIsCurrent'
  BY <1>4, <1>5 DEF ManualIsDue, DueByHand, RunningIsCurrent
<1> QED
  BY <1>6, <1>7, <1>8, <1>9, <1>10

\* An owed round is asked for, or given up without a connection.
LEMMA FollowUpSound ==
  ASSUME Sound, FollowUp
  PROVE  Sound'
<1> USE DEF Sound
<1>1. UNCHANGED <<activity, connected, epoch, tasks, admin, calls>>
  BY DEF FollowUp
<1>2. owed' = owed - 1 /\ owed' \in 0 .. MaxCalls
  BY ControlAssumption DEF FollowUp, TypeOK
<1>3. /\ schedule' \in Schedules /\ schedule'.running = schedule.running
      /\ DueByHand(schedule')
  <2>1. "Manual" \in Triggers
    BY DEF Triggers
  <2> QED
    BY <2>1, RequestKeeps DEF FollowUp, TypeOK, ManualIsDue, DueByHand
<1>4. timer' \in Timers /\ NoLostTimer'
  <2>1. CASE connected
    <3>1. Arm
      BY <2>1 DEF FollowUp
    <3> QED
      BY <1>1, <1>3, <3>1, ArmKeeps DEF TypeOK
  <2>2. CASE ~connected
    <3>1. timer' = timer /\ ~Waiting'
      BY <1>1, <2>2 DEF FollowUp, Waiting
    <3> QED
      BY <3>1 DEF TypeOK, Timers, NoLostTimer
  <2> QED
    BY <2>1, <2>2
<1>5. TypeOK'
  BY <1>1, <1>2, <1>3, <1>4 DEF TypeOK, Timers, activity, tasks
<1>6. Paid'
  BY <1>1, <1>2 DEF Paid, TypeOK, tasks
<1>7. AdminSound'
  BY <1>1 DEF AdminSound, AdminInGate, tasks
<1>8. ManualIsDue' /\ RunningIsCurrent'
  BY <1>1, <1>3 DEF ManualIsDue, DueByHand, RunningIsCurrent, tasks
<1> QED
  BY <1>4, <1>5, <1>6, <1>7, <1>8

-----------------------------------------------------------------------------
\* The timer and the rounds

\* A timer that starts no round has found none wanted.
LEMMA TimerFiresSound ==
  ASSUME Sound, TimerFires
  PROVE  Sound'
<1> USE DEF Sound
<1>1. /\ timer.armed /\ timer.due = 0 /\ timer' = NoTimer
      /\ UNCHANGED <<activity, connected, epoch, stopped, lost, queue, admin, owed, calls>>
  BY DEF TimerFires
<1>2. CASE timer.epoch = epoch /\ admin = "none" /\ Startable(schedule)
  <2>1. /\ schedule' = Started(schedule) /\ rounds' = rounds \cup {epoch}
        /\ token' = RoundTicket(epoch)
    BY <1>2 DEF TimerFires
  <2>2. /\ schedule' \in Schedules /\ schedule'.running /\ ~schedule'.pending
        /\ DueByHand(schedule')
    BY <2>1, ControlAssumption DEF Started, TypeOK, Schedules, DueByHand
  <2>3. TypeOK'
    BY <1>1, <2>1, <2>2 DEF TypeOK, Tickets, activity
  <2>4. Paid'
    BY <1>1, <2>1 DEF Paid, TypeOK, Epochs
  <2>5. AdminSound'
    BY <1>1, <1>2 DEF AdminSound, AdminInGate
  <2>6. ManualIsDue' /\ NoLostTimer' /\ RunningIsCurrent'
    BY <1>1, <2>1, <2>2 DEF ManualIsDue, DueByHand, NoLostTimer, Waiting, RunningIsCurrent
  <2> QED
    BY <2>3, <2>4, <2>5, <2>6
<1>3. CASE ~(timer.epoch = epoch /\ admin = "none" /\ Startable(schedule))
  <2>1. UNCHANGED <<schedule, rounds, token>>
    BY <1>3 DEF TimerFires
  <2>2. ~Waiting
    BY <1>1, <1>3 DEF NoLostTimer, Waiting, TimerOf, Startable
  <2>3. TypeOK'
    BY <1>1, <2>1 DEF TypeOK, activity
  <2>4. Paid' /\ AdminSound'
    BY <1>1, <2>1 DEF Paid, AdminSound, AdminInGate
  <2>5. ManualIsDue' /\ NoLostTimer' /\ RunningIsCurrent'
    BY <1>1, <2>1, <2>2 DEF ManualIsDue, NoLostTimer, Waiting, RunningIsCurrent, activity
  <2> QED
    BY <2>3, <2>4, <2>5
<1> QED
  BY <1>2, <1>3

\* The round that ends gives up the turn when it is the current one, and touches
\* nothing of the schedule when it is not.
LEMMA RoundEndsSound ==
  ASSUME Sound, NEW e \in rounds, NEW outcome \in Outcomes \cup {"cancelled"},
         NEW backoff \in Backoffs, RoundEnds(e, outcome, backoff)
  PROVE  Sound'
<1> USE DEF Sound
<1>1. /\ rounds' = rounds \ {e} /\ stopped' = stopped \ {e} /\ lost' = lost \ {e}
      /\ UNCHANGED <<activity, connected, epoch, token, admin, owed, calls>>
  BY DEF RoundEnds
<1>2. GateOK(queue') /\ (AdminInGate' => AdminInGate)
  BY LeaveGate DEF RoundEnds, Holds, TypeOK, GateOK, AdminInGate
<1>3. /\ schedule' \in Schedules /\ DueByHand(schedule')
      /\ schedule'.running <=> epoch \in rounds'
      /\ timer' \in Timers /\ NoLostTimer'
  <2>1. CASE e = epoch
    <3>1. /\ schedule' = Finished(schedule, outcome, backoff) /\ Arm
      BY <2>1 DEF RoundEnds, Current
    <3>2. schedule' \in Schedules /\ ~schedule'.running /\ DueByHand(schedule')
      BY <3>1, FinishKeeps DEF TypeOK, ManualIsDue, DueByHand
    <3>3. timer' \in Timers /\ NoLostTimer'
      BY <1>1, <3>1, <3>2, ArmKeeps DEF TypeOK
    <3> QED
      BY <1>1, <2>1, <3>2, <3>3
  <2>2. CASE e # epoch
    <3>1. UNCHANGED <<schedule, timer>>
      BY <2>2 DEF RoundEnds, Current
    <3> QED
      BY <1>1, <2>2, <3>1
      DEF TypeOK, Timers, ManualIsDue, DueByHand, RunningIsCurrent, NoLostTimer, Waiting,
          activity
  <2> QED
    BY <2>1, <2>2
<1>4. TypeOK'
  BY <1>1, <1>2, <1>3 DEF TypeOK, GateOK, Timers, activity
<1>5. Paid' /\ AdminSound'
  BY <1>1, <1>2 DEF Paid, AdminSound
<1>6. ManualIsDue' /\ RunningIsCurrent'
  BY <1>1, <1>3 DEF ManualIsDue, DueByHand, RunningIsCurrent
<1> QED
  BY <1>3, <1>4, <1>5, <1>6

\* The timer and the schedule count down together.
LEMMA TickSound ==
  ASSUME Sound, Tick
  PROVE  Sound'
<1> USE DEF Sound
<1>1. /\ schedule' = [schedule EXCEPT !.due = Less(schedule.due),
                        !.retry = Less(schedule.retry), !.window = Less(schedule.window)]
      /\ timer' = IF timer.armed THEN [timer EXCEPT !.due = Less(timer.due)] ELSE timer
      /\ UNCHANGED <<activity, connected, epoch, tasks, admin, owed, calls>>
  BY DEF Tick
<1>2. \A n \in Nat : Less(n) \in Nat
  BY DEF Less
<1>3. /\ schedule' \in Schedules /\ schedule'.running = schedule.running
      /\ DueByHand(schedule')
  BY <1>1, <1>2 DEF TypeOK, Schedules, ManualIsDue, DueByHand, Less
<1>4. timer' \in Timers
  BY <1>1, <1>2 DEF TypeOK, Timers, NoTimer
<1>5. NoLostTimer'
  <2>1. Waiting' => Waiting
    BY <1>1 DEF Waiting, TypeOK, Schedules, activity
  <2>2. ASSUME Waiting PROVE timer' = TimerOf(epoch', schedule'.due)
    <3>1. timer = TimerOf(epoch, schedule.due)
      BY <2>2 DEF NoLostTimer
    <3>2. timer' = TimerOf(epoch, Less(schedule.due))
      BY <1>1, <3>1 DEF TimerOf
    <3>3. schedule'.due = Less(schedule.due)
      BY <1>1 DEF TypeOK, Schedules
    <3> QED
      BY <1>1, <3>2, <3>3
  <2> QED
    BY <2>1, <2>2 DEF NoLostTimer
<1>6. TypeOK'
  BY <1>1, <1>3, <1>4 DEF TypeOK, Timers, activity, tasks
<1>7. Paid' /\ AdminSound'
  BY <1>1 DEF Paid, AdminSound, AdminInGate, tasks
<1>8. ManualIsDue' /\ RunningIsCurrent'
  BY <1>1, <1>3 DEF ManualIsDue, DueByHand, RunningIsCurrent, tasks
<1> QED
  BY <1>5, <1>6, <1>7, <1>8

-----------------------------------------------------------------------------
\* Every step

\* The program starts in a sound state.
LEMMA InitSound == Init => Sound
<1> SUFFICES ASSUME Init PROVE Sound
  OBVIOUS
<1>1. schedule \in Schedules /\ ~schedule.running /\ ~schedule.pending /\ ~schedule.manual
  BY FreshSchedule DEF Init, Fresh, Schedules
<1>2. queue \in Seq(Tickets \ {NoTicket}) /\ DOMAIN queue = {}
  BY DEF Init
<1>3. TypeOK
  <2>1. MaxCalls \in Nat /\ 0 \in 0 .. MaxCalls
    BY ControlAssumption
  <2>2. /\ {foreground, busy, connected} \subseteq BOOLEAN
        /\ timer = NoTimer /\ rounds = {} /\ stopped = {} /\ lost = {}
        /\ epoch = 0 /\ owed = 0 /\ calls = 0 /\ token = NoTicket /\ admin = "none"
    BY DEF Init
  <2> QED
    BY <1>1, <1>2, <2>1, <2>2 DEF TypeOK, Epochs, Tickets
<1>4. Paid /\ AdminSound
  BY <1>2 DEF Init, Paid, AdminSound, AdminInGate
<1>5. ManualIsDue /\ NoLostTimer /\ RunningIsCurrent
  BY <1>1 DEF Init, ManualIsDue, NoLostTimer, Waiting, RunningIsCurrent
<1> QED
  BY <1>3, <1>4, <1>5 DEF Sound

\* Every step keeps a sound state sound.
LEMMA StepSound == Sound /\ [Next]_vars => Sound'
<1> SUFFICES ASSUME Sound, [Next]_vars PROVE Sound'
  OBVIOUS
<1>1. ASSUME NEW reason \in Triggers, Trigger(reason) PROVE Sound'
  BY <1>1, TriggerSound
<1>2. ASSUME NEW fg \in BOOLEAN, NEW touched \in BOOLEAN, SetContext(fg, touched)
      PROVE  Sound'
  BY <1>2, SetContextSound
<1>3. CASE Cancel
  BY <1>3, CancelSound
<1>4. ASSUME NEW operation \in Operations, BeginAdmin(operation) PROVE Sound'
  BY <1>4, BeginAdminSound
<1>5. CASE AdminQueues
  BY <1>5, AdminQueuesSound
<1>6. CASE AdminEnters
  BY <1>6, AdminEntersSound
<1>7. CASE FollowUp
  BY <1>7, FollowUpSound
<1>8. ASSUME NEW result \in {"done", "half", "failed"}, AdminEnds(result) PROVE Sound'
  BY <1>8, AdminEndsSound
<1>9. CASE TimerFires
  BY <1>9, TimerFiresSound
<1>10. ASSUME NEW e \in rounds, RoundQueues(e) PROVE Sound'
  BY <1>10, RoundQueuesSound
<1>11. CASE Ends
  BY <1>11, RoundEndsSound DEF Ends
<1>12. CASE Tick
  BY <1>12, TickSound
<1>13. CASE UNCHANGED vars
  BY <1>13
  DEF vars, activity, tasks, Sound, TypeOK, Paid, AdminSound, AdminInGate, ManualIsDue,
      NoLostTimer, Waiting, RunningIsCurrent
<1> QED
  BY <1>1, <1>2, <1>3, <1>4, <1>5, <1>6, <1>7, <1>8, <1>9, <1>10, <1>11, <1>12, <1>13
  DEF Next

\* Every state of the service is sound.
LEMMA AlwaysSound == Spec => []Sound
BY InitSound, StepSound, PTL DEF Spec

\* Every variable of the service keeps its shape, and no task is in the gate
\* twice (scheduler.rs, commands.rs).
THEOREM ControlTypes == Spec => []TypeOK
<1>1. Sound => TypeOK
  BY DEF Sound
<1> QED
  BY <1>1, AlwaysSound, PTL

\* Whenever a round is wanted and may run, the timer that will start it is armed
\* with the current epoch and the time the round is due (arm_locked, commands.rs).
THEOREM NoWakeupIsLost == Spec => []NoLostTimer
<1>1. Sound => NoLostTimer
  BY DEF Sound
<1> QED
  BY <1>1, AlwaysSound, PTL

\* The schedule is running exactly while the current round exists, although
\* rounds of earlier epochs end at any time (finish_round, commands.rs).
THEOREM OneRoundHasTheTurn == Spec => []RunningIsCurrent
<1>1. Sound => RunningIsCurrent
  BY DEF Sound
<1> QED
  BY <1>1, AlwaysSound, PTL

\* No failure, retry delay, change or block postpones a round asked for by hand
\* (request and finish, scheduler.rs).
THEOREM ManualComesFirst == Spec => []ManualIsDue
<1>1. Sound => ManualIsDue
  BY DEF Sound
<1> QED
  BY <1>1, AlwaysSound, PTL

-----------------------------------------------------------------------------
\* Stopping

\* round_cancel is the only way to stop a round: the one round that was neither
\* stopped nor lost is the one it names.
Reachable == \A e \in rounds : e \in stopped \cup lost \/ token = RoundTicket(e)

StopSound == OvertakenIsStopped /\ Reachable

\* Stopping reaches every round that is not lost.
LEMMA StopReachesAll ==
  ASSUME Reachable, StopRound
  PROVE  rounds \subseteq stopped' \cup lost
BY DEF Reachable, StopRound

\* The operation that enters the gate has ended every round, or is a test.
LEMMA EntersAfterAll ==
  ASSUME Sound, OvertakenIsStopped, AdminEnters
  PROVE  rounds \subseteq stopped \cup lost'
<1>1. AdminInGate
  <2>1. queue \in Seq(Tickets \ {NoTicket}) /\ queue # <<>> /\ Head(queue) = AdminTicket
    BY DEF AdminEnters, Holds, Sound, TypeOK
  <2>2. 1 \in DOMAIN queue /\ queue[1] = AdminTicket
    BY <2>1
  <2> QED
    BY <2>2 DEF AdminInGate
<1>2. CASE admin = "test"
  BY <1>2 DEF AdminEnters
<1>3. CASE admin # "test"
  <2>1. epoch \notin rounds
    BY <1>1, <1>3 DEF Sound, AdminSound
  <2> QED
    BY <1>3, <2>1 DEF OvertakenIsStopped, AdminEnters
<1> QED
  BY <1>2, <1>3

\* Every step keeps stopping possible.
LEMMA StepStops == Sound /\ StopSound /\ [Next]_vars => StopSound'
<1> SUFFICES ASSUME Sound, StopSound, [Next]_vars PROVE StopSound'
  OBVIOUS
<1> USE DEF StopSound
<1>1. ASSUME UNCHANGED <<foreground, epoch, rounds, stopped, lost, token>>
      PROVE  StopSound'
  BY <1>1 DEF OvertakenIsStopped, Reachable
<1>2. ASSUME StopRound, UNCHANGED <<rounds, lost, token>>
      PROVE  StopSound'
  <2>1. rounds' \subseteq stopped' \cup lost'
    BY <1>2, StopReachesAll
  <2> QED
    BY <2>1 DEF OvertakenIsStopped, Reachable
<1>3. ASSUME NEW reason \in Triggers, Trigger(reason) PROVE StopSound'
  BY <1>1, <1>3 DEF Trigger, activity, tasks
<1>4. ASSUME NEW fg \in BOOLEAN, NEW touched \in BOOLEAN, SetContext(fg, touched)
      PROVE  StopSound'
  <2>1. UNCHANGED <<epoch, rounds, lost, token>> /\ foreground' = fg
    BY <1>4 DEF SetContext
  <2>2. CASE ~fg
    BY <1>2, <1>4, <2>1, <2>2 DEF SetContext
  <2>3. CASE fg
    <3>1. stopped' = stopped
      BY <1>4, <2>3 DEF SetContext
    <3> QED
      BY <2>1, <2>3, <3>1 DEF OvertakenIsStopped, Reachable
  <2> QED
    BY <2>2, <2>3
<1>5. CASE Cancel
  BY <1>2, <1>5 DEF Cancel
<1>6. ASSUME NEW operation \in Operations, BeginAdmin(operation) PROVE StopSound'
  <2>1. CASE operation = "test"
    BY <1>1, <1>6, <2>1 DEF BeginAdmin, activity
  <2>2. CASE operation # "test"
    BY <1>2, <1>6, <2>2 DEF BeginAdmin
  <2> QED
    BY <2>1, <2>2
<1>7. CASE AdminQueues
  BY <1>1, <1>7 DEF AdminQueues, activity
<1>8. CASE AdminEnters
  <2>1. rounds' \subseteq stopped' \cup lost'
    BY <1>8, EntersAfterAll DEF AdminEnters
  <2> QED
    BY <2>1 DEF OvertakenIsStopped, Reachable
<1>9. CASE FollowUp
  BY <1>1, <1>9 DEF FollowUp, activity, tasks
<1>10. ASSUME NEW result \in {"done", "half", "failed"}, AdminEnds(result)
       PROVE  StopSound'
  BY <1>1, <1>10 DEF AdminEnds, activity
\* The round that starts takes round_cancel over when all others are stopped or lost.
<1>11. CASE TimerFires
  <2>1. CASE timer.epoch = epoch /\ admin = "none" /\ Startable(schedule)
    <3>1. /\ rounds' = rounds \cup {epoch} /\ token' = RoundTicket(epoch)
          /\ foreground /\ UNCHANGED <<foreground, epoch, stopped, lost>>
      BY <1>11, <2>1 DEF TimerFires, activity
    <3>2. rounds \subseteq stopped \cup lost
      BY <2>1 DEF Startable, Sound, RunningIsCurrent, OvertakenIsStopped
    <3> QED
      BY <3>1, <3>2 DEF OvertakenIsStopped, Reachable
  <2>2. CASE ~(timer.epoch = epoch /\ admin = "none" /\ Startable(schedule))
    BY <1>1, <1>11, <2>2 DEF TimerFires, activity
  <2> QED
    BY <2>1, <2>2
<1>12. ASSUME NEW e \in rounds, RoundQueues(e) PROVE StopSound'
  BY <1>1, <1>12 DEF RoundQueues, activity
<1>13. CASE Ends
  <2>1. PICK e \in rounds :
          /\ rounds' = rounds \ {e} /\ stopped' = stopped \ {e} /\ lost' = lost \ {e}
          /\ UNCHANGED <<foreground, epoch, token>>
    BY <1>13 DEF Ends, RoundEnds, activity
  <2> QED
    BY <2>1 DEF OvertakenIsStopped, Reachable
<1>14. CASE Tick
  BY <1>1, <1>14 DEF Tick, activity, tasks
<1>15. CASE UNCHANGED vars
  BY <1>1, <1>15 DEF vars, activity, tasks
<1> QED
  BY <1>3, <1>4, <1>5, <1>6, <1>7, <1>8, <1>9, <1>10, <1>11, <1>12, <1>13, <1>14, <1>15
  DEF Next

\* Every round that was overtaken or hidden has been told to stop, except those that
\* test_connection took round_cancel from without ending them (commands.rs).
THEOREM StoppingReachesRounds == Spec => []OvertakenIsStopped
<1>1. Init => StopSound
  BY DEF Init, StopSound, OvertakenIsStopped, Reachable
<1>2. Sound /\ StopSound /\ [Next]_vars => StopSound'
  BY StepStops
<1>3. StopSound => OvertakenIsStopped
  BY DEF StopSound
<1> QED
  BY <1>1, <1>2, <1>3, AlwaysSound, PTL DEF Spec
=============================================================================
