---- MODULE PolicyRuntime ----
\* The policy runtime of a board: the thread of the command file, the control loops of the
\* sessions it starts, and the SIGTERM handler share one state under a lock, and a stop
\* flag and the command topic outside it. A session's loop has the session's number.
EXTENDS Naturals, Sequences

CONSTANT MaxSessions   \* bound: sessions of one process

ASSUME SessionsAssumption == MaxSessions \in Nat

VARIABLES
  state,     \* _state
  model,     \* whether a model is loaded
  flag,      \* _stop_flag
  session,   \* _session_id, 0 for None
  stopped,   \* whether _session_stopped_at is set
  emitted,   \* _session_stop_event_emitted
  terminal,  \* the sessions whose session-stopped event was issued
  ops,       \* the thread of the command file
  term,      \* the thread SIGTERM starts
  loop,      \* the control loop each session started
  cmd,       \* the last command on the topic
  bound,     \* whether ROS could be bound
  late,      \* commands a loop has published since the flag was set
  alive

sessionVars == <<session, stopped, emitted, terminal>>
threads == <<ops, term, loop>>
vars == <<state, model, flag, session, stopped, emitted, terminal, ops, term, loop, cmd,
          bound, late, alive>>

Sessions == 1..MaxSessions

\* "raise": an exception is on its way to _fault.
LoopSteps == {"none", "top", "sense", "publish", "raise", "flag", "zero", "leave", "done"}
OpsSteps == {"idle", "loading", "spawn", "zero", "dead"}
TermSteps == {"none", "stop", "zero", "done"}

Live(s) == loop[s] \notin {"none", "done"}

\* _fault ran in main() when the binding failed.
Init ==
  /\ bound \in BOOLEAN
  /\ state = IF bound THEN "idle" ELSE "fault"
  /\ flag = ~bound
  /\ model = FALSE
  /\ session = 0 /\ stopped = FALSE /\ emitted = FALSE /\ terminal = <<>>
  /\ ops = "idle" /\ term = "none"
  /\ loop = [s \in Sessions |-> "none"]
  /\ cmd = "zero" /\ late = [s \in Sessions |-> 0]
  /\ alive = TRUE

----
\* The parts of stop() and _fault().

\* _publish_cmd; no publisher, no command.
Publish(c) == cmd' = IF bound THEN c ELSE cmd

RaiseFlag ==
  /\ flag' = TRUE
  /\ late' = IF flag THEN late ELSE [s \in Sessions |-> 0]

\* Mutant: the flag that the event was issued is never set.
BadCloseSession ==
  /\ UNCHANGED <<session, emitted>>
  /\ stopped' = (stopped \/ session # 0)
  /\ terminal' = IF session # 0 /\ ~emitted THEN Append(terminal, session) ELSE terminal

\* The session is closed at the first stop or fault, and its event issued once.
CloseSession ==
  /\ UNCHANGED session
  /\ stopped' = (stopped \/ session # 0)
  /\ emitted' = (emitted \/ session # 0)
  /\ terminal' = IF session # 0 /\ ~emitted THEN Append(terminal, session) ELSE terminal

StopLocked ==
  /\ state' = IF state = "running" THEN "idle" ELSE state
  /\ RaiseFlag
  /\ CloseSession

\* After a request or a stop the state file is written; the exception of a write that fails
\* ends the thread.
Served == {"idle", "dead"}

----
\* The thread of the command file.

BeginLoad ==
  /\ ops = "idle"
  /\ state # "running"
  /\ model' = FALSE
  /\ state' = "idle"
  /\ ops' = "loading"
  /\ UNCHANGED <<flag, sessionVars, term, loop, cmd, bound, late, alive>>

\* A fault since the load began stays.
EndLoad ==
  /\ ops = "loading"
  /\ model' = TRUE
  /\ state' = IF state = "idle" THEN "ready" ELSE state
  /\ ops' \in Served
  /\ UNCHANGED <<flag, sessionVars, term, loop, cmd, bound, late, alive>>

FailLoad ==
  /\ ops = "loading"
  /\ ops' \in Served
  /\ UNCHANGED <<state, model, flag, sessionVars, term, loop, cmd, bound, late, alive>>

\* A start while running only changes the direction.
Start ==
  /\ ops = "idle"
  /\ model /\ state = "ready"
  /\ session < MaxSessions
  /\ state' = "running"
  /\ session' = session + 1
  /\ stopped' = FALSE /\ emitted' = FALSE
  /\ flag' = FALSE
  /\ ops' = "spawn"
  /\ UNCHANGED <<model, terminal, term, loop, cmd, bound, late, alive>>

\* The session-started line is written first.
Spawn ==
  /\ ops = "spawn"
  /\ loop' = [loop EXCEPT ![session] = "top"]
  /\ ops' \in Served
  /\ UNCHANGED <<state, model, flag, sessionVars, term, cmd, bound, late, alive>>

Stop ==
  /\ ops = "idle"
  /\ StopLocked
  /\ ops' = "zero"
  /\ UNCHANGED <<model, term, loop, cmd, bound, alive>>

StopZero ==
  /\ ops = "zero"
  /\ Publish("zero")
  /\ ops' \in Served
  /\ UNCHANGED <<state, model, flag, sessionVars, term, loop, bound, late, alive>>

Reset ==
  /\ ops = "idle"
  /\ state = "fault"
  /\ state' = IF model THEN "ready" ELSE "idle"
  /\ ops' \in Served
  /\ UNCHANGED <<model, flag, sessionVars, term, loop, cmd, bound, late, alive>>

----
\* A control loop.

Step(s, from, to) == loop[s] = from /\ loop' = [loop EXCEPT ![s] = to]

\* Mutant: the flag is not looked at.
BadTop(s) ==
  /\ Step(s, "top", "sense")
  /\ UNCHANGED <<state, model, flag, sessionVars, ops, term, cmd, bound, late, alive>>

Top(s) ==
  /\ Step(s, "top", IF flag THEN "leave" ELSE "sense")
  /\ UNCHANGED <<state, model, flag, sessionVars, ops, term, cmd, bound, late, alive>>

\* No fresh observation: a zero command, and the state file every few seconds.
Stale(s) ==
  /\ \E to \in {"top", "raise"} : Step(s, "sense", to)
  /\ Publish("zero")
  /\ UNCHANGED <<state, model, flag, sessionVars, ops, term, bound, late, alive>>

\* The inference, which a load may have left without a model.
Infer(s) ==
  /\ \E to \in IF model THEN {"publish", "raise"} ELSE {"raise"} : Step(s, "sense", to)
  /\ UNCHANGED <<state, model, flag, sessionVars, ops, term, cmd, bound, late, alive>>

\* Then the sample is appended, counted, and the state file written every few seconds.
Move(s) ==
  /\ \E to \in {"top", "raise"} : Step(s, "publish", to)
  /\ Publish("move")
  /\ late' = [late EXCEPT ![s] = IF flag THEN @ + 1 ELSE @]
  /\ UNCHANGED <<state, model, flag, sessionVars, ops, term, bound, alive>>

\* _fault: the locked part, then the flag, then the zero command.
Fault(s) ==
  /\ Step(s, "raise", "flag")
  /\ state' = "fault"
  /\ CloseSession
  /\ UNCHANGED <<model, flag, ops, term, cmd, bound, late, alive>>

FaultFlag(s) ==
  /\ Step(s, "flag", "zero")
  /\ RaiseFlag
  /\ UNCHANGED <<state, model, sessionVars, ops, term, cmd, bound, alive>>

FaultZero(s) ==
  /\ Step(s, "zero", "done")
  /\ Publish("zero")
  /\ UNCHANGED <<state, model, flag, sessionVars, ops, term, bound, late, alive>>

\* Mutant: a loop that sees the flag just ends.
BadLeave(s) ==
  /\ Step(s, "leave", "done")
  /\ UNCHANGED <<state, model, flag, sessionVars, ops, term, cmd, bound, late, alive>>

Leave(s) ==
  /\ Step(s, "leave", "done")
  /\ Publish("zero")
  /\ UNCHANGED <<state, model, flag, sessionVars, ops, term, bound, late, alive>>

Loop(s) ==
  \/ Top(s) \/ Stale(s) \/ Infer(s) \/ Move(s)
  \/ Fault(s) \/ FaultFlag(s) \/ FaultZero(s) \/ Leave(s)

----
\* SIGTERM: stop() on a thread of its own, waited for half a second, then os._exit.

Sigterm ==
  /\ term = "none"
  /\ term' = "stop"
  /\ UNCHANGED <<state, model, flag, sessionVars, ops, loop, cmd, bound, late, alive>>

TermStop ==
  /\ term = "stop"
  /\ StopLocked
  /\ term' = "zero"
  /\ UNCHANGED <<model, ops, loop, cmd, bound, alive>>

TermZero ==
  /\ term = "zero"
  /\ Publish("zero")
  /\ term' = "done"
  /\ UNCHANGED <<state, model, flag, sessionVars, ops, loop, bound, late, alive>>

\* os._exit, or the exception of a state file the main thread cannot write.
Exit ==
  /\ alive' = FALSE
  /\ UNCHANGED <<state, model, flag, sessionVars, threads, cmd, bound, late>>

----
Ops ==
  \/ BeginLoad \/ EndLoad \/ FailLoad
  \/ Start \/ Spawn
  \/ Stop \/ StopZero
  \/ Reset

Next ==
  /\ alive
  /\ \/ Ops
     \/ \E s \in Sessions : Loop(s)
     \/ Sigterm \/ TermStop \/ TermZero
     \/ Exit

Spec == Init /\ [][Next]_vars

\* Threads are scheduled; requests, signals and exits need not come.
Fairness ==
  /\ WF_vars(alive /\ (Spawn \/ EndLoad \/ FailLoad \/ StopZero))
  /\ WF_vars(alive /\ (TermStop \/ TermZero))
  /\ \A s \in Sessions : WF_vars(alive /\ Loop(s))

FairSpec == Spec /\ Fairness

----
TypeOK ==
  /\ state \in {"idle", "ready", "running", "fault"}
  /\ model \in BOOLEAN /\ flag \in BOOLEAN /\ bound \in BOOLEAN /\ alive \in BOOLEAN
  /\ session \in 0..MaxSessions /\ stopped \in BOOLEAN /\ emitted \in BOOLEAN
  /\ terminal \in Seq(Sessions)
  /\ ops \in OpsSteps /\ term \in TermSteps
  /\ loop \in [Sessions -> LoopSteps]
  /\ cmd \in {"zero", "move"}
  /\ late \in [Sessions -> Nat]

\* The topic holds a movement only while a control loop is there to end it: whichever way
\* the loops and stops of several sessions interleave, the last one out leaves a zero.
MovingIsAttended == cmd = "move" => \E s \in Sessions : Live(s)

\* A running state whose stop flag is clear has a loop, or one about to be spawned: a loop
\* that left at the flag of an old session never leaves the new session without one.
RunningIsAttended ==
  state = "running" /\ ~flag => ops = "spawn" \/ \E s \in Sessions : Live(s)

\* Once the flag is set a loop publishes at most the one command it was already computing,
\* for as long as no new session clears the flag.
OneCommandAfterStop == flag => \A s \in Sessions : late[s] <= 1

\* The runtime is never ready or running without a model, whatever load, fault and reset
\* came before.
ReadyHasModel == state \in {"ready", "running"} => model

\* A fault is left by a reset or a new load only, not by the end of a load that was under
\* way, by a stop or by SIGTERM.
FaultIsSticky == [][state = "fault" /\ state' # "fault" => Reset \/ BeginLoad]_vars

\* The sessions implement MotionSession: open exactly while running, closed and reported
\* once by the first of the stop, the fault and the signal.
Motion == INSTANCE MotionSession WITH open <- state = "running", reports <- terminal
SessionsReportedOnce == Motion!Spec

\* While the flag stays set every loop ends and the robot is at rest, unless the process
\* exits.
StopQuiets ==
  flag ~> ~alive \/ ~flag \/ (cmd = "zero" /\ \A s \in Sessions : ~Live(s))
====
