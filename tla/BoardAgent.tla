---- MODULE BoardAgent ----
\* The agent of a board: request handlers, each on a thread of its own, share the window of
\* the manual drive and the policy runtime, which they spawn, command through a single file
\* and terminate. The files outlive the agent. A file that cannot be read means zero speed to
\* the drive publisher, so a removed drive command counts as "zero"; the publisher process
\* itself is only the outcome of its handshake.
EXTENDS Naturals

CONSTANTS
  MaxThreads,   \* bound: requests handled at the same time
  MaxRuntimes,  \* bound: runtime processes the agent spawns
  MaxRequests,  \* bound: requests
  MaxFaults     \* bound: failed writes, runtimes that end by themselves, restarts of the agent

ASSUME BoundsAssumption ==
  MaxThreads \in Nat /\ MaxRuntimes \in Nat /\ MaxRequests \in Nat /\ MaxFaults \in Nat

VARIABLES
  handler,  \* the request of each thread: its kind, step, seq, and whether it was executed
  arrived,  \* how many requests have arrived
  faults,   \* how many faults have happened
  yaml,     \* the drive command file
  active,   \* whether a window is open
  adrift,   \* a movement that a failed write or a restart has left without a window
  watchdog, \* whether the watchdog has seen an expired window
  proc,     \* the runtime processes: their state and the text each has last seen
  tracked,  \* _policy_proc
  ready,    \* the ready marker
  file,     \* the policy command file, with the runtimes spawned by then
  lastOp,   \* lastOp in the state file
  seq,      \* _policy_seq
  moved,    \* what moved when a stop arrived, and has not stopped since
  lost,     \* whether a runtime was alive that this agent did not track
  stale     \* the numbers that the agent before this one left in the files

requestVars == <<handler, arrived, faults>>
driveVars == <<yaml, active, adrift, watchdog>>
procVars == <<proc, tracked>>
fileVars == <<ready, file, lastOp, seq>>
ghosts == <<moved, lost, stale>>
vars == <<requestVars, driveVars, procVars, fileVars, ghosts>>

None == 0
Handlers == 1..MaxThreads
Runtimes == 1..MaxRuntimes

Stops == {"estop", "pstop"}
Kinds == {"drive", "start", "load"} \cup Stops
Ended == {"ok", "error"}
Steps == {"lock", "handshake", "zero", "alive", "unpublish", "ensure", "wait", "write", "ack",
          "kill", "forget"} \cup Ended

Up == {"idle", "ready", "moving"}
Live(r) == proc[r].st \in Up \cup {"boot"}
Spawned == {r \in Runtimes : proc[r].st # "none"}
NoText == [seq |-> 0, op |-> "none", arg |-> 1]
Dead == [st |-> "dead", seen |-> NoText]
NoCommand == [seq |-> 0, op |-> "none", arg |-> 1, by |-> {}]
Text == [seq |-> file.seq, op |-> file.op, arg |-> file.arg]

Idle(step) == [kind |-> "none", step |-> step, seq |-> 0, done |-> FALSE]

Init ==
  /\ handler = [h \in Handlers |-> Idle("ok")]
  /\ arrived = 0 /\ faults = 0
  /\ yaml = "zero"
  /\ active = FALSE /\ adrift = FALSE /\ watchdog = FALSE
  /\ proc = [r \in Runtimes |-> [st |-> "none", seen |-> NoText]]
  /\ tracked = None
  /\ ready = FALSE /\ file = NoCommand
  /\ lastOp = [seq |-> 0, ok |-> FALSE] /\ seq = 0
  /\ moved = [h \in Handlers |-> {}] /\ lost = FALSE /\ stale = {}

----
At(h, step) == handler[h].step = step

\* The next step of a thread, which has its number only while it waits for the answer; a
\* request that has ended leaves nothing but its outcome.
Go(h, step) ==
  handler' = [handler EXCEPT ![h] = IF step \in Ended THEN Idle(step)
                                     ELSE [Idle(step) EXCEPT !.kind = handler[h].kind]]

Faulty ==
  /\ faults < MaxFaults
  /\ faults' = faults + 1

FirstStep(kind) ==
  CASE kind = "drive" -> "lock" [] kind = "estop" -> "zero" [] kind = "pstop" -> "alive"
    [] kind = "start" -> "unpublish" [] kind = "load" -> "ensure"

\* A request arrives and gets the first free thread.
Request(h, kind) ==
  /\ handler[h].step \in Ended
  /\ \A g \in 1..(h - 1) : handler[g].step \notin Ended
  /\ arrived < MaxRequests
  /\ arrived' = arrived + 1
  /\ handler' = [handler EXCEPT ![h] = [kind |-> kind, step |-> FirstStep(kind),
                                         seq |-> 0, done |-> FALSE]]
  /\ moved' = [moved EXCEPT ![h] = IF kind \in Stops THEN {r \in Runtimes : proc[r].st = "moving"}
                                                     ELSE {}]
  /\ UNCHANGED <<faults, driveVars, procVars, fileVars, lost, stale>>

----
\* The manual drive. drive_command holds _drive_lock over the handshake with the publisher.

Unlocked == \A h \in Handlers : ~At(h, "handshake")

Acquire(h) ==
  /\ At(h, "lock")
  /\ Unlocked
  /\ Go(h, "handshake")
  /\ UNCHANGED <<arrived, faults, driveVars, procVars, fileVars, ghosts>>

\* The publisher is ready and the rate limit kept: a new window.
Accept(h) ==
  /\ At(h, "handshake")
  /\ yaml' = "move"
  /\ active' = TRUE /\ adrift' = FALSE
  /\ Go(h, "ok")
  /\ UNCHANGED <<arrived, faults, watchdog, procVars, fileVars, ghosts>>

\* No publisher, too soon, or the write fails, which it may do after the rename: then the
\* movement is in the file, and only the window of an earlier one can end it.
Refuse(h) ==
  /\ At(h, "handshake")
  /\ \/ UNCHANGED <<faults, yaml, adrift>>
     \/ Faulty /\ yaml' = "move" /\ adrift' = ~active
  /\ Go(h, "error")
  /\ UNCHANGED <<arrived, active, watchdog, procVars, fileVars, ghosts>>

\* drive_stop: the window closes whether or not the zero could be written.
DriveStop ==
  /\ Unlocked
  /\ active' = FALSE
  /\ \/ yaml' = "zero" /\ adrift' = FALSE /\ UNCHANGED faults
     \/ yaml = "move" /\ Faulty /\ adrift' = TRUE /\ UNCHANGED yaml

Zero(h) ==
  /\ At(h, "zero")
  /\ DriveStop
  /\ Go(h, IF handler[h].kind = "estop" THEN "alive" ELSE "ok")
  /\ UNCHANGED <<arrived, watchdog, procVars, fileVars, ghosts>>

\* Mutant: the watchdog leaves a window alone whose command is no movement any more.
BadWatch ==
  /\ ~watchdog
  /\ Unlocked
  /\ active /\ yaml = "move"
  /\ watchdog' = TRUE
  /\ UNCHANGED <<requestVars, yaml, active, adrift, procVars, fileVars, ghosts>>

\* The deadline of a window has passed, which it may have at any time: the watchdog reads it
\* under the lock and stops it after it has let go.
Watch ==
  /\ ~watchdog
  /\ Unlocked
  /\ active
  /\ watchdog' = TRUE
  /\ UNCHANGED <<requestVars, yaml, active, adrift, procVars, fileVars, ghosts>>

WatchStop ==
  /\ watchdog
  /\ DriveStop
  /\ watchdog' = FALSE
  /\ UNCHANGED <<handler, arrived, procVars, fileVars, ghosts>>

----
\* policy_start takes the publisher and its command file away, without the lock.
Unpublish(h) ==
  /\ At(h, "unpublish")
  /\ yaml' = "zero" /\ adrift' = FALSE
  /\ Go(h, "ensure")
  /\ UNCHANGED <<arrived, faults, active, watchdog, procVars, fileVars, ghosts>>

\* _policy_runtime_alive asks for a recent state file, which a booting process may have from
\* the one before it.
SeemsAlive == \E r \in Runtimes : r = tracked /\ Live(r)
SeemsDead == \A r \in Runtimes : r = tracked => proc[r].st \notin Up

\* A process that still lives when _policy_proc is set anew is out of the agent's reach.
Untrack == lost' = (lost \/ \E q \in Runtimes : Live(q))

\* policy_stop: nothing to do without a runtime.
NotRunning(h) ==
  /\ At(h, "alive")
  /\ SeemsDead
  /\ Go(h, IF handler[h].kind = "estop" THEN "ok" ELSE "zero")
  /\ UNCHANGED <<arrived, faults, driveVars, procVars, fileVars, ghosts>>

Running(h) ==
  /\ At(h, "alive")
  /\ SeemsAlive
  /\ Go(h, "ensure")
  /\ UNCHANGED <<arrived, faults, driveVars, procVars, fileVars, ghosts>>

----
\* _policy_send: a runtime, a request in its file, its acknowledgement.

OpOf(kind) == IF kind \in Stops THEN "stop" ELSE kind

\* What follows a failed send: policy_stop terminates the runtime, the others report.
Failed(h) == IF handler[h].kind \in Stops THEN "kill" ELSE "error"

Succeeded(h) == IF handler[h].kind = "pstop" THEN "zero" ELSE "ok"

Ensure(h) ==
  /\ At(h, "ensure")
  /\ SeemsAlive
  /\ Go(h, "write")
  /\ UNCHANGED <<arrived, faults, driveVars, procVars, fileVars, ghosts>>

Spawn(h, r) ==
  /\ At(h, "ensure")
  /\ SeemsDead
  /\ Spawned = 1..(r - 1)
  /\ proc' = [proc EXCEPT ![r].st = "boot"]
  /\ tracked' = r
  /\ ready' = FALSE
  /\ Untrack
  /\ Go(h, "wait")
  /\ UNCHANGED <<arrived, faults, driveVars, file, lastOp, seq, moved, stale>>

\* No script, or no process.
SpawnFails(h) ==
  /\ At(h, "ensure")
  /\ SeemsDead
  /\ tracked' = None
  /\ ready' = FALSE
  /\ Untrack
  /\ Go(h, Failed(h))
  /\ UNCHANGED <<arrived, faults, driveVars, proc, file, lastOp, seq, moved, stale>>

\* The marker of any runtime will do.
WaitReady(h) ==
  /\ At(h, "wait")
  /\ tracked # None /\ Live(tracked)
  /\ ready
  /\ Go(h, "write")
  /\ UNCHANGED <<arrived, faults, driveVars, procVars, fileVars, ghosts>>

\* The process ends, or is terminated after 20 s.
WaitFails(h) ==
  /\ At(h, "wait")
  /\ tracked # None
  /\ proc' = [proc EXCEPT ![tracked] = Dead]
  /\ moved' = [g \in Handlers |-> moved[g] \ {tracked}]
  /\ tracked' = None
  /\ Go(h, Failed(h))
  /\ UNCHANGED <<arrived, faults, driveVars, fileVars, lost, stale>>

\* Another thread has set _policy_proc to None: the exception ends the request.
WaitRaises(h) ==
  /\ At(h, "wait")
  /\ tracked = None
  /\ Go(h, "error")
  /\ UNCHANGED <<arrived, faults, driveVars, procVars, fileVars, ghosts>>

\* The rest of a request only matters beside an earlier one of the same number.
Args(n) == IF n \in stale THEN {1, 2} ELSE {1}

\* The next number, and what the file holds under it.
PutCommand(h) ==
  \E arg \in Args(seq + 1) :
    file' = [seq |-> seq + 1, op |-> OpOf(handler[h].kind), arg |-> arg, by |-> Spawned]

Write(h) ==
  /\ At(h, "write")
  /\ PutCommand(h)
  /\ seq' = seq + 1
  /\ handler' = [handler EXCEPT ![h] = [kind |-> @.kind, step |-> "ack", seq |-> seq', done |-> FALSE]]
  /\ UNCHANGED <<arrived, faults, driveVars, procVars, ready, lastOp, ghosts>>

\* The write may fail after the rename: then the command stands, and nobody waits for it.
WriteFails(h) ==
  /\ At(h, "write")
  /\ Faulty
  /\ UNCHANGED file \/ PutCommand(h)
  /\ seq' = seq + 1
  /\ Go(h, Failed(h))
  /\ UNCHANGED <<arrived, driveVars, procVars, ready, lastOp, ghosts>>

\* Mutant: the latest acknowledgement counts for every request.
BadAck(h) ==
  /\ At(h, "ack")
  /\ lastOp.seq # 0
  /\ Go(h, IF lastOp.ok THEN Succeeded(h) ELSE Failed(h))
  /\ UNCHANGED <<arrived, faults, driveVars, procVars, fileVars, ghosts>>

Ack(h) ==
  /\ At(h, "ack")
  /\ lastOp.seq = handler[h].seq
  /\ Go(h, IF lastOp.ok THEN Succeeded(h) ELSE Failed(h))
  /\ UNCHANGED <<arrived, faults, driveVars, procVars, fileVars, ghosts>>

\* The runtime has ended, or ten seconds have passed.
AckFails(h) ==
  /\ At(h, "ack")
  /\ Go(h, Failed(h))
  /\ UNCHANGED <<arrived, faults, driveVars, procVars, fileVars, ghosts>>

\* Mutant: a runtime that does not answer is forgotten, not terminated.
BadKill(h) ==
  /\ At(h, "kill")
  /\ Go(h, "forget")
  /\ UNCHANGED <<arrived, faults, driveVars, procVars, fileVars, ghosts>>

\* _stop_policy_runtime waits for the process to end, and forgets what is tracked then.
Kill(h) ==
  /\ At(h, "kill")
  /\ proc' = [r \in Runtimes |-> IF r = tracked THEN Dead ELSE proc[r]]
  /\ moved' = [g \in Handlers |-> moved[g] \ {tracked}]
  /\ Go(h, "forget")
  /\ UNCHANGED <<arrived, faults, driveVars, tracked, fileVars, lost, stale>>

Forget(h) ==
  /\ At(h, "forget")
  /\ tracked' = None
  /\ file' = NoCommand
  /\ ready' = FALSE
  /\ Untrack
  /\ Go(h, Succeeded(h))
  /\ UNCHANGED <<arrived, faults, driveVars, proc, lastOp, seq, moved, stale>>

----
\* The runtime processes. PolicyRuntime models their inside.

\* Mutant: a new process comes up with the model of the last one.
BadBoot(r) ==
  /\ proc[r].st = "boot"
  /\ proc' = [proc EXCEPT ![r].st = "ready"]
  /\ ready' = TRUE
  /\ lastOp' = [seq |-> 0, ok |-> FALSE]
  /\ UNCHANGED <<requestVars, driveVars, tracked, file, seq, ghosts>>

\* A new process has no model.
Boot(r) ==
  /\ proc[r].st = "boot"
  /\ proc' = [proc EXCEPT ![r].st = "idle"]
  /\ ready' = TRUE
  /\ lastOp' = [seq |-> 0, ok |-> FALSE]
  /\ UNCHANGED <<requestVars, driveVars, tracked, file, seq, ghosts>>

\* Whatever text the file holds that is not what the process has last seen there.
Command(r, op) ==
  /\ proc[r].st \in Up
  /\ file.op = op /\ Text # proc[r].seen

Answer(r, st, ok) ==
  /\ proc' = [proc EXCEPT ![r] = [st |-> st, seen |-> Text]]
  /\ lastOp' = [seq |-> file.seq, ok |-> ok]
  /\ handler' = [h \in Handlers |-> IF At(h, "ack") /\ handler[h].seq = file.seq
                                    THEN [handler[h] EXCEPT !.done = ok] ELSE handler[h]]
  /\ moved' = [h \in Handlers |-> IF st = "moving" THEN moved[h] ELSE moved[h] \ {r}]
  /\ UNCHANGED <<arrived, faults, driveVars, tracked, ready, file, seq, lost, stale>>

Load(r) ==
  /\ Command(r, "load")
  /\ \/ proc[r].st = "moving" /\ Answer(r, "moving", FALSE)
     \/ proc[r].st # "moving" /\ Answer(r, "ready", TRUE)
     \/ proc[r].st # "moving" /\ Answer(r, "idle", FALSE)

Start(r) ==
  /\ Command(r, "start")
  /\ IF proc[r].st = "idle" THEN Answer(r, "idle", FALSE) ELSE Answer(r, "moving", TRUE)

Stop(r) ==
  /\ Command(r, "stop")
  /\ Answer(r, IF proc[r].st = "moving" THEN "idle" ELSE proc[r].st, TRUE)

\* A fault of the control loop, or the end of the process.
Crash(r) ==
  /\ Live(r)
  /\ Faulty
  /\ \/ proc' = [proc EXCEPT ![r] = Dead]
     \/ proc[r].st = "moving" /\ proc' = [proc EXCEPT ![r].st = "idle"]
  /\ moved' = [h \in Handlers |-> moved[h] \ {r}]
  /\ UNCHANGED <<handler, arrived, driveVars, tracked, fileVars, lost, stale>>

----
\* The agent's process ends and its unit starts it again. The runtimes end with it and no
\* request is answered, but the files stay, and the numbers begin anew.
Restart ==
  /\ Faulty
  /\ handler' = [h \in Handlers |-> Idle("error")]
  /\ active' = FALSE /\ watchdog' = FALSE
  /\ adrift' = (yaml = "move")
  /\ proc' = [r \in Runtimes |-> IF Live(r) THEN Dead ELSE proc[r]]
  /\ tracked' = None /\ seq' = 0
  /\ stale' = {file.seq, lastOp.seq}
  /\ moved' = [h \in Handlers |-> {}] /\ lost' = FALSE
  /\ UNCHANGED <<arrived, yaml, ready, file, lastOp>>

----
Handle(h) ==
  \/ Acquire(h) \/ Accept(h) \/ Refuse(h)
  \/ Zero(h) \/ NotRunning(h) \/ Running(h) \/ Unpublish(h)
  \/ Ensure(h) \/ (\E r \in Runtimes : Spawn(h, r)) \/ SpawnFails(h)
  \/ WaitReady(h) \/ WaitFails(h) \/ WaitRaises(h)
  \/ Write(h) \/ WriteFails(h) \/ Ack(h) \/ AckFails(h)
  \/ Kill(h) \/ Forget(h)

Work(r) == Boot(r) \/ Load(r) \/ Start(r) \/ Stop(r)

Run ==
  \/ \E h \in Handlers : Handle(h)
  \/ Watch \/ WatchStop
  \/ \E r \in Runtimes : Work(r)

Next ==
  \/ Run
  \/ \E h \in Handlers, kind \in Kinds : Request(h, kind)
  \/ \E r \in Runtimes : Crash(r)
  \/ Restart

Spec == Init /\ [][Next]_vars

\* Threads and processes run, and time passes. No step of theirs can be repeated for ever
\* without new requests, so it is enough that one is taken whenever there is one.
Fairness == WF_vars(Run)

FairSpec == Spec /\ Fairness

----
Ops == {"none", "load", "start", "stop"}

TypeOK ==
  /\ handler \in [Handlers -> [kind : Kinds \cup {"none"}, step : Steps, seq : Nat,
                               done : BOOLEAN]]
  /\ arrived \in 0..MaxRequests /\ faults \in 0..MaxFaults
  /\ yaml \in {"zero", "move"}
  /\ active \in BOOLEAN /\ adrift \in BOOLEAN /\ watchdog \in BOOLEAN
  /\ proc \in [Runtimes -> [st : Up \cup {"none", "boot", "dead"},
                            seen : [seq : Nat, op : Ops, arg : 1..2]]]
  /\ tracked \in Spawned \cup {None}
  /\ ready \in BOOLEAN
  /\ file \in [seq : Nat, op : Ops, arg : 1..2, by : SUBSET Runtimes]
  /\ lastOp \in [seq : Nat, ok : BOOLEAN] /\ seq \in Nat
  /\ moved \in [Handlers -> SUBSET Runtimes] /\ lost \in BOOLEAN /\ stale \in SUBSET Nat

\* The drive command file holds a movement only inside a window, or since a write of it failed
\* (a stop could not put its zero over the movement, or drive_command raised with the movement
\* already in the file), or since a restart inside a window, after which the publisher of the
\* new agent takes up the file as it is. Nothing else leaves the wheels turning.
MotionHasWindow == yaml = "move" => active \/ adrift

Answers(h) == handler[h].step \notin Ended /\ handler'[h].step = "ok"

\* A stop that is answered has stopped every runtime that was moving when it arrived, by its
\* acknowledgement or by the end of the process, unless the agent has lost track of one.
StopHolds ==
  [][\A h \in Handlers : handler[h].kind \in Stops /\ Answers(h) /\ ~lost => moved[h] = {}]_vars

\* A request that is reported done was executed: no answer belongs to another request, or to
\* an earlier process. The agent's numbers begin anew with a restart while the files stay, so
\* the one request whose number the agent before it has left in the command file or the state
\* file may get the answer to that command.
AnswerIsOwn ==
  [][\A h \in Handlers :
       /\ handler[h].kind \in {"load", "start"} /\ Answers(h)
       /\ handler[h].seq \notin stale
       => handler[h].done]_vars

\* A runtime never moves for a request that was already in the file when it was spawned.
NoStaleStart ==
  [][\A r \in Runtimes :
       proc[r].st # "moving" /\ proc'[r].st = "moving" => r \in file.by]_vars

\* When no more requests come, every request is answered, no window stays open, and the drive
\* command file keeps a movement only as MotionHasWindow allows.
ComesToRest == <>[](/\ \A h \in Handlers : handler[h].step \in Ended
                    /\ ~active
                    /\ yaml = "zero" \/ adrift)
====
