# Verification of the robot learning platform

TLA+ models of the parts of this repository that keep durable state or run
concurrently, on the server and on the board, TLC runs that check them on small
instances, and TLAPS proofs of their safety properties for every size.

Everything is translated from the source. Paths below are relative to the
repository root; board programs and the worker are in `services/sim2real-web/`. `PROJECT.json` maps each
definition to its source lines.

1. [The system](#1-the-system)
2. [The models](#2-the-models)
3. [The runs](#3-the-runs)
4. [Fairness](#4-fairness)
5. [The proofs](#5-the-proofs)
6. [Where code and documentation disagree](#6-where-code-and-documentation-disagree)
7. [What is left out](#7-what-is-left-out)
8. [Plan](#8-plan)

## 1. The system

A user trains a robot policy in simulation, runs it on a board, sends the
board's telemetry back, evaluates it, and approves a deployment plan. A Node.js
server owns the ledger of all this. Training happens in runners (a local GPU
worker, the RoboGo service, the browser simulator), boards run Python and Node
processes of their own.

    browser --HTTP--> server routes --> sim2real-store --> sim2real.json + telemetry/*.jsonl
       |                  |    |              |
       | relay            |    |              +--> writer-lease.json (one writer per directory)
       v                  |    +-- fetch --> RoboGo, local training worker
    local agent           +-- proxy --> board station --> policy runtime --> motors
                                             |
                          <-- telemetry uploader (signed chunks)

### Components

| component | state | operations | hard behaviour | what makes it correct |
|---|---|---|---|---|
| Run ledger (`server/sim2real/sim2real-store.ts`, `server/routes/sim2real-routes.ts`, `robogo-runner.ts`) | runs with status, external id, key; handlers in flight | POST /runs, GET /runs/:id, relay claim and sync, reconcile, expiry | handlers await a runner between two ledger operations; answers are lost, late, reordered; restart in between | one job per key, quota, terminal states final, a run's own job id is not displaced |
| Writer lease and ledger file (`server/sim2real/storage-lease.ts`, `writeLedger`) | lease file, ledger file, processes | acquire, renew, take over, release at exit | several processes, kills between file operations, recycled pids, clocks | one writer; dead writers are replaced; accepted changes survive |
| Telemetry store (`sim2real-store.ts`) | index rows in the ledger, a shard file per run, evaluation summary | append, prune, evaluate, list | three writes per append, any of which fails; readers outside the write chain | index and shard agree, retries store once, evaluation is current |
| Release chain (`sim2real-store.ts`, `sim2real-routes.ts`, `sim2real-telemetry-routes.ts`) | evaluations, artifacts, deployment plans | evaluate, register, publish, plan, approve, reject, preflight, cancel | telemetry between two halves of an evaluation, evidence that ages while a plan waits, late probes | nothing becomes ready on outdated evidence; rejected and cancelled are final |
| Local training worker (`services/sim2real-web/local-training-worker.mjs`) | job table, queue, engines, job.json per job | POST /train, launch, finish, restart | a queue pumped from three places, failed writes, kills | engine limit, no lost wake-up, no second engine per key |
| Board policy runtime (`board-policy-runtime.py`) | state, model, stop flag, session, control loops, command topic | load, start, stop, reset, fault, SIGTERM | a loop outlives its session; the flag is outside the lock; stop, fault and signal end one session together | motion is attended and ends, each session is reported once |
| Board agent (`board-agent-x5.py`) | drive window and file, runtime process, command file, state file | drive, stop, load, start, stop policy, emergency stop | a thread per request, one command file, two processes for one name, failed writes, files that outlive the agent | an answered stop has stopped, an answer belongs to its request |
| Telemetry uploader (`board-telemetry-uploader.py`) | spool, checkpoint, request in flight | read a batch, post, save, back off | lost and late answers, a spool that grows, two writers, kills | the platform has a beginning of the spool, without gaps |
| Board tunnel (`server/sim2real/board-tunnel-manager.ts`) | registry file, tunnels map, ssh processes | create, open, disconnect, delete, exit | opening awaits for seconds while others close and delete | no ssh process is left behind, a deleted connection goes down |
| Audit log (`server/sim2real/audit-log.ts`) | a file and one rotated segment | append, rotate, list | partial lines, listing during a rotation | see section 7 |
| Events and SSE (`sim2real-events-sse.ts`) | open streams, a delivery tail per plugin | emit, deliver | nothing is stored or replayed | nothing is promised |
| Agent runtime (`server/agent-runtime/`, `sim2real-agent-routes.ts`) | sessions, pending approvals | tool call, approve, time out | approval racing a timeout | no unapproved call |

The remaining components (rate limit, sessions for workshops, device probes,
authentication, dataset and model registry, metrics, browser application, web
entry, MCP server, training engines, scripts) are listed in `PROJECT.json` with
the reason they are not modelled: a single serialized operation each, pure
calculation, or somebody else's numerical code.

### Interactions that matter

* Every store operation runs inside `serialized` (one promise chain per
  process): read the ledger, change a copy, `writeLedger`. A store operation is
  therefore one atomic step for other handlers of the same process, but not for
  another process, and not for the telemetry reader, which does not join the
  chain. `RunLedger` and `ReleaseChain` use the first fact, `WriterLease` and
  `TelemetryStore` look inside the step where it is not enough.
* A handler that awaits a runner or a board holds no lock. What it read before
  is old when it writes.
* A runner's job and the ledger's run are two records joined by an external id
  that may never have arrived.
* The policy runtime writes its samples into a spool which another process reads; what
  it appends in the wrong order is refused by the platform much later.
* The agent talks to the runtime by a file with one command, and hears of it by a file
  with one acknowledgement and a marker file, all three outlived by the process.
  `BoardAgent` models this side of it, `PolicyRuntime` the inside of the process.
* Telemetry clears `run.telemetryRevision` and marks evaluations stale; that is
  how the telemetry store reaches into the release chain.

## 2. The models

| module | models | extends / instantiates |
|---|---|---|
| `JobLifecycle` | the statuses of a runner's job and how they may change | |
| `RunSlots` | the promise to an account: at most `MaxActive` slots, each left once | |
| `RunLedger` | the run part of the ledger and its handlers | `JobLifecycle`; instantiates `RunSlots` |
| `WriterLease` | the lease protocol and the ledger rewrite | |
| `ChunkLog` | the promise about chunks: stored whole in one step, or not at all | |
| `TelemetryStore` | appends, prunes, evaluations and listings | instantiates `ChunkLog` |
| `ReleaseChain` | evaluation to deployment plan | |
| `TrainingWorker` | the local worker | `JobLifecycle` |
| `MotionSession` | the promise about sessions of motion: one after another, each reported once | |
| `PolicyRuntime` | the policy runtime of a board | instantiates `MotionSession` |
| `BoardAgent` | the agent of a board and the runtimes it spawns | |
| `SpoolCopy` | the promise of the upload: the platform has a beginning of the spool, which grows | |
| `TelemetryUploader` | spool, uploader, network and the platform's check of a chunk | instantiates `SpoolCopy` |
| `BoardTunnel` | the tunnels of the web server | |
| `<module>Proofs` | theorems about the module | the module |
| `StorageProofs` | theorems about the two modules of the data directory | `TelemetryStore`, `WriterLease` |
| `MC<module>` | constants for TLC | the module |

`JobLifecycle` composes the two ends: `TrainingWorker` is shown to keep to it
(`FollowsJobLifecycle`), `RunLedger` assumes of its runners nothing more
(`JobStep`). It includes the unpleasant step from completed to failed, which a
worker takes when a result cannot be stored.

### RunLedger

`runs` is `ledger.runs`. `requests` holds what each handler in flight remembers:
the run, the external id it asks for, the answer it got. `jobs` is what the
runners have. `evidence` is the set of runs to which evaluation telemetry was attached.

| code | model |
|---|---|
| `reserveSim2RealRun`: expire, look up the key, count, insert | `Reserve`, `ReserveRefused` over `Sweep(runs)` |
| `dispatchRunBackend` | `DispatchImmediate`, `RunnerAccepts` (answer kept or lost), `RunnerRefuses` |
| `updateSim2RealRun` after the dispatch | `PostFinish` |
| GET /runs/:id | `PollStart`, `RunnerReports`, `PollFinish` |
| relay claim, relay sync | `AgentAccepts`, `RelayClaim`, `SyncStart`, `RunnerReports`, `SyncFinish` |
| reconcile | `ReconcileStart`, `RunnerReports`, `ReconcileAttach` or `ReconcileNotFound` |
| time, lost clients, restart | `Age`, `Abandon`, `Restart` |

Time is abstracted to the flag `aged`: createdAt is older than the TTL. `Age` is
not taken while the POST handler still waits, because the TTL is at least five
minutes and a runner call is cut off after one.

### WriterLease

Each process runs one serialized ledger operation at a time; `procs[p].step`
says between which two operations it is; the read of the lease file, the judgement with its pid
probe and the write are separate steps, and what was read (`seen`) may be old by the time it is
judged or replaced. `lease` is the file with the
states absent, partial (created, not yet filled) and record. The ledger is the
set of changes it contains, so that a lost update is a missing element. `now` is taken
once at the start of an acquisition, as the code does, and is old when it is used.
A pid belongs to one running process per host at a time, and may be recycled. A process
fills the file it created through its open handle, so what was renamed over the name
meanwhile stays; if that fails, the file is removed again, whatever it is by then. `trampled`
records that a takeover has renamed over the lease of a running process it never judged. The names that other
modules also use have the prefix `Lease`
(`LeaseSpec`, `LeaseTypeOK`), since `StorageProofs` extends this module together with
`TelemetryStore`.

### TelemetryStore

The shard of a run is the set of ids with a complete line, plus the flag
`torn` for a last line without its end. `op` is the append inside the write
chain, between its three writes: the line (`BeginAppend`, `FinishLine`), the
ledger (`CommitIndex`), the rewrite without expired lines (`PruneShard`). `AppendFails` and
`Crash` happen between any two. `EvaluateRun` records which set of chunks
it digested. `reader` is a listing, which reads the ledger, then the head of the
shard, then possibly the ledger and the whole shard again. Rows of `Legacy` were written before the
split and hold their samples inline. A chunk has a sequence number of the board it comes from, so
two boards of one run may use the same one (`SameSigned`). To `ChunkLog` all of this is one set of
rows that grows by one whole chunk at a time, `Stored`: the index rows with their samples; and the
set of runs that are torn, of which every read throws. `ChunkLog` promises nothing of the readers of
such a run, except that the store itself does not go on as if it could read it.

### ReleaseChain

One run with its evaluations, artifacts and plans. Its telemetry is abstracted to
`version`, how many chunks it has committed, and `signed`. Two runs of the evaluator over
the same version give the same result; this is what `EvaluationFresh` of
`TelemetryStore` says of the digest. `handlers` are the requests
with two or more store operations: evaluate (`Compute`, `Materialize`), cancel
(`BeginCancel`, `Cancel`) and preflight (`BeginPreflight`, `MarkRunning`, then
`ProbePasses` or `ProbeFails`). Everything else is one store operation and one action.

### TrainingWorker

`jobs[j].stage` is the place of the job's asynchronous function;
`jobs[j].status` is what a poll sees; `disk[j]` is what a restart would find.
`Pumped` is `pumpQueue` up to its first await and is part of the actions that
call it. A job of `Unrouted` has no engine to go to: the pump fails it without a slot and
awaits the write of its record (`Reject`, `Closed`) before it looks at the next one, while other ends may
pump meanwhile. `Crash` kills the worker with its engines; `Restore` reads one job directory.

### TelemetryUploader

The spool is a sequence of lines with their kind and session time. A thread of the
runtime first takes the time of a line (`pending`) and then appends it, as the code
does without a lock. Offsets count lines. A chunk is a pair of offsets, its rows
are what the spool holds between them; the idempotency key, made of the offset and a digest of the
rows, is therefore that pair up to equal rows. To `SpoolCopy` all of this is a spool that is
recorded and a number of its lines that have been copied.

| code | model |
|---|---|
| `_append_event_record`, `_append_telemetry` (policy runtime) | `StartSession`, `BeginSample`, `EndSession`, then `AppendLine` or `Lose` |
| `_read_batch`, the request | `Batches`, `Post` |
| its outcome | `Accept`, `Refuse`, `Timeout` |
| `_save_offset`, the pause after an error | `Save`, `Backoff` |
| start and end of the processes | `Boot`, `Crash`, `KillRuntime` |
| `appendSim2RealTelemetryWithResult`, `assertTelemetryTimeline` | `Known`, `Conflicts`, `TimelineOK` |

### PolicyRuntime

`ops` is the thread of the command file, `term` the one that SIGTERM starts, `loop[s]` the control
loop of session `s`, by the step it is at. What happens under the lock is one
action; the flag, the topic and the files are outside it. `cmd` is the last
command on the topic. A state file that cannot be written ends the thread that writes it, so `ops'`
and `loop'` have the alternatives `dead` and `raise`. `late` only counts what a loop
publishes after a stop.

| code | model |
|---|---|
| `load` | `BeginLoad`, then `EndLoad` or `FailLoad` |
| `start` | `Start`, `Spawn` |
| `stop` | `Stop`, `StopZero`; on SIGTERM `TermStop`, `TermZero` |
| `reset` | `Reset` |
| the control loop | `Top`, `Stale`, `Infer`, `Move`, `Leave` |
| `_fault` | `Fault`, `FaultFlag`, `FaultZero` |

### BoardAgent

Each request has a thread (`handler`) that goes through the steps of its function. The
drive lock is held over the handshake with the publisher (`Acquire` to `Accept` or
`Refuse`); the watchdog reads under the lock and stops after it. A runtime
process is `boot`, `idle`, `ready`, `moving` or `dead`; `tracked` is `_policy_proc`. `file`, `ready` and
`lastOp` are the three files, none of which names the process it belongs to. They outlive the agent: a `Restart`
ends the runtimes and all requests and begins the numbers anew, but leaves the files. Ghosts: `moved[h]`,
what moved
when the stop `h` arrived; `lost`, whether a living process was ever dropped from
`_policy_proc`; `adrift`, whether the movement in the drive file was left there without a window by a
failed write or a restart; `stale`, the numbers that the agent before left in the files; `file.by` and `done`
say
when a command was written and executed. `atomic_write_text` may raise after its rename, so a failed write may
have changed the file (`Refuse`, `WriteFails`). A runtime compares the text of the file with the last one it
read, and so does the model (`Text`): commands of one number can only differ under a number that an earlier
agent used, which is where `PutCommand` chooses between two texts.

| code | model |
|---|---|
| `drive_command`, `drive_stop`, the watchdog | `Acquire`, `Accept`, `Refuse`; `Zero`; `Watch`, `WatchStop` |
| `policy_start` before it sends | `Unpublish` |
| `policy_stop`, the route `drive/stop` | `Zero`, `NotRunning`, `Running` |
| `_start_policy_runtime` | `Ensure`, `Spawn`, `SpawnFails`, `WaitReady`, `WaitFails`, `WaitRaises` |
| `_policy_send` | `Write`, `WriteFails` with `PutCommand`; `Ack`, `AckFails` |
| `_stop_policy_runtime` | `Kill`, `Forget` |
| the runtime, seen from outside | `Boot`, `Load`, `Start`, `Stop`, `Crash` |
| SIGTERM and the next start of the agent | `Restart` |

### BoardTunnel

Between two awaits the code runs alone, so an action is the code from one await to the
next. `opening[c]` is the operation of `openingTunnels`, which all requests for a connection
share; `closing[k]` a disconnect or a delete. A process is running, ending (it was sent
SIGTERM) or gone.

| code | model |
|---|---|
| `createDeviceConnection` | `Create` |
| `openDeviceConnectionTunnel` | `Open` or `Reopen`, `ReprobeOk`, `ReprobeFails`, `Reclosed`, `Respawn`, `ConnectFails`, `Connected`, `ProbeOk`, `ProbeFails`, `Persist`, `PersistFails`, `GivenUp` |
| `closeDeviceConnectionTunnel` | `CloseTunnel`, `Closed` |
| disconnect, delete | `Close`, `Waited`, `Remove` |
| end of ssh, of the web process | `SshEnds`, `Exit` |

The only use of real time is in `Connected`: an operation that has waited
for 9.5 s outlives every close that was under way when it started, which waits for 2 s.

## 3. The runs

`tlc -config <cfg> <module>` in this directory repeats each one.

| run | question | bounds | states |
|---|---|---|---|
| `ledger` | Do the quota, one job per key, a run's own job id and terminal states survive every interleaving of submissions, answers, wrong ids, expiry and restart? | 2 local runs, 1 of them relayed, 2 keys of one account, limit 1, 2 handlers, 2 jobs | 1 337 000 |
| `ledger_slots` | Does the ledger implement `RunSlots`, and is a lost reservation released? | 2 runs, local or contract, 3 keys, 1 handler, 1 job | 123 000 |
| `lease` | One writer and own release until a takeover tramples on a lease, no live writer taken for dead, and is a dead one replaced? | 3 incarnations of one host, 2 of them with one pid, 2 may end, 2 writes, clock 0..2 | 196 000 |
| `lease_lost` | expected violation, see 6 | 2 processes, 2 writes | |
| `telemetry` | Do index, shard, evaluation and listings agree through failures and retries, and does the store implement `ChunkLog`? | 2 runs, 5 chunks of 2 boards, 4 ids, 1 key, 1 legacy row, quotas 2 and 3 | 1 398 000 |
| `release` | Does anything become ready on evidence that is outdated, rejected or cancelled? | 2 evaluations, 1 artifact, 1 plan, 2 handlers, 2 chunks | 1 724 000 |
| `worker` | Do the limit, the queue, deduplication and the visible lifecycle hold, and does every job end? | 3 jobs (one without an engine), 1 key, limit 1 | 39 800 |
| `uploader` | Does the upload implement `SpoolCopy`, and everything readable arrive, whatever is lost, late or killed? | spool of 3 lines, batches of 2, time 0..1 | 293 000 |
| `uploader_replay` | expected violation, see 6 | the same | |
| `runtime` | Does motion end with its session, and is each session reported once? | 2 sessions | 70 000 |
| `board` | Do answers mean what they say, and does everything come to rest? | 3 requests on 2 threads, 2 runtimes, 1 fault or restart | 934 000 |
| `tunnel` | Is every process held by the map, does every operation end, does a deleted connection go down? | 2 connections, 2 processes, 2 closes, 1 exit | 69 000 |

Why the bounds are enough to meet the hazards:

* Quota: with a limit of one, two keys compete for the last slot, and two
  handlers can both be between reading and writing: a POST and a poll, a poll
  and a reconciliation, or two answers in any order.
* Wrong ids: an operator and a relay tab name any job of either run, one that nobody has created
  yet (which no runner knows), or one that is gone. Ids that no runner will ever know are a
  constant of their own, `Mistyped`, empty in the runs since they add states and no behaviour;
  the theorems cover them, as they do RoboGo and the browser simulator: a RoboGo run does
  what a local one does, less the relay and the evidence, and a simulated one is over at once.
* Lease: two running processes are the race, and the third is the writer before
  them, which exits or is killed and whose pid one of them was given. So both
  ways to judge a lease occur, the pid probe and the heartbeat. A
  clock of 0..2 with `Stale = 1` has a fresh, a boundary and a stale heartbeat.
* Telemetry: two chunks of one run suffice for reordering and for a head that
  does not cover the first one, a third of another board has the sequence number of the first and a later
  time, so that time may go back or not; the second run is what the account quota and the
  legacy row need; ids up to 4 leave room for two retries of a failed append.
* Release: version 2 lets telemetry outdate an evaluation that passed (an
  evaluation of nothing is invalid); two handlers are two probes, or a probe and
  a cancellation.
* Worker: with one slot and three jobs one job runs, one waits and one finds no engine, in
  front of or behind the other in the queue. One key and "no key"
  give duplicates and independent jobs. Two slots and a fourth job (1.2 million
  states, safety only) show nothing new.
* Uploader: three lines and batches of two give a full batch, a partial one and one that
  grows before it is read again; time 0..1 lets one line be older than another.
  A session-started line, a sample and an end fit, and a new session after them does
  not need more to be out of order.
* Runtime: the loop of the first session lives beside the second one; every request,
  a fault and SIGTERM may come at each of its steps.
* Board: two threads are the race on the lock, the command file and `_policy_proc`; two
  runtimes are a double spawn or a restart; the third request is the stop. One
  fault is a failed write, a runtime that ends or a restart of the agent; with a restart the three requests
  are one before it and two after it, or the other way round.
* Tunnel: connections share nothing but the bounds and the exit, so the second one is there for the
  exit; two processes are an old and a new tunnel of one connection, two closes a
  disconnect and a delete. With one connection, 5 processes and 4 closes
  (267 000 states), and with 3 processes (316 000 states), nothing else was found.

Symmetry is used only in runs without liveness properties, over ids
that no definition tells apart. Deadlock is not checked where the system may
rest: every id used, every run ended. Bounds (`MaxClock`, `MaxId`, `MaxVersion`, `MaxT`,
`MaxLines`, `MaxSessions`, `MaxRequests`, ...) are guards of one action each.

### Properties

`RunLedger`

* `ActiveQuota`: no account has more queued or running runner jobs than its limit.
* `OneJobPerKey`: no two jobs have one key, however the POST is retried or cut off.
* `OwnIdKept`: once a run carries the job its runner started for it, no reconciliation,
  tab or late answer changes that; a wrong id gives way to the run's own job and to nothing else.
  That every id is the run's own is not true of the code: the reconciliation asks the operator to
  confirm it, and the claim stores what the tab sends.
* `TerminalStays`: no late answer changes an end.
* `ImplementsSlots`: refinement of `RunSlots`; `held` is the set of active runs per
  account, `spent` the runner runs that have ended.
* `LostReservationReleased`: a reservation without an answer gives its slot back.

`WriterLease`

* `OneWriterUnlessTrampled`: no two processes of a host rewrite the ledger together, whoever
  fails, exits or is killed, as long as no takeover has renamed its record over the lease of a
  running process other than the one it judged. The code allows that, and without any kill: one
  process reads the lease of another, which then exits and removes it; a third creates its own;
  the first finds the pid gone and renames over it.
* `ReleasesOwnLease`: a complete lease is removed by the process it names only, in the exit hook,
  even when that read the file long ago, or undoing a create; under the same condition.
* `LiveNeverMistaken`: nobody decides to take over the lease of a running process
  of its host, not even one with a recycled pid.
* `DeadWriterReplaced`: see section 4.

`TelemetryStore`

* `IndexHasSamples`: every index row has its samples. `AcknowledgedKept`: what a client was
  told is stored stays until it expires. `StoredOnce`: retries do not
  duplicate, with two boards in one run. `EvaluationFresh`: a summary digests exactly the committed set.
  `ImplementsChunkLog`: refinement of `ChunkLog`; every chunk is stored in one step, within the
  quotas, and not beside a twin, rows leave only by age, and a run that is torn is neither evaluated nor
  acknowledged, and stops the appends of the account. `ListingIsHead`: a listing is the first part of the run
  in replay order, over a
  snapshot that was committed when it began.

`ReleaseChain`

* `PassedIsCurrent`: a passed, not stale evaluation describes the telemetry of now.
  `ReleaseIsJustified`: a plan becomes ready by an approval on current, signed
  evidence and a published artifact. `DecisionsStay`: no approval or late probe undoes a rejection or a
  cancellation. `PreflightIsVerified`: a preflight is ready on the answer of a probe that passed.

`TrainingWorker`

* `EngineLimit`; `WorkConserving`: while a job waits and a slot is free, a pump is
  still to come, or stands at the write of a job without an engine and goes on; `OneEnginePerKey`;
  `NoRelaunch`; `FollowsJobLifecycle`; `JobsEnd`.

`TelemetryUploader`

* `ImplementsSpoolCopy`: refinement of `SpoolCopy`; what the platform has is a beginning of the
  spool at all times, and the checkpoint passes only over what is there.
* `RefusalHasCause`: the timeline check never refuses a batch of a spool that is in order.
* `Drained`: again and again the platform has all of the spool, or has refused a batch.

`PolicyRuntime`

* `MovingIsAttended`: a movement is on the topic only while a loop lives that will end it.
* `SessionsReportedOnce`: refinement of `MotionSession`.
* `StopQuiets`: while the flag stays set, all loops end and the last command is a zero.

`BoardAgent`

* `StopHolds`: an answered stop has stopped what moved when it arrived.
* `AnswerIsOwn`: a load or start reported done was executed, except under a number that the agent before
  left in the files.
* `NoStaleStart`: a command from before a spawn never moves the new process.
* `ComesToRest`: when requests cease, all are answered, no window is open, and no
  movement is left but one that a failed write or a restart has left without a window.

`BoardTunnel`

* `NoOrphan`: an ssh process that was not told to end is the one registered for its connection.
* `NoStrayTunnel`: a deleted connection has a tunnel only while it is being opened.
* `OpensEnd`, `DeletedGoesDown`.

Each of them is violated by at least one plausible defect: the modules carry these
as operators named `Bad...`, each beside the definition it replaces.

Further properties are stated in the modules and proved (section 5), and were
model-checked before; no run repeats them: the type invariants,
`EvidenceOfCompletedRuns` of the ledger, `StoredOnce` and `CheckpointIsStored` of the
uploader with `CopyHasNoGaps`, `QuotasHold` of the telemetry store, `RunningIsAttended`,
`OneCommandAfterStop`, `ReadyHasModel` and `FaultIsSticky` of the
runtime, `MotionHasWindow` of the agent.

## 4. Fairness

* `SubmitFairSpec` (`ledger_slots`): every handler step is weakly fair (a fetch is
  cut off by its timeout, so a handler never waits for ever), time passes
  (`Age`), and accounts keep submitting under fresh keys (strong fairness of
  `FreshSubmission`). The last one is needed because the sweep is part of
  `reserveSim2RealRun` and no timer runs it: an account that never submits again
  keeps the lost reservation. The property holds with this assumption only, and says so.
* `LeaseFairSpec`: a process that runs takes its next step (`Proceed`, weak)
  and time passes (weak). Each process is asked for a write again and again (strong
  fairness of `ReadLedger`: another process may have the same change in hand now and
  then), and a write that is tried again and again does not fail for ever (strong
  fairness of `Store`, the steps `WriteFails` competes with). `DeadWriterReplaced` is stated while there is
  something left to write and the model's clock has not run out.
* `FairSpec` of `TrainingWorker`: the file system answers and an engine ends,
  either by itself or by the timeout's SIGTERM. No fairness for `Submit` or `Crash`.
* `FairSpec` of `TelemetryUploader`: systemd starts the uploader again
  (`Restart=always`) and its loop goes on, weakly; a batch that is read, a checkpoint that is saved and a
  request that is answered in time are strongly fair, because crashes and
  timeouts may come in between, but not for ever. The runtime and the network's losses have
  none. `Drained` allows a refusal for ever: that is the finding of section 6.
* `FairSpec` of `PolicyRuntime`: each of its threads is scheduled (weak fairness per
  thread, while the process lives). Requests, SIGTERM and the exit need not come.
* `FairSpec` of `BoardAgent`: some thread, process or the watchdog takes a step while one
  can. This is weaker than fairness for each and is enough, since without new requests no step
  can be repeated for ever: waits have deadlines, and the watchdog's window closes. This is
  proved (`StepsRunOut`).
* `FairSpec` of `BoardTunnel`: timers and probes end (weak, per operation and per close),
  and an ssh process that was sent SIGTERM ends (or is killed after 2 s, which is `Closed`).

## 5. The proofs

Eight modules prove, for all values of the constants, what the runs check on small
ones. Their assumptions are the named `ASSUME`s of the modules: limits are natural numbers (positive where
the code needs it), null values are not ids, maps are total. TLC evaluates them in the runs.
No theorem rests on another module's theorem.

| module | theorems | properties |
|---|---|---|
| `RunLedgerProofs` | `TypeCorrect`, `NoSecondJob`, `QuotaHolds`, `EvidenceHolds`, `TerminalForever`, `OwnIdForever`, `RefinesSlots` | `TypeOK`, `OneJobPerKey`, `ActiveQuota`, `EvidenceOfCompletedRuns`, `TerminalStays`, `OwnIdKept`, `ImplementsSlots` |
| `StorageProofs` (telemetry) | `StoreTypeCorrect`, `IndexedSamplesExist`, `AcknowledgedStays`, `RetriesStoreOnce`, `EvaluationStaysFresh`, `QuotasAreKept`, `ListingsAreHeads`, `ChunksImplemented` | `TypeOK`, `IndexHasSamples`, `AcknowledgedKept`, `StoredOnce`, `EvaluationFresh`, `QuotasHold`, `ListingIsHead`, `ImplementsChunkLog` |
| `StorageProofs` (lease) | `LeaseTypeCorrect`, `LiveKeepsLease`, `ReleasesOwnOnAHost`, `OneWriterOnAHost` | `LeaseTypeOK`, `LiveNeverMistaken`, `ReleasesOwnLease`, `OneWriterUnlessTrampled` |
| `ReleaseChainProofs` | `ReleaseTypeCorrect`, `PassedStaysCurrent`, `ReadyPreflightVerified`, `ReleasesJustified`, `DecisionsHold` | `TypeOK`, `PassedIsCurrent`, `PreflightIsVerified`, `ReleaseIsJustified`, `DecisionsStay` |
| `TrainingWorkerProofs` | `WorkerTypeCorrect`, `EnginesLimited`, `NoLostWakeUp`, `EngineStartedOnce`, `LifecycleFollowed`, `KeyStartsOneEngine`, `JobsRunOut`, `SomeJobGoesOn` | `TypeOK`, `EngineLimit`, `WorkConserving`, `NoRelaunch`, `FollowsJobLifecycle`, `OneEnginePerKey` |
| `TelemetryUploaderProofs` | `UploaderTypeCorrect`, `NothingSkipped`, `NothingTwice`, `NothingOvertakes`, `RefusalsExplained`, `CopyImplemented` | `TypeOK`, `CheckpointIsStored`, `StoredOnce`, `CopyHasNoGaps`, `RefusalHasCause`, `ImplementsSpoolCopy` |
| `PolicyRuntimeProofs` | `RuntimeTypeCorrect`, `MovementIsAttended`, `SessionHasLoop`, `StopIsObeyed`, `ModelBeforeMotion`, `FaultStays`, `SessionsImplemented`, `LoopsRunOut` | `TypeOK`, `MovingIsAttended`, `RunningIsAttended`, `OneCommandAfterStop`, `ReadyHasModel`, `FaultIsSticky`, `SessionsReportedOnce` |
| `BoardAgentProofs` | `AgentTypeCorrect`, `MovementHasWindow`, `StopIsHeld`, `AnswersAreOwn`, `StaleStartsFail`, `StepsRunOut` | `TypeOK`, `MotionHasWindow`, `StopHolds`, `AnswerIsOwn`, `NoStaleStart` |
| `BoardTunnelProofs` | `TunnelTypeCorrect`, `ProcessesAreHeld`, `DeletedIsClosed`, `OpensRunOut`, `OpensGoOn` | `TypeOK`, `NoOrphan`, `NoStrayTunnel` |

Each module has one inductive invariant, `Inv` (`WellFormed` for the ledger; `ListInv`, `LeaseInv` and
`OwnerInv` beside it in `StorageProofs`), a lemma for the initial states, one lemma or step per action, and
the theorems as consequences.
What the invariants add to the properties, and why:

* Ledger. That only the run's own job displaces an id depends on what a dispatch that has not yet
  written remembers; that a second job cannot appear depends on the handler being
  the only one to dispatch its reservation. `RunsOK`: no two runs share a key. `JobsOK`: the key
  of a job is the key of some run. `HandlersOK`: a POST holds its
  reservation alone, no job has its key before it is answered, and the id it was answered with is that of
  its own job. `Settled(r)` says what any step but the reservation itself
  may do to a run: nothing, move it forward, or put its own job over another id; the quota, the action
  properties and the
  refinement follow from it.
* Telemetry store. `CheckedOK`: what `BeginAppend` has checked (the chunk is unknown, the kept rows
  leave room, the expired ones are of the same run) still holds when the ledger
  is written, because the write chain lets nobody else in. `ExpiredOK`: what is going
  to be removed is older than the cutoff and than the new record. `OrderOK`: at the
  ledger write the line is in the shard; at the rewrite the index no longer has what it removes. `IdsOK`: ids
  are
  handed out once. Refinement: `Stored` is the index, since every indexed row has its line, so only
  `CommitIndex` adds to `ChunkLog`; `TornOK`: the runs an append has read stay whole until it is through,
  but for the line it writes itself; `CheckedOK` says that the new row is no twin, and `OneMore` that the
  quotas still hold with it.
* Listings. `ReaderOK`: the rows a listing read from the ledger are of one run and differ in id, and
  none has the id of the append in progress. Hence what of them is in the index only shrinks while the
  listing goes on, and a listing that was right when it ended stays right. That the first rows of a
  set are as many as asked for is `FirstElements`; it is proved without induction, by counting
  the elements before each and comparing cardinalities. `PartSuffices` is `headCoversIndexedTop`:
  the first rows of a part of the run are the first rows of the run, when the part includes as many
  of those as the head has lines.
* Lease. `PidsDiffer`: running processes of a host have different pids. `NamesWriter`: a record names a
  process that was started, and `HasChange` is needed since the type alone does not keep the ledger a
  set of writes. From these follows `LiveKeepsLease`, on any number of hosts.
  `JudgedOK`: who is about to rename has judged its own record or that of a process that has ended, and
  an ended one stays so. `OwnerOK`: who fills, undoes, holds or is about to remove the file is the
  process it names; only a rename over something else than what was judged could take it away, so it
  holds until one tramples. Both need one host (`OneHostOnly`, the hypothesis of the last two theorems):
  `docs/scalability.md:32` lists several hosts as a known limitation, and with them a live
  writer whose heartbeat is old is replaced, by design, so that the statements are false.
* Release chain. `RevisionOK`: the run's revision is cleared or the present version. `ComputedOK`: what a
  handler has computed is no newer than the telemetry, so a result that is registered late is either
  current or refused. `HandlerOK`, `PlanOK`: probes are for preflight plans, approvals for releases.
* Worker. `SlotsOK`: a job that has left the queue and whose slot is not given back is
  counted. `QueueOK`: a waiting job is queued once. `StatusOK` and `DiskOK` relate what a poll
  sees and what a restart reads to the stage of the job. `LaunchedOK`: an engine that was started is past its
  launch for good.
* Uploader. `UploadOK`: requests start at the checkpoint or where a chunk is stored already,
  the rows of a chunk end before the next one starts, and a checkpoint to be saved is that
  of a stored chunk with the same rows. All of this survives growth of the spool, since lines are only
  appended. Refinement: chunks of the platform start where others end, so one that is stored
  anew starts at the checkpoint, and what is copied becomes a longer beginning (`StoringCopies`).
* Runtime. `LoopOK`: the running session's loop has not seen a clear flag as set, and a loop that has
  published since the flag was set will not do so again. `SessionOK`: open is running, closed is
  reported. `CmdOK`: only a live loop moves the robot.
* Agent. `TrackOK`: a living runtime is the tracked one unless one was lost. `AckOK`: a waiting thread's
  number is acknowledged only for its own command, executed, unless it is one of `stale`. `FreshOK`: a
  command that was written when a living process was there, and what a moving one has answered, has a number
  of this agent. `StopOK` and `MovedOK`: what a
  stop still has to bring to rest is moving, and nothing once it is acknowledged. `FileOK`: a start from
  before a spawn finds that runtime without a model.
* Tunnel. `OwnOK`: an operation that has started a process shares its connection with no other.
  `RemovedOK`: what was opened again before a record is removed is still being connected, and waits
  for that removal; this is the step that needs 9.5 s to exceed 2 s. `StartedOK`, `ClosedOK`.

Liveness itself stays with TLC: `LostReservationReleased`, `DeadWriterReplaced`, `JobsEnd`,
`Drained`, `StopQuiets`, `ComesToRest`, `OpensEnd` and `DeletedGoesDown` rest on fairness, which the
prover does not reason about (ENABLED). Every other property of a run is proved. For four of
these eight the safety part is proved as well, for every size: a measure that the component's own
steps lower, and that somebody is able to take one. TLC evaluated the guards used there
(`CanGoOn`, `GoesOn`) against `ENABLED` of the actions.

| liveness | its measure goes down | somebody can step |
|---|---|---|
| `JobsEnd` | `JobsRunOut`: a rank of the stages, per job | `SomeJobGoesOn`, from `WorkConserving` and `WaitersQueued`: who waits is in the queue |
| `StopQuiets` | `LoopsRunOut`: a rank of the loop's steps while the flag is set | each live loop by itself; `MovementIsAttended` then says that the last command is a zero |
| `ComesToRest` | `StepsRunOut`: first what the requests have ahead of them, then the chores of watchdog and runtimes | `WF(Run)` asks for no more than this |
| `OpensEnd` | `OpensRunOut`: a rank of the operation's steps | `OpensGoOn`, from `WaitOK`: the process has been started, the closes waited for have been made |

## 6. Where code and documentation disagree

Each is a run expected to end in a counterexample.

* `lease_lost`. `storage-lease.ts:9` says the lease protects accepted data. The
  ledger is read before the lease is acquired: a process that read it, waited
  while another wrote and ended, and then took the lease, writes the old ledger back.
  `AcceptedSurvives`.
* `uploader_replay`. `board-telemetry-uploader.py:7` says that replaying a chunk is safe. After a
  lost answer the batch is read again from a spool that may have grown; if it was
  not full, the same sequence number comes with other rows, and the platform refuses it as a
  conflict, at every retry. Nothing later of that run is uploaded. `ReplayIsSafe`.

A third one has no run of its own, because it is one state and not a behaviour. The comment at
`sim2real-store.ts:1025` says the bounded reader tolerates "a truncated tail so a partial final write cannot
hide every earlier record". It
passes the tail to `parseTelemetryShardLine`, which throws what `JSON.parse` throws (882), by a
comment of its own on purpose (875): a listing that reaches the tail fails. The whole-shard reader
fails always. The model does what the code does (`torn`, `Readable`), and the
properties are stated around it.

Two of the agent are disagreements that the properties of `board` are stated around as well:

* The docstring of `_policy_send` (`board-agent-x5.py:1219`) promises "a seq-correlated `lastOp` for THIS
  request". The numbers begin anew when the agent is started again, and the command and the state file do not:
  a runtime of the new agent that executes the old command 1 acknowledges the new request 1. `AnswerIsOwn`
  excepts the numbers in `stale`; without that exception TLC finds the case.
* The docstring of `drive_command` (`board-agent-x5.py:881`) says that it "can never extend motion by more
  than that". If its write
  raises after the rename, or the agent ends inside a window, the movement is in the file without a window;
  the next publisher republishes the file, and the watchdog looks only at windows. `MotionHasWindow`
  and `ComesToRest` name these cases (`adrift`).

## 7. What is left out

Of the modelled components:

* Ledger: runs created without an Idempotency-Key, by one atomic insertion, and the relay's
  artifact upload. A run that reconciliation moves straight to completed gets its telemetry from
  no handler. A relayed run whose tab is closed after the claim is polled by nobody: the
  code has no later step to state a property about. The transition tables of
  `shared/sim2real-lifecycle.ts`, which the user interface consults; the model has those of
  the store, which are laxer (a running run may go back to queued).
* Lease: nothing guards the rename of a takeover, see `OneWriterUnlessTrampled`; the properties
  about the writer stop there. An idle live writer on another host loses its lease once its heartbeat is
  stale, by design, and its exit hook may then remove the new one, if it read its
  own just before; the run has one host, so that its properties can say more.
  A kill between the exclusive create and the content leaves an empty lease that is a conflict until
  somebody removes it; `DeadWriterReplaced` is stated for complete leases.
* Telemetry: a line cut exactly before its newline; the usage cache; the bytes and
  samples of a chunk (each counts one). A torn shard makes its run unreadable
  and the account unable to append, see section 6. Lines of a
  crash before the rewrite are never erased, though invisible.
* Release: datasets, projects, lineage ids, record caps and the idempotency keys of
  artifacts and plans, each a check inside one store operation; the training
  metrics of the release gate, which do not change once the run has completed.
* Worker: logs, progress, downloads; an engine that ignores SIGTERM keeps its slot;
  finished jobs are never dropped, so the worker is full after `MAX_JOBS`.
* Uploader: refusals by quota, run status or authentication, which say nothing of the spool; uploads without
  a token, which the platform takes as not attested and does not
  compare by sequence; a checkpoint file that exists and cannot be read, which stops the
  uploader until somebody removes it; the telemetry node and the capture tool.
* Runtime: the reset of a policy between sessions, batched inference, the values of commands. `os._exit`
  comes half a second after SIGTERM whether or not the zero was published; the
  last command may then be a movement, which the chassis stops by its own 500 ms watchdog,
  outside this repository. `board-joint-policy-runtime.py` has the same structure over joint
  commands; `board-drive-publisher.py` copies its command file to the topic.
* Agent: the arm, the environment switches, staging of models, cameras; a file that cannot be removed; whose
  process
  the drive publisher is (only the outcome of its handshake is modelled). The state file of
  an earlier runtime makes a booting one look alive for up to 5 s, which is modelled; a runtime whose own
  state file is old looks dead while it lives, which is not, and would be spawned twice in the same way as a
  boot. After such a double spawn the first process is out of reach, and a stop that finds
  the tracked one dead reports success: `StopHolds` is stated for `~lost`.
* Tunnel: what the last check found, the order of preference among agent URLs, the
  error event of an ssh that cannot be spawned (it is an exit here), a SIGKILL of the web
  process, which leaves its ssh processes behind. The proxy forwards requests; its fallback to a second
  address may execute a POST twice, as a direct request that timed out may.

Components without a module:

* Audit log (`audit-log.ts`). Appends are serialized in one promise chain and nothing else
  writes the file, so there is little to interleave on the writing side. Two things were
  seen while reading. A line that was cut short has no newline, so the next event is
  appended to it and both are skipped, although `readSegment` says that a damaged line never
  hides the rest. A listing reads both segments in parallel: when a rotation comes between,
  it may see the events of the old segment twice or the moved ones not at all, although
  the comment in `rotateIfNeeded` calls a rotation atomic for readers.
* Events: delivery is fire and forget, streams are not replayed.
* OTA (`board-ota-agent.py`): a check of a manifest, without state of its own.
* Browser application: the largest file of the repository. Its relay polling appears as requests
  of `RunLedger`; the rest displays what the server says.
* Agent runtime, workshop sessions, device probes, authentication, registries, metrics, training
  engines, scripts: `PROJECT.json` has the reason for each. Most of their lines, and so most of the
  repository, are user interface, request validation around one serialized store operation,
  or numerical code, which a state machine says nothing about.

## 8. Plan

Done: the ledger, the lease, the telemetry store with its listings, the release chain, the worker, the
policy runtime, the agent, the uploader and the tunnels, all with proofs.

1. `Approvals` of the agent runtime: a decision racing a timeout and a restart.
2. `AuditLog`: rotation against a listing, and lines cut short.
3. `BoardAgent` with the arm and the joint runtime; a composition with
   `PolicyRuntime`, whose requests are then the agent's command file.
4. `RunLedger` with runs without a key and the relay's artifacts.
5. `WriterLease` across hosts, stated with the heartbeat alone: which of two writers whose
   heartbeats are fresh can exist.

An expected violation is dropped once the code is corrected, so that new
components take over its place.
