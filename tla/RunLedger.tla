---- MODULE RunLedger ----
\* The training-run part of the Sim2Real ledger: every HTTP handler that creates
\* or changes a run record, interleaved at its awaits. A ledger operation is one
\* atomic step (the store runs it inside its serialized write chain); a request
\* to a training runner is a step of its own, so that snapshots grow stale and
\* answers arrive in any order.
EXTENDS Integers, FiniteSets, JobLifecycle

CONSTANTS
  RunIds,      \* ids randomUUID() may return
  Owners,      \* accounts
  Keys,        \* (account, Idempotency-Key) pairs
  KeyOwner,    \* the account of a key
  Jobs,        \* ids of the jobs the runners create
  Mistyped,    \* well-formed ids that no runner knows
  Backends,    \* the backends the form offers
  Requests,    \* activations of the HTTP handlers
  MaxActive,   \* RDK_SIM2REAL_MAX_ACTIVE_RUNS
  RunCap,      \* RUN_CAP
  NoKey, NoId  \* "no idempotency key", "no run id or external id"

ASSUME OwnersAssumption == KeyOwner \in [Keys -> Owners]
ASSUME LimitsAssumption == MaxActive \in Nat \ {0} /\ RunCap \in Nat \ {0}
ASSUME BackendsAssumption == Backends \subseteq {"local", "robogo", "browser", "contract"}
ASSUME FiniteAssumption == IsFiniteSet(RunIds)
ASSUME NullAssumption ==
  NoKey \notin Keys /\ NoId \notin RunIds \cup Jobs \cup Mistyped /\ Jobs \cap Mistyped = {}

VARIABLES
  runs,      \* ledger.runs, by id; an id not yet used holds NoRun
  requests,  \* the handlers in flight: what each one remembers across an await
  jobs,      \* the runners' own job tables (external)
  evidence   \* runs whose evaluation telemetry the platform tried to attach

vars == <<runs, requests, jobs, evidence>>

ExternalIds == Jobs \cup Mistyped
Statuses == {"queued", "running", "ready", "completed", "blocked", "failed"}

\* isTerminalRunStatus
Terminal == {"ready", "completed", "blocked", "failed"}

NoRun == [key |-> NoKey, backend |-> "none", status |-> "none", ext |-> NoId,
          relay |-> FALSE, finished |-> FALSE, aged |-> FALSE]

\* "aged": createdAt is older than sim2RealActiveRunTtlSeconds().
Run == [key : Keys \cup {NoKey}, backend : Backends \cup {"none"},
        status : Statuses \cup {"none"}, ext : ExternalIds \cup {NoId},
        relay : BOOLEAN, finished : BOOLEAN, aged : BOOLEAN]

\* What a handler awaits: the outcome of a dispatch or of a status lookup.
NoReply == [status |-> "none", ext |-> NoId, relay |-> FALSE]
Reply == [status : Statuses \cup {"none", "gone"}, ext : ExternalIds \cup {NoId},
          relay : BOOLEAN]

Idle == [op |-> "idle", run |-> NoId, ext |-> NoId, reply |-> NoReply]
Request == [op : {"idle", "post", "poll", "sync", "reconcile"},
            run : RunIds \cup {NoId}, ext : ExternalIds \cup {NoId}, reply : Reply]

NoJob == [key |-> NoKey, status |-> "absent"]
Job == [key : Keys \cup {NoKey},
        status : JobStatuses \cup {"absent", "gone"}]

Init ==
  /\ runs = [r \in RunIds |-> NoRun]
  /\ requests = [q \in Requests |-> Idle]
  /\ jobs = [j \in Jobs |-> NoJob]
  /\ evidence = {}

----
\* Operators of the store.

IsRunner(backend) == backend \in {"local", "robogo"}

\* isActiveRunnerRun
IsActive(run) == IsRunner(run.backend) /\ run.status \in {"queued", "running"}

ActiveOf(table, o) ==
  {r \in RunIds : table[r].key \in Keys /\ KeyOwner[table[r].key] = o /\ IsActive(table[r])}

\* Mutant: only a run that is already running expires.
BadIsStale(run) == IsActive(run) /\ run.status = "running" /\ run.ext = NoId /\ run.aged

\* expireStaleActiveRunnerRuns: only reservations that never got an external id.
IsStale(run) == IsActive(run) /\ run.ext = NoId /\ ~run.finished /\ run.aged

Expire(run) == [run EXCEPT !.status = "failed", !.finished = TRUE]

\* Mutant: the sweep forgets an expired reservation.
BadSweep(table) == [r \in RunIds |-> IF IsStale(table[r]) THEN NoRun ELSE table[r]]

Sweep(table) == [r \in RunIds |-> IF IsStale(table[r]) THEN Expire(table[r]) ELSE table[r]]

\* Mutant: only a completed run is protected from late patches.
BadDropped(run, status) == run.status = "completed" /\ status # run.status

\* Whether updateSim2RealRun drops a patch with this status.
Dropped(run, status) == run.status \in Terminal /\ status # run.status

\* updateSim2RealRun: a patch leaves out what it does not mention, and a terminal
\* run takes no patch with another status.
Updated(run, status, ext, relay) ==
  IF Dropped(run, status) THEN run
  ELSE [run EXCEPT !.status = status,
                   !.ext = IF ext = NoId THEN @ ELSE ext,
                   !.relay = IF relay THEN TRUE ELSE @,
                   !.finished = IF status \in {"completed", "failed"} THEN TRUE ELSE @]

UpdateRun(r, status, ext, relay) ==
  runs' = [runs EXCEPT ![r] = Updated(@, status, ext, relay)]

Finish(q) == requests' = [requests EXCEPT ![q] = Idle]

Answer(q, status, ext, relay) ==
  requests' = [requests EXCEPT ![q].reply = [status |-> status, ext |-> ext, relay |-> relay]]

Start(q, op, r, ext) ==
  /\ requests[q] = Idle
  /\ requests' = [requests EXCEPT ![q] = [op |-> op, run |-> r, ext |-> ext, reply |-> NoReply]]

Waiting(q, ops) == requests[q].op \in ops /\ requests[q].reply = NoReply

Answered(q, op) == requests[q].op = op /\ requests[q].reply # NoReply

----
\* POST /runs

NewRun(k, b) == [NoRun EXCEPT !.key = k, !.backend = b, !.status = "queued"]

\* Mutant: the key of a run that has ended is free again.
BadHasKey(table, k) == \E r \in RunIds : table[r].key = k /\ IsActive(table[r])

HasKey(table, k) == \E r \in RunIds : table[r].key = k

\* Mutant: off by one.
BadQuotaReached(table, o) == Cardinality(ActiveOf(table, o)) > MaxActive

QuotaReached(table, o) == Cardinality(ActiveOf(table, o)) >= MaxActive

CapReached(table) == Cardinality({r \in RunIds : table[r].status # "none"}) >= RunCap

\* reserveSim2RealRun inserts the queued record before any external side effect.
Reserve(q, r, k, b) ==
  LET swept == Sweep(runs) IN
  /\ ~HasKey(swept, k)
  /\ IsRunner(b) => ~QuotaReached(swept, KeyOwner[k])
  /\ ~CapReached(swept)
  /\ swept[r] = NoRun
  /\ runs' = [swept EXCEPT ![r] = NewRun(k, b)]
  /\ Start(q, "post", r, NoId)
  /\ UNCHANGED <<jobs, evidence>>

\* A key that was taken meanwhile, a full account and a full ledger refuse the
\* reservation: the sweep is kept all the same, so that a retry observes the
\* released slots. (A key the first lookup finds is answered without a sweep.)
ReserveRefused(q, k, b) ==
  LET swept == Sweep(runs) IN
  /\ requests[q] = Idle
  /\ \/ HasKey(swept, k)
     \/ IsRunner(b) /\ QuotaReached(swept, KeyOwner[k])
     \/ CapReached(swept)
  /\ runs' = swept
  /\ UNCHANGED <<requests, jobs, evidence>>

\* dispatchRunBackend returns without calling a runner: a contract check, the
\* browser simulator, a backend that is not available, an account or a resource
\* that is missing, a browser-relayed Agent.
ImmediateOutcomes(b) ==
  CASE b = "contract" -> {[NoReply EXCEPT !.status = "completed"]}
    [] b = "browser" -> {[NoReply EXCEPT !.status = s] : s \in {"ready", "blocked"}}
    [] b = "robogo" -> {[NoReply EXCEPT !.status = s] : s \in {"queued", "blocked"}}
    [] b = "local" -> {[NoReply EXCEPT !.status = s] : s \in {"queued", "blocked"}}
                        \cup {[NoReply EXCEPT !.status = "queued", !.relay = TRUE]}
    [] OTHER -> {}

DispatchImmediate(q) ==
  /\ Waiting(q, {"post"})
  /\ \E o \in ImmediateOutcomes(runs[requests[q].run].backend) :
       requests' = [requests EXCEPT ![q].reply = o]
  /\ UNCHANGED <<runs, jobs, evidence>>

\* The runner accepts the job. Its answer reaches the handler, or is lost or
\* unusable: the outcome is then unknown and the run stays queued.
RunnerAccepts(q, j) ==
  /\ Waiting(q, {"post"})
  /\ LET run == runs[requests[q].run] IN
     /\ IsRunner(run.backend)
     /\ jobs[j] = NoJob
     /\ \E s \in JobStatuses :
          /\ jobs' = [jobs EXCEPT ![j] = [key |-> run.key, status |-> s]]
          /\ \/ Answer(q, s, j, FALSE)
             \/ Answer(q, "queued", NoId, FALSE)
  /\ UNCHANGED <<runs, evidence>>

\* The runner rejects the request (failed), or it never gets there (queued).
RunnerRefuses(q) ==
  /\ Waiting(q, {"post"})
  /\ IsRunner(runs[requests[q].run].backend)
  /\ \E s \in {"failed", "queued"} : Answer(q, s, NoId, FALSE)
  /\ UNCHANGED <<runs, jobs, evidence>>

\* The handler writes the outcome over its reservation.
PostFinish(q) ==
  /\ Answered(q, "post")
  /\ LET reply == requests[q].reply IN
       UpdateRun(requests[q].run, reply.status, reply.ext, reply.relay)
  /\ Finish(q)
  /\ UNCHANGED <<jobs, evidence>>

----
\* GET /runs/:id

\* The handler reads the run and asks the runner only for an active one.
PollStart(q, r) ==
  /\ IsActive(runs[r])
  /\ runs[r].ext # NoId
  /\ ~runs[r].relay
  /\ Start(q, "poll", r, runs[r].ext)
  /\ UNCHANGED <<runs, jobs, evidence>>

\* The runner reports the job as it is now: the handler writes it later. A job that is
\* not the run's own may belong to a runner this handler does not ask.
Lookup(r, x) ==
  IF x \in Jobs /\ jobs[x].status \in JobStatuses
  THEN {jobs[x].status} \cup {"gone" : k \in {jobs[x].key} \ {runs[r].key}}
  ELSE {"gone"}

RunnerReports(q) ==
  /\ Waiting(q, {"poll", "sync", "reconcile"})
  /\ \E s \in Lookup(requests[q].run, requests[q].ext) : Answer(q, s, NoId, FALSE)
  /\ UNCHANGED <<runs, jobs, evidence>>

\* The first observed completion of a local run attaches its telemetry; a 404
\* closes the run.
PollFinish(q) ==
  /\ Answered(q, "poll")
  /\ LET r == requests[q].run
         status == requests[q].reply.status IN
     IF status = "gone"
     THEN UpdateRun(r, "failed", NoId, FALSE) /\ UNCHANGED evidence
     ELSE /\ UpdateRun(r, status, NoId, FALSE)
          /\ evidence' = IF runs'[r].status = "completed" /\ runs[r].backend = "local"
                         THEN evidence \cup {r} ELSE evidence
  /\ Finish(q)
  /\ UNCHANGED jobs

----
\* POST /runs/:id/relay/claim and /relay/sync: the browser submits a relayed run
\* to the Agent on the user's computer and reports for it.

\* The Agent deduplicates by Idempotency-Key (external).
AgentAccepts(r, j) ==
  /\ runs[r].relay
  /\ runs[r].status = "queued"
  /\ \A i \in Jobs : jobs[i].key # runs[r].key
  /\ jobs[j] = NoJob
  /\ jobs' = [jobs EXCEPT ![j] = [key |-> runs[r].key, status |-> "queued"]]
  /\ UNCHANGED <<runs, requests, evidence>>

\* claimSim2RealRunRelay: the first tab to report wins, whatever id it reports.
RelayClaim(r, x) ==
  /\ runs[r].backend = "local"
  /\ runs[r].relay
  /\ runs[r].status \in {"queued", "running"}
  /\ runs[r].ext = NoId
  /\ runs' = [runs EXCEPT ![r].ext = x, ![r].status = "running"]
  /\ UNCHANGED <<requests, jobs, evidence>>

\* The tab reads the Agent's status and posts it.
SyncStart(q, r) ==
  /\ runs[r].relay
  /\ runs[r].ext # NoId
  /\ Start(q, "sync", r, runs[r].ext)
  /\ UNCHANGED <<runs, jobs, evidence>>

SyncFinish(q) ==
  /\ Answered(q, "sync")
  /\ IF requests[q].reply.status = "gone" THEN UNCHANGED runs
     ELSE UpdateRun(requests[q].run, requests[q].reply.status, NoId, FALSE)
  /\ Finish(q)
  /\ UNCHANGED <<jobs, evidence>>

----
\* POST /runs/:id/reconcile: an operator supplies the external id of a run whose
\* dispatch was lost, and confirms that it is the run's. Nothing else checks that: it may
\* be the job of another run.

ReconcileStart(q, r, x) ==
  /\ IsActive(runs[r])
  /\ runs[r].ext = NoId
  /\ Start(q, "reconcile", r, x)
  /\ UNCHANGED <<runs, jobs, evidence>>

\* Mutant: the attachment is a plain update.
BadReconcileAttach(q) ==
  /\ Answered(q, "reconcile")
  /\ requests[q].reply.status # "gone"
  /\ UpdateRun(requests[q].run, requests[q].reply.status, requests[q].ext, FALSE)
  /\ Finish(q)
  /\ UNCHANGED <<jobs, evidence>>

\* updateSim2RealRunForReconcile compares and sets; the loser gets a 409.
ReconcileAttach(q) ==
  /\ Answered(q, "reconcile")
  /\ requests[q].reply.status # "gone"
  /\ LET r == requests[q].run
         status == requests[q].reply.status IN
     runs' = IF IsActive(runs[r]) /\ runs[r].ext = NoId
             THEN [runs EXCEPT ![r] = Updated(@, status, requests[q].ext, FALSE)]
             ELSE runs
  /\ Finish(q)
  /\ UNCHANGED <<jobs, evidence>>

\* The runner's 404 goes through the plain update: unlike the attachment it compares
\* nothing, and fails a run another request may have attached meanwhile.
ReconcileNotFound(q) ==
  /\ Answered(q, "reconcile")
  /\ requests[q].reply.status = "gone"
  /\ UpdateRun(requests[q].run, "failed", NoId, FALSE)
  /\ Finish(q)
  /\ UNCHANGED <<jobs, evidence>>

----
\* The environment.

\* The runners (external): a job advances, and a runner may lose it.
JobStep(j) ==
  /\ jobs[j].status \in JobStatuses
  /\ \E s \in Successors[jobs[j].status] : jobs' = [jobs EXCEPT ![j].status = s]
  /\ UNCHANGED <<runs, requests, evidence>>

\* The TTL passes. It is at least five minutes and a runner call is cut off after
\* one, so the handler that made the reservation is no longer waiting.
Age(r) ==
  /\ IsActive(runs[r])
  /\ ~runs[r].aged
  /\ \A q \in Requests : requests[q].op = "post" => requests[q].run # r
  /\ runs' = [runs EXCEPT ![r].aged = TRUE]
  /\ UNCHANGED <<requests, jobs, evidence>>

\* A handler ends without writing: a runner that cannot be reached (503), a ledger
\* write that fails, or a client that went away.
Abandon(q) ==
  /\ requests[q] # Idle
  /\ Finish(q)
  /\ UNCHANGED <<runs, jobs, evidence>>

\* The service restarts: the ledger is all that is left.
Restart ==
  /\ \E q \in Requests : requests[q] # Idle
  /\ requests' = [q \in Requests |-> Idle]
  /\ UNCHANGED <<runs, jobs, evidence>>

----
Next ==
  \/ \E q \in Requests, k \in Keys, b \in Backends :
       ReserveRefused(q, k, b) \/ \E r \in RunIds : Reserve(q, r, k, b)
  \/ \E q \in Requests :
       \/ DispatchImmediate(q) \/ RunnerRefuses(q) \/ PostFinish(q)
       \/ RunnerReports(q) \/ PollFinish(q) \/ SyncFinish(q)
       \/ ReconcileAttach(q) \/ ReconcileNotFound(q) \/ Abandon(q)
  \/ \E q \in Requests, j \in Jobs : RunnerAccepts(q, j)
  \/ \E q \in Requests, r \in RunIds : PollStart(q, r) \/ SyncStart(q, r)
  \/ \E r \in RunIds, x \in ExternalIds :
       RelayClaim(r, x) \/ \E q \in Requests : ReconcileStart(q, r, x)
  \/ \E r \in RunIds, j \in Jobs : AgentAccepts(r, j)
  \/ \E r \in RunIds : Age(r)
  \/ \E j \in Jobs : JobStep(j)
  \/ Restart

Spec == Init /\ [][Next]_vars

----
\* Properties.

\* Every variable keeps to its type.
TypeOK ==
  /\ runs \in [RunIds -> Run]
  /\ requests \in [Requests -> Request]
  /\ jobs \in [Jobs -> Job]
  /\ evidence \in SUBSET RunIds

\* No account ever holds more queued or running runner jobs than its limit, whatever
\* handlers are in flight (reserveSim2RealRun, updateSim2RealRun).
ActiveQuota == \A o \in Owners : Cardinality(ActiveOf(runs, o)) <= MaxActive

\* Retries with one Idempotency-Key, concurrent or after a crash, never make a
\* runner start a second job (the reason for reserving before dispatching).
OneJobPerKey ==
  \A i, j \in Jobs : jobs[i].key # NoKey /\ jobs[i].key = jobs[j].key => i = j

\* A late answer of a poll, a relay tab, a reconciliation or a dispatch never moves
\* a run out of a terminal state (updateSim2RealRun).
TerminalStays ==
  [][\A r \in RunIds : runs[r].status \in Terminal => runs'[r].status = runs[r].status]_vars

\* The run carries the job that a runner started under its own key.
CarriesOwn(r) == runs[r].ext \in Jobs /\ jobs[runs[r].ext].key = runs[r].key

\* An operator or a relay tab may name a wrong job, and a dispatch that answers late
\* overwrites it. Nothing else ever changes or removes an attached id: once a run carries
\* its own job it keeps it, whatever reconciliations, tabs and polls are in flight
\* (updateSim2RealRun, updateSim2RealRunForReconcile, claimSim2RealRunRelay).
OwnIdKept ==
  [][\A r \in RunIds :
       runs[r].ext # NoId /\ runs'[r].ext # runs[r].ext => ~CarriesOwn(r) /\ CarriesOwn(r)']_vars

\* Evaluation telemetry is only attached to a run that has completed: a completed job
\* reported late, to a run that has failed meanwhile, attaches nothing.
EvidenceOfCompletedRuns == \A r \in evidence : runs[r].status = "completed"

\* What holds between the handlers, the ledger and the runners' job tables, and makes
\* the invariants above inductive.
RunsOK ==
  /\ \A r \in RunIds : IF runs[r].status = "none" THEN runs[r] = NoRun ELSE runs[r].key \in Keys
  /\ \A r, s \in RunIds : runs[r].key # NoKey /\ runs[r].key = runs[s].key => r = s

JobsOK == \A j \in Jobs : jobs[j].key # NoKey => HasKey(runs, jobs[j].key)

\* A POST holds its reservation alone, and no job exists under its key before the
\* runner has answered it.
PostOK(q) ==
  LET run == runs[requests[q].run]
      reply == requests[q].reply IN
  /\ reply # NoReply => reply.status \in Statuses
  /\ ~run.relay
  /\ \A p \in Requests : requests[p].op = "post" /\ requests[p].run = requests[q].run => p = q
  /\ reply.ext # NoId => reply.ext \in Jobs /\ jobs[reply.ext].key = run.key
  /\ reply = NoReply => \A j \in Jobs : jobs[j].key # run.key

\* A lookup asks for some id, and its answer is a job's status or "gone".
LookupOK(q) ==
  LET request == requests[q] IN
  /\ request.ext \in ExternalIds
  /\ request.reply # NoReply => request.reply.status \in JobStatuses \cup {"gone"}

HandlerOK(q) ==
  requests[q].op # "idle" =>
    /\ requests[q].run \in RunIds
    /\ runs[requests[q].run].status # "none"
    /\ IF requests[q].op = "post" THEN PostOK(q) ELSE LookupOK(q)

HandlersOK == \A q \in Requests : HandlerOK(q)

\* The ledger implements the slot accounting of RunSlots: an admitted run keeps its
\* slot until it ends, ends once, and the limit counts exactly the runs that hold one.
Slots == INSTANCE RunSlots WITH
  held <- [o \in Owners |-> ActiveOf(runs, o)],
  spent <- {r \in RunIds : IsRunner(runs[r].backend) /\ runs[r].status \in Terminal}

ImplementsSlots == Slots!Spec

----
\* Fairness: a handler waits for a runner no longer than the fetch timeout, time
\* passes, accounts keep submitting runs under fresh keys, and an open run page
\* keeps polling.

HandlerStep(q) ==
  \/ DispatchImmediate(q) \/ RunnerRefuses(q) \/ PostFinish(q)
  \/ RunnerReports(q) \/ PollFinish(q) \/ SyncFinish(q)
  \/ ReconcileAttach(q) \/ ReconcileNotFound(q) \/ Abandon(q)
  \/ \E j \in Jobs : RunnerAccepts(q, j)

FreshSubmission ==
  \E q \in Requests, k \in Keys, b \in {c \in Backends : IsRunner(c)} :
    /\ ~HasKey(runs, k)
    /\ ReserveRefused(q, k, b) \/ \E r \in RunIds : Reserve(q, r, k, b)

SubmitFairSpec ==
  /\ Spec
  /\ \A q \in Requests : WF_vars(HandlerStep(q))
  /\ \A r \in RunIds : WF_vars(Age(r))
  /\ SF_vars(FreshSubmission)

\* A reservation whose outcome was lost does not occupy an account slot forever
\* (DEFAULT_ACTIVE_RUN_TTL_SECONDS, expireStaleActiveRunnerRuns).
LostReservationReleased ==
  \A r \in RunIds :
    (IsActive(runs[r]) /\ runs[r].ext = NoId) ~> ~(IsActive(runs[r]) /\ runs[r].ext = NoId)
====
