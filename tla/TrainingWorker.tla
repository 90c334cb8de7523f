---- MODULE TrainingWorker ----
\* The local training worker: jobs are accepted under an idempotency key, wait in a queue,
\* and run as engine processes, at most Limit at a time. Each job's file operations
\* are steps of their own, and the worker may be killed between any two of them.
EXTENDS Integers, Sequences, FiniteSets, JobLifecycle

CONSTANTS
  Jobs,     \* run ids the worker may generate
  Keys,     \* (account, idempotency key) pairs
  NoKey,
  Unrouted, \* the jobs whose request names no engine, on a worker without a default one
  Limit,    \* maxConcurrentJobs()
  MaxJobs   \* MAX_JOBS

ASSUME LimitAssumption == Limit \in Nat \ {0} /\ MaxJobs \in Nat
ASSUME KeyAssumption == NoKey \notin Keys
ASSUME JobsAssumption == IsFiniteSet(Jobs) /\ Unrouted \subseteq Jobs

VARIABLES
  jobs,      \* the table of jobs
  queue,     \* queuedJobs
  disk,      \* what job.json of each job holds
  engines,   \* the jobs whose engine process is running
  launched,  \* the jobs an engine was ever started for
  loading    \* the job directories restorePersistedJobs has yet to read

vars == <<jobs, queue, disk, engines, launched, loading>>

\* "reserving": before the first job.json is written; "rejecting": pumpQueue has found no
\* engine for it; "launching": the request file is being written; "finishing": the result is read and checked; "storing": the terminal
\* record is written; "closing": it is written for the last time, or a failure is.
Stages == {"none", "reserving", "waiting", "rejecting", "launching", "running", "finishing",
           "storing", "closing", "done"}

Job == [key : Keys \cup {NoKey}, status : JobStatuses \cup {"absent", "gone"}, stage : Stages]

NoJob == [key |-> NoKey, status |-> "absent", stage |-> "none"]

\* A file that is missing or half written is "unreadable".
Files == JobStatuses \cup {"unreadable"}

Init ==
  /\ jobs = [j \in Jobs |-> NoJob]
  /\ queue = <<>>
  /\ disk = [j \in Jobs |-> "unreadable"]
  /\ engines = {}
  /\ launched = {}
  /\ loading = {}

----
Up == loading = {}

InStage(j, stages) == jobs[j].stage \in stages

Known == {j \in Jobs : jobs[j].status \in JobStatuses}

\* activeJobs
Active == {j \in Jobs : InStage(j, {"launching", "running"})}

Put(j, status, stage) == [jobs EXCEPT ![j].status = status, ![j].stage = stage]

\* A queued job that pumpQueue takes is launched, or fails for want of an engine.
Taken(j, job) ==
  IF j \in Unrouted THEN [job EXCEPT !.status = "failed", !.stage = "rejecting"]
  ELSE [job EXCEPT !.stage = "launching"]

\* Mutant: a job whose request file is being written does not count as active yet.
BadPumped(table, waiting) ==
  LET room == Limit - Cardinality({j \in Jobs : table[j].stage = "running"})
      n == IF room < Len(waiting) THEN room ELSE Len(waiting) IN
  /\ jobs' = [j \in Jobs |-> IF \E i \in 1..n : waiting[i] = j THEN Taken(j, table[j])
                             ELSE table[j]]
  /\ queue' = SubSeq(waiting, n + 1, Len(waiting))

\* pumpQueue up to its first await: the first n queued jobs are taken, as many as there is
\* room for. A job without an engine needs no slot, but the loop waits until its failure
\* is stored (Closed) and only then goes on.
Pumped(table, waiting) ==
  LET active == {j \in Jobs : table[j].stage \in {"launching", "running"}}
      room == Limit - Cardinality(active)
      most == IF room < Len(waiting) THEN room ELSE Len(waiting) IN
  \E n \in 0..most :
    /\ n = most \/ (n > 0 /\ waiting[n] \in Unrouted)
    /\ \A i \in 1..(n - 1) : waiting[i] \notin Unrouted
    /\ jobs' = [j \in Jobs |-> IF \E i \in 1..n : waiting[i] = j THEN Taken(j, table[j])
                               ELSE table[j]]
    /\ queue' = SubSeq(waiting, n + 1, Len(waiting))

----
\* Mutant: a key is known only once its job has been written.
BadSubmit(j, k) ==
  /\ Up
  /\ jobs[j] = NoJob
  /\ k # NoKey => \A i \in Known : jobs[i].key # k \/ InStage(i, {"reserving"})
  /\ Cardinality(Known) < MaxJobs
  /\ jobs' = [jobs EXCEPT ![j] = [key |-> k, status |-> "queued", stage |-> "reserving"]]
  /\ UNCHANGED <<queue, disk, engines, launched, loading>>

\* POST /train with a new key, or with none: the job is in the table before the first await.
Submit(j, k) ==
  /\ Up
  /\ jobs[j] = NoJob
  /\ k # NoKey => \A i \in Known : jobs[i].key # k
  /\ Cardinality(Known) < MaxJobs
  /\ jobs' = [jobs EXCEPT ![j] = [key |-> k, status |-> "queued", stage |-> "reserving"]]
  /\ UNCHANGED <<queue, disk, engines, launched, loading>>

\* Its directory and job.json are written, or the reservation is dropped again.
Reserved(j) ==
  /\ Up
  /\ InStage(j, {"reserving"})
  /\ disk' = [disk EXCEPT ![j] = "queued"]
  /\ Pumped(Put(j, "queued", "waiting"), Append(queue, j))
  /\ UNCHANGED <<engines, launched, loading>>

ReserveFails(j) ==
  /\ Up
  /\ InStage(j, {"reserving"})
  /\ jobs' = Put(j, "gone", "done")
  /\ UNCHANGED <<queue, disk, engines, launched, loading>>

\* Mutant: the pump does not go on after a job it has failed.
BadReject(j) ==
  /\ Up
  /\ InStage(j, {"rejecting"})
  /\ jobs' = Put(j, "failed", "done")
  /\ disk' = [disk EXCEPT ![j] = "failed"]
  /\ UNCHANGED <<queue, engines, launched, loading>>

\* pumpQueue stores that there is no engine for the job.
Reject(j) ==
  /\ Up
  /\ InStage(j, {"rejecting"})
  /\ jobs' = Put(j, "failed", "closing")
  /\ disk' = [disk EXCEPT ![j] = "unreadable"]
  /\ UNCHANGED <<queue, engines, launched, loading>>

\* The request file is written and the engine is spawned. job.json still says "queued".
Launched(j) ==
  /\ Up
  /\ InStage(j, {"launching"})
  /\ jobs' = Put(j, "running", "running")
  /\ engines' = engines \cup {j}
  /\ launched' = launched \cup {j}
  /\ UNCHANGED <<queue, disk, loading>>

\* Mutant: a failed launch is closed without pumping the queue.
BadLaunchFails(j) ==
  /\ Up
  /\ InStage(j, {"launching"})
  /\ jobs' = Put(j, "failed", "done")
  /\ disk' = [disk EXCEPT ![j] = "failed"]
  /\ UNCHANGED <<queue, engines, launched, loading>>

\* A request file that cannot be written, a demonstration that is not valid.
LaunchFails(j) ==
  /\ Up
  /\ InStage(j, {"launching"})
  /\ jobs' = Put(j, "failed", "closing")
  /\ disk' = [disk EXCEPT ![j] = "unreadable"]
  /\ UNCHANGED <<queue, engines, launched, loading>>

\* The engine ends, by itself or by the SIGTERM of the timeout, or never started. The
\* slot is free at once; the queue is pumped when the job is closed.
EngineEnds(j) ==
  /\ Up
  /\ InStage(j, {"running"})
  /\ jobs' = Put(j, "running", "finishing")
  /\ engines' = engines \ {j}
  /\ UNCHANGED <<queue, disk, launched, loading>>

\* The result and its manifest are read: the run has completed, or failed for want of a
\* result, or failed a check, which is stored in one attempt.
Finished(j) ==
  /\ Up
  /\ InStage(j, {"finishing"})
  /\ \/ jobs' = Put(j, "completed", "storing")
     \/ jobs' = Put(j, "failed", "storing")
     \/ jobs' = Put(j, "failed", "closing")
  /\ disk' = [disk EXCEPT ![j] = "unreadable"]
  /\ UNCHANGED <<queue, engines, launched, loading>>

Stored(j) ==
  /\ Up
  /\ InStage(j, {"storing"})
  /\ disk' = [disk EXCEPT ![j] = jobs[j].status]
  /\ Pumped(Put(j, jobs[j].status, "done"), queue)
  /\ UNCHANGED <<engines, launched, loading>>

\* A result that cannot be stored is a failure, which is stored if possible. (A write that
\* cannot even open job.json leaves it as it was.)
StoreFails(j) ==
  /\ Up
  /\ InStage(j, {"storing"})
  /\ jobs' = Put(j, "failed", "closing")
  /\ \E file \in {"queued", "unreadable"} : disk' = [disk EXCEPT ![j] = file]
  /\ UNCHANGED <<queue, engines, launched, loading>>

\* A failure is stored if possible. Then the queue is pumped, or the pump that waited for it
\* goes on.
Closed(j) ==
  /\ Up
  /\ InStage(j, {"closing"})
  /\ \E file \in {"failed", "queued", "unreadable"} : disk' = [disk EXCEPT ![j] = file]
  /\ Pumped(Put(j, "failed", "done"), queue)
  /\ UNCHANGED <<engines, launched, loading>>

\* The worker is killed, and its engines with it (one cgroup). The table keeps what the
\* last answers said until the job is read again.
Crash ==
  /\ jobs' = [j \in Jobs |->
       IF jobs[j] = NoJob THEN NoJob ELSE [jobs[j] EXCEPT !.stage = "none"]]
  /\ queue' = <<>>
  /\ engines' = {}
  /\ loading' = {j \in Jobs : jobs[j] # NoJob}
  /\ UNCHANGED <<disk, launched>>

\* Mutant: a job that job.json says is queued goes back to the queue.
BadRestore(j) ==
  /\ j \in loading
  /\ IF disk[j] = "queued"
     THEN Pumped(Put(j, "queued", "waiting"), Append(queue, j))
     ELSE /\ jobs' = IF disk[j] = "unreadable" THEN Put(j, "gone", "done")
                     ELSE Put(j, disk[j], "done")
          /\ UNCHANGED queue
  /\ loading' = loading \ {j}
  /\ UNCHANGED <<disk, engines, launched>>

\* restorePersistedJobs: an open job is closed, and stored so if possible; a job.json
\* that cannot be read is skipped. No request is served before it is through.
Restore(j) ==
  /\ j \in loading
  /\ \/ /\ disk[j] = "unreadable"
        /\ jobs' = Put(j, "gone", "done")
        /\ UNCHANGED disk
     \/ /\ disk[j] \in {"queued", "running"}
        /\ jobs' = Put(j, "failed", "done")
        /\ \E file \in {"failed", disk[j], "unreadable"} : disk' = [disk EXCEPT ![j] = file]
     \/ /\ disk[j] \in {"completed", "failed"}
        /\ jobs' = Put(j, disk[j], "done")
        /\ UNCHANGED disk
  /\ loading' = loading \ {j}
  /\ UNCHANGED <<queue, engines, launched>>

----
JobStep(j) ==
  \/ Reserved(j) \/ ReserveFails(j) \/ Reject(j) \/ Launched(j) \/ LaunchFails(j) \/ EngineEnds(j)
  \/ Finished(j) \/ Stored(j) \/ StoreFails(j) \/ Closed(j) \/ Restore(j)

Next ==
  \/ \E j \in Jobs, k \in Keys \cup {NoKey} : Submit(j, k)
  \/ \E j \in Jobs : JobStep(j)
  \/ Crash

Spec == Init /\ [][Next]_vars

\* The file system answers, and an engine ends: it exits, or heeds the timeout's SIGTERM.
FairSpec == Spec /\ \A j \in Jobs : WF_vars(JobStep(j))

----
\* Properties.

\* Every variable keeps to its type.
TypeOK ==
  /\ jobs \in [Jobs -> Job]
  /\ queue \in Seq(Jobs)
  /\ disk \in [Jobs -> Files]
  /\ engines \subseteq Jobs /\ launched \subseteq Jobs /\ loading \subseteq Jobs

\* RDK_SIM2REAL_MAX_CONCURRENT_JOBS bounds the engine processes, whatever submissions,
\* failed launches and finished jobs pump the queue at the same time.
EngineLimit == Cardinality(engines) <= Limit

\* No lost wake-up: while a job waits and there is room for it, some job is being closed and
\* will pump the queue, or a pump waits for the record of a job it has failed and will go
\* on (pumpQueue is called from three places and by no timer).
WorkConserving ==
  queue # <<>> =>
    \/ Cardinality(Active) = Limit
    \/ \E j \in Jobs : InStage(j, {"rejecting", "finishing", "storing", "closing"})

\* Two requests that carry one key never both start an engine, unless the record of the
\* first job was lost in a crash.
OneEnginePerKey ==
  \A i, j \in launched :
    jobs[i].key = jobs[j].key /\ jobs[i].key # NoKey /\ i # j =>
      "gone" \in {jobs[i].status, jobs[j].status}

\* An engine is started once for a job: a restart closes the job and never starts it again.
NoRelaunch ==
  [][\A j \in Jobs : j \in launched => ~(j \in engines' /\ j \notin engines)]_vars

\* Whoever polls a job sees its status change as JobLifecycle says, across restarts too.
FollowsJobLifecycle ==
  [][\A j \in Jobs :
       LET old == jobs[j].status  new == jobs'[j].status IN
       old \in JobStatuses /\ new # old => new \in Successors[old]]_vars

\* Every accepted job ends: no job stays in the queue and no failed step keeps a slot.
JobsEnd ==
  \A j \in Jobs :
    jobs[j].status = "queued" ~> jobs[j].status \in {"completed", "failed", "gone"}
====
