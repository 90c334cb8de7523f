---- MODULE RunLedgerProofs ----
\* Theorems about RunLedger for every number of accounts, keys, runs, jobs and
\* concurrent handlers.
EXTENDS RunLedger, FiniteSetTheorems, TLAPS

----
\* Lemmas about the operators of the store.

\* A dropped patch changes nothing; any other one keeps the key and the backend, sets
\* the status and attaches at most the id it carries.
LEMMA UpdatedType ==
  ASSUME NEW run \in Run, NEW status \in Statuses, NEW ext \in ExternalIds \cup {NoId},
         NEW relay \in BOOLEAN
  PROVE  /\ Updated(run, status, ext, relay) \in Run
         /\ Updated(run, status, ext, relay).key = run.key
         /\ Updated(run, status, ext, relay).backend = run.backend
         /\ relay = FALSE => Updated(run, status, ext, relay).relay = run.relay
         /\ run.status \in Terminal => Updated(run, status, ext, relay).status = run.status
         /\ Updated(run, status, ext, relay).status \in {run.status, status}
         /\ Updated(run, status, ext, relay).ext \in {run.ext, ext}
         /\ ext = NoId => Updated(run, status, ext, relay).ext = run.ext
<1> DEFINE new == Updated(run, status, ext, relay)
           id == IF ext = NoId THEN run.ext ELSE ext
           rel == IF relay THEN TRUE ELSE run.relay
           fin == IF status \in {"completed", "failed"} THEN TRUE ELSE run.finished
<1>1. CASE Dropped(run, status)
  <2>1. new = run BY <1>1 DEF Updated
  <2> QED BY <1>1, <2>1 DEF Dropped
<1>2. CASE ~Dropped(run, status)
  <2>1. new = [key |-> run.key, backend |-> run.backend, status |-> status, ext |-> id,
               relay |-> rel, finished |-> fin, aged |-> run.aged]
    BY <1>2 DEF Updated, Run
  <2>2. /\ id \in ExternalIds \cup {NoId}
        /\ id \in {run.ext, ext}
        /\ ext = NoId => id = run.ext
    BY DEF Run
  <2>3. rel \in BOOLEAN /\ (relay = FALSE => rel = run.relay) BY DEF Run
  <2>4. fin \in BOOLEAN BY DEF Run
  <2>5. run.status \in Terminal => status = run.status BY <1>2 DEF Dropped
  <2>6. /\ new.key = run.key /\ new.backend = run.backend /\ new.status = status
        /\ new.ext = id /\ new.relay = rel
    BY <2>1
  <2> HIDE DEF id, rel, fin
  <2>7. new \in Run BY <2>1, <2>2, <2>3, <2>4 DEF Run
  <2> HIDE DEF new
  <2>8. (relay = FALSE => new.relay = run.relay) BY <2>3, <2>6, Zenon
  <2>9. /\ new.key = run.key /\ new.backend = run.backend
        /\ run.status \in Terminal => new.status = run.status
        /\ new.status \in {run.status, status}
        /\ new.ext \in {run.ext, ext}
        /\ ext = NoId => new.ext = run.ext
    BY <2>2, <2>5, <2>6
  <2> QED BY <2>7, <2>8, <2>9, Zenon DEF new
<1> QED BY <1>1, <1>2, Zenon

\* The sweep changes only active reservations, and only into failed ones.
LEMMA SweepType ==
  ASSUME NEW table \in [RunIds -> Run]
  PROVE  /\ Sweep(table) \in [RunIds -> Run]
         /\ \A r \in RunIds :
              /\ Sweep(table)[r].key = table[r].key
              /\ Sweep(table)[r].backend = table[r].backend
              /\ Sweep(table)[r].ext = table[r].ext
              /\ Sweep(table)[r].relay = table[r].relay
              /\ \/ Sweep(table)[r] = table[r]
                 \/ /\ table[r].status \in {"queued", "running"}
                    /\ Sweep(table)[r].status = "failed"
<1>1. ASSUME NEW run \in Run, IsStale(run)
      PROVE  /\ Expire(run) \in Run /\ Expire(run).key = run.key
             /\ Expire(run).backend = run.backend /\ Expire(run).ext = run.ext
             /\ Expire(run).relay = run.relay
             /\ run.status \in {"queued", "running"} /\ Expire(run).status = "failed"
  BY <1>1 DEF Expire, IsStale, IsActive, Run, Statuses
<1>2. ASSUME NEW r \in RunIds
      PROVE  /\ Sweep(table)[r] \in Run
             /\ IF IsStale(table[r]) THEN Sweep(table)[r] = Expire(table[r])
                                     ELSE Sweep(table)[r] = table[r]
  BY <1>1 DEF Sweep
<1>3. Sweep(table) \in [RunIds -> Run] BY <1>2 DEF Sweep
<1>4. ASSUME NEW r \in RunIds
      PROVE  /\ Sweep(table)[r].key = table[r].key
             /\ Sweep(table)[r].backend = table[r].backend
             /\ Sweep(table)[r].ext = table[r].ext
             /\ Sweep(table)[r].relay = table[r].relay
             /\ \/ Sweep(table)[r] = table[r]
                \/ /\ table[r].status \in {"queued", "running"}
                   /\ Sweep(table)[r].status = "failed"
  <2>1. CASE IsStale(table[r])
    <3>1. Sweep(table)[r] = Expire(table[r]) BY <1>2, <2>1
    <3> QED BY <1>1, <2>1, <3>1, Zenon
  <2>2. CASE ~IsStale(table[r]) BY <1>2, <2>2, Zenon
  <2> QED BY <2>1, <2>2, Zenon
<1> QED BY <1>3, <1>4

----
\* Frames: what a step that keeps the keys and the job tables' keys cannot disturb.

WellFormed ==
  TypeOK /\ RunsOK /\ JobsOK /\ HandlersOK /\ OneJobPerKey

RunKeysKept ==
  \A r \in RunIds :
    /\ runs'[r].key = runs[r].key
    /\ IF runs[r].status = "none" THEN runs'[r] = runs[r] ELSE runs'[r].status # "none"

RelayKept(r) == runs'[r].relay = runs[r].relay

JobKeysKept == \A j \in Jobs : jobs'[j].key = jobs[j].key

LEMMA LedgerFrame ==
  ASSUME WellFormed, RunKeysKept, JobKeysKept
  PROVE  RunsOK' /\ JobsOK' /\ OneJobPerKey'
<1> USE DEF WellFormed, RunKeysKept, JobKeysKept
<1>1. RunsOK' BY DEF RunsOK
<1>2. JobsOK' BY DEF JobsOK, HasKey
<1>3. OneJobPerKey' BY DEF OneJobPerKey
<1> QED BY <1>1, <1>2, <1>3

\* A handler that takes no step stays well formed.
LEMMA HandlerFrame ==
  ASSUME WellFormed, RunKeysKept, JobKeysKept,
         NEW p \in Requests, requests'[p] = requests[p],
         requests[p].op = "post" => RelayKept(requests[p].run),
         \A q \in Requests : requests'[q].op = "post" =>
           requests[q].op = "post" /\ requests'[q].run = requests[q].run
  PROVE  HandlerOK(p)'
<1> SUFFICES ASSUME requests[p].op # "idle" PROVE HandlerOK(p)'
  BY DEF HandlerOK
<1>1. HandlerOK(p) /\ requests[p].run \in RunIds
  BY DEF WellFormed, HandlersOK, HandlerOK
<1>2. runs'[requests[p].run].status # "none"
  BY <1>1 DEF RunKeysKept, HandlerOK
<1>3. CASE requests[p].op = "post"
  <2>1. PostOK(p) BY <1>1, <1>3 DEF HandlerOK
  <2>2. PostOK(p)'
    BY <1>1, <1>3, <2>1 DEF PostOK, RunKeysKept, RelayKept, JobKeysKept
  <2> QED BY <1>1, <1>2, <1>3, <2>2 DEF HandlerOK
<1>4. CASE requests[p].op # "post"
  <2>1. LookupOK(p) BY <1>1, <1>4 DEF HandlerOK
  <2>2. LookupOK(p)'
    BY <1>1, <1>4, <2>1 DEF LookupOK, RunKeysKept, JobKeysKept
  <2> QED BY <1>1, <1>2, <1>4, <2>2 DEF HandlerOK
<1> QED BY <1>3, <1>4

\* A record that replaces another one under the same key.
LEMMA PatchFrame ==
  ASSUME WellFormed, NEW r \in RunIds, NEW new \in Run, runs[r].status # "none",
         new.key = runs[r].key, new.status # "none", runs' = [runs EXCEPT ![r] = new]
  PROVE  /\ runs' \in [RunIds -> Run]
         /\ RunKeysKept
         /\ \A s \in RunIds \ {r} : runs'[s] = runs[s]
         /\ runs'[r] = new
BY DEF WellFormed, TypeOK, RunKeysKept

\* The handler that just ended leaves the others alone.
LEMMA FinishFrame ==
  ASSUME WellFormed, RunKeysKept, JobKeysKept, NEW q \in Requests, Finish(q),
         \A p \in Requests \ {q} : requests[p].op = "post" => RelayKept(requests[p].run)
  PROVE  requests' \in [Requests -> Request] /\ HandlersOK'
<1>1. requests' \in [Requests -> Request]
  BY DEF WellFormed, TypeOK, Finish, Idle, Request, NoReply, Reply
<1>2. requests'[q] = Idle /\ \A p \in Requests \ {q} : requests'[p] = requests[p]
  BY DEF WellFormed, TypeOK, Finish
<1>3. \A p \in Requests : requests'[p].op = "post" =>
        requests[p].op = "post" /\ requests'[p].run = requests[p].run
  BY <1>2 DEF Idle
<1>4. ASSUME NEW p \in Requests PROVE HandlerOK(p)'
  <2>1. CASE p = q BY <1>2, <2>1 DEF HandlerOK, Idle
  <2>2. CASE p # q BY <1>2, <1>3, <2>2, HandlerFrame
  <2> QED BY <2>1, <2>2
<1> QED BY <1>1, <1>4 DEF HandlersOK

\* A step of one handler that leaves the ledger and the job tables alone.
LEMMA HandlerStepFrame ==
  ASSUME WellFormed, runs' = runs, jobs' = jobs, UNCHANGED evidence,
         NEW q \in Requests, requests' \in [Requests -> Request],
         \A p \in Requests \ {q} : requests'[p] = requests[p],
         requests'[q].op = "post" =>
           requests[q].op = "post" /\ requests'[q].run = requests[q].run,
         HandlerOK(q)'
  PROVE  WellFormed'
<1>1. RunKeysKept /\ JobKeysKept /\ \A r \in RunIds : RelayKept(r)
  BY DEF RunKeysKept, JobKeysKept, RelayKept, WellFormed, RunsOK
<1>2. ASSUME NEW p \in Requests, p # q PROVE HandlerOK(p)'
  <2>1. requests[p].op = "post" => requests[p].run \in RunIds
    BY DEF WellFormed, HandlersOK, HandlerOK
  <2> QED BY <1>1, <1>2, <2>1, HandlerFrame
<1>3. HandlersOK' BY <1>2 DEF HandlersOK
<1>4. TypeOK' BY DEF WellFormed, TypeOK
<1> QED BY <1>1, <1>3, <1>4, LedgerFrame DEF WellFormed

\* A step of the environment that leaves the handlers alone and keeps the keys.
LEMMA EnvironmentFrame ==
  ASSUME WellFormed, TypeOK', requests' = requests, RunKeysKept, JobKeysKept,
         \A r \in RunIds : RelayKept(r)
  PROVE  WellFormed'
<1>1. ASSUME NEW p \in Requests PROVE HandlerOK(p)'
  <2>1. requests[p].op = "post" => requests[p].run \in RunIds
    BY DEF WellFormed, HandlersOK, HandlerOK
  <2> QED BY <2>1, HandlerFrame
<1>2. HandlersOK' BY <1>1 DEF HandlersOK
<1> QED BY <1>2, LedgerFrame DEF WellFormed

----
\* POST /runs keeps the ledger well formed.

\* A reservation sweeps the table and fills an unused record.
LEMMA ReserveEffect ==
  ASSUME WellFormed, NEW q \in Requests, NEW r \in RunIds, NEW k \in Keys, NEW b \in Backends,
         Reserve(q, r, k, b)
  PROVE  /\ runs[r] = NoRun
         /\ runs'[r] = NewRun(k, b)
         /\ \A s \in RunIds \ {r} : runs'[s] = Sweep(runs)[s]
<1>1. runs \in [RunIds -> Run] BY DEF WellFormed, TypeOK
<1>2. /\ Sweep(runs) \in [RunIds -> Run] /\ Sweep(runs)[r] = NoRun
      /\ runs' = [Sweep(runs) EXCEPT ![r] = NewRun(k, b)]
  BY <1>1, SweepType DEF Reserve
<1>3. runs[r].status = "none" BY <1>1, <1>2, SweepType DEF NoRun
<1> QED BY <1>2, <1>3 DEF WellFormed, RunsOK

LEMMA ReserveStep ==
  ASSUME WellFormed, NEW q \in Requests, NEW r \in RunIds, NEW k \in Keys, NEW b \in Backends,
         Reserve(q, r, k, b)
  PROVE  WellFormed'
<1> DEFINE swept == Sweep(runs)
           new == NewRun(k, b)
<1>1. runs \in [RunIds -> Run] BY DEF WellFormed, TypeOK
<1>2. /\ swept \in [RunIds -> Run] /\ swept[r] = NoRun /\ ~HasKey(swept, k)
      /\ runs' = [swept EXCEPT ![r] = new]
  BY <1>1, SweepType DEF Reserve
<1>3. new \in Run /\ new.key = k /\ new.status = "queued" /\ new.ext = NoId /\ new.relay = FALSE
  BY DEF NewRun, NoRun, Run, Statuses
<1> HIDE DEF new
<1>4. \A s \in RunIds :
        /\ swept[s].key = runs[s].key /\ swept[s].ext = runs[s].ext
        /\ swept[s].relay = runs[s].relay
        /\ \/ swept[s] = runs[s]
           \/ runs[s].status \in {"queued", "running"} /\ swept[s].status = "failed"
  BY <1>1, SweepType
<1> HIDE DEF swept
<1>5. runs[r] = NoRun BY <1>1, <1>2, <1>4 DEF NoRun, WellFormed, RunsOK
<1>6. runs' \in [RunIds -> Run] /\ runs'[r] = new /\ \A s \in RunIds \ {r} : runs'[s] = swept[s]
  BY <1>2, <1>3
<1>7. requests[q] = Idle /\ jobs' = jobs /\ evidence' = evidence
      /\ requests' = [requests EXCEPT ![q] =
                        [op |-> "post", run |-> r, ext |-> NoId, reply |-> NoReply]]
  BY DEF Reserve, Start
<1>8. TypeOK'
  BY <1>6, <1>7 DEF WellFormed, TypeOK, Request, Reply, NoReply
<1>9. RunsOK'
  <2>1. \A s \in RunIds \ {r} : runs'[s].key = runs[s].key /\ runs[s].key # k
    BY <1>2, <1>4, <1>6 DEF HasKey
  <2>2. \A s \in RunIds \ {r} : IF runs'[s].status = "none" THEN runs'[s] = NoRun
                                                           ELSE runs'[s].key \in Keys
    BY <1>4, <1>6 DEF WellFormed, RunsOK
  <2> QED BY <1>3, <1>6, <2>1, <2>2 DEF WellFormed, RunsOK
<1>10. JobsOK'
  BY <1>4, <1>5, <1>6, <1>7 DEF WellFormed, JobsOK, HasKey, NoRun
<1>11. \A j \in Jobs : jobs[j].key # k
  BY <1>2, <1>4, NullAssumption DEF WellFormed, JobsOK, HasKey
<1>12. ASSUME NEW p \in Requests PROVE HandlerOK(p)'
  <2>1. CASE p = q
    <3>1. requests'[q] = [op |-> "post", run |-> r, ext |-> NoId, reply |-> NoReply]
      BY <1>7 DEF WellFormed, TypeOK
    <3>2. \A u \in Requests : requests'[u].op = "post" /\ requests'[u].run = r => u = q
      BY <1>5, <1>7 DEF WellFormed, TypeOK, HandlersOK, HandlerOK, NoRun
    <3>3. PostOK(q)'
      <4>1. requests'[q].run = r /\ requests'[q].reply = NoReply /\ NoReply.ext = NoId
        BY <3>1 DEF NoReply
      <4>2. runs'[r].key = k /\ runs'[r].relay = FALSE BY <1>3, <1>6, Zenon
      <4>3. \A j \in Jobs : jobs'[j].key # k BY <1>7, <1>11
      <4> QED BY <3>2, <4>1, <4>2, <4>3 DEF PostOK
    <3> QED BY <1>3, <1>6, <2>1, <3>1, <3>3 DEF HandlerOK
  <2>2. CASE p # q /\ requests[p].op # "idle"
    <3>1. requests'[p] = requests[p] BY <1>7, <2>2 DEF WellFormed, TypeOK
    <3>2. HandlerOK(p) BY DEF WellFormed, HandlersOK
    <3>3. requests[p].run \in RunIds \ {r} /\ runs[requests[p].run].status # "none"
      BY <1>5, <2>2, <3>2 DEF HandlerOK, NoRun
    <3>4. /\ runs'[requests[p].run].key = runs[requests[p].run].key
          /\ runs'[requests[p].run].relay = runs[requests[p].run].relay
          /\ runs'[requests[p].run].status # "none"
      BY <1>4, <1>6, <3>3
    <3>5. CASE requests[p].op = "post"
      <4>1. PostOK(p) BY <2>2, <3>2, <3>5 DEF HandlerOK
      <4>2. \A u \in Requests :
              requests'[u].op = "post" /\ requests'[u].run = requests'[p].run => u = p
        BY <1>7, <3>1, <3>3, <4>1 DEF PostOK, WellFormed, TypeOK
      <4>3. PostOK(p)' BY <1>7, <3>1, <3>4, <4>1, <4>2 DEF PostOK
      <4> QED BY <3>1, <3>3, <3>4, <3>5, <4>3 DEF HandlerOK
    <3>6. CASE requests[p].op # "post"
      <4>1. LookupOK(p) BY <2>2, <3>2, <3>6 DEF HandlerOK
      <4>2. LookupOK(p)' BY <1>7, <3>1, <3>4, <4>1 DEF LookupOK
      <4> QED BY <3>1, <3>3, <3>4, <3>6, <4>2 DEF HandlerOK
    <3> QED BY <3>5, <3>6
  <2>3. CASE p # q /\ requests[p].op = "idle"
    BY <1>7, <2>3 DEF HandlerOK, WellFormed, TypeOK
  <2> QED BY <2>1, <2>2, <2>3
<1>13. HandlersOK' BY <1>12 DEF HandlersOK
<1>14. OneJobPerKey' BY <1>7 DEF WellFormed, OneJobPerKey
<1> QED BY <1>8, <1>9, <1>10, <1>13, <1>14 DEF WellFormed

LEMMA ReserveRefusedStep ==
  ASSUME WellFormed, NEW q \in Requests, NEW k \in Keys, NEW b \in Backends,
         ReserveRefused(q, k, b)
  PROVE  WellFormed'
<1>1. runs \in [RunIds -> Run] BY DEF WellFormed, TypeOK
<1>2. runs' = Sweep(runs) /\ requests' = requests /\ jobs' = jobs /\ evidence' = evidence
  BY DEF ReserveRefused
<1>3. TypeOK' BY <1>1, <1>2, SweepType DEF WellFormed, TypeOK
<1>4. RunKeysKept /\ \A r \in RunIds : RelayKept(r)
  BY <1>1, <1>2, SweepType DEF RunKeysKept, RelayKept
<1> QED BY <1>2, <1>3, <1>4, EnvironmentFrame DEF JobKeysKept

LEMMA DispatchStep ==
  ASSUME WellFormed, NEW q \in Requests, DispatchImmediate(q) \/ RunnerRefuses(q)
  PROVE  WellFormed'
<1>1. PICK o : /\ o \in Reply /\ o.status \in Statuses /\ o.ext = NoId
               /\ requests' = [requests EXCEPT ![q].reply = o]
  <2>1. CASE DispatchImmediate(q)
    <3>1. PICK o \in ImmediateOutcomes(runs[requests[q].run].backend) :
            requests' = [requests EXCEPT ![q].reply = o]
      BY <2>1 DEF DispatchImmediate
    <3>2. o \in Reply /\ o.status \in Statuses /\ o.ext = NoId
      BY <3>1 DEF ImmediateOutcomes, NoReply, Reply, Statuses
    <3> QED BY <3>1, <3>2
  <2>2. CASE RunnerRefuses(q)
    BY <2>2 DEF RunnerRefuses, Answer, Reply, Statuses
  <2> QED BY <2>1, <2>2
<1>2. /\ runs' = runs /\ jobs' = jobs /\ evidence' = evidence /\ requests[q].op = "post"
  BY DEF DispatchImmediate, RunnerRefuses, Waiting
<1>3. /\ requests' \in [Requests -> Request] /\ requests'[q].reply = o
      /\ requests'[q].op = "post" /\ requests'[q].run = requests[q].run
      /\ \A p \in Requests \ {q} : requests'[p] = requests[p]
  BY <1>1, <1>2 DEF WellFormed, TypeOK, Request
<1>4. HandlerOK(q)'
  <2>1. HandlerOK(q) BY DEF WellFormed, HandlersOK
  <2>2. PostOK(q) BY <1>2, <2>1 DEF HandlerOK
  <2>3. o # NoReply BY <1>1 DEF NoReply, Statuses
  <2>4. \A p \in Requests : requests'[p].op = "post" /\ requests'[p].run = requests'[q].run => p = q
    BY <1>2, <1>3, <2>2 DEF PostOK
  <2>5. PostOK(q)' BY <1>1, <1>2, <1>3, <2>2, <2>3, <2>4 DEF PostOK
  <2> QED BY <1>2, <1>3, <2>1, <2>5 DEF HandlerOK
<1> QED BY <1>2, <1>3, <1>4, HandlerStepFrame


\* A job is created under the key of a run whose POST has not been answered yet.
LEMMA RunnerAcceptsStep ==
  ASSUME WellFormed, NEW q \in Requests, NEW j \in Jobs, RunnerAccepts(q, j)
  PROVE  WellFormed'
<1> DEFINE r == requests[q].run
           k == runs[r].key
<1>1. requests[q].op = "post" /\ requests[q].reply = NoReply /\ jobs[j] = NoJob
  BY DEF RunnerAccepts, Waiting
<1>2. HandlerOK(q) /\ PostOK(q) /\ r \in RunIds /\ runs[r].status # "none" /\ k \in Keys
  BY <1>1 DEF WellFormed, HandlersOK, HandlerOK, RunsOK
<1>3. PICK s \in JobStatuses :
        /\ jobs' = [jobs EXCEPT ![j] = [key |-> k, status |-> s]]
        /\ Answer(q, s, j, FALSE) \/ Answer(q, "queued", NoId, FALSE)
  BY DEF RunnerAccepts
<1>4. /\ jobs' \in [Jobs -> Job] /\ jobs'[j].key = k
      /\ \A i \in Jobs \ {j} : jobs'[i] = jobs[i]
  BY <1>2, <1>3 DEF WellFormed, TypeOK, Job
<1>5. runs' = runs /\ evidence' = evidence BY DEF RunnerAccepts
<1>6. PICK o \in Reply : /\ o.status \in Statuses /\ o.ext \in {NoId, j}
                         /\ requests' = [requests EXCEPT ![q].reply = o]
  BY <1>3 DEF Answer, Reply, Statuses, JobStatuses, ExternalIds
<1>7. /\ requests' \in [Requests -> Request] /\ requests'[q].reply = o
      /\ requests'[q].op = "post" /\ requests'[q].run = r
      /\ \A p \in Requests \ {q} : requests'[p] = requests[p]
  BY <1>1, <1>6 DEF WellFormed, TypeOK, Request
<1>8. TypeOK' BY <1>4, <1>5, <1>7 DEF WellFormed, TypeOK
<1>9. RunsOK' BY <1>5 DEF WellFormed, RunsOK
<1>10. JobsOK' BY <1>2, <1>4, <1>5 DEF WellFormed, JobsOK, HasKey
<1>11. \A i \in Jobs : jobs[i].key # k BY <1>1, <1>2 DEF PostOK
<1>12. OneJobPerKey' BY <1>4, <1>11 DEF WellFormed, OneJobPerKey
<1>14. HandlerOK(q)'
  <2>1. \A p \in Requests : requests'[p].op = "post" /\ requests'[p].run = r => p = q
    BY <1>2, <1>7 DEF PostOK
  <2>2. o # NoReply BY <1>6 DEF NoReply, Statuses
  <2>3. PostOK(q)' BY <1>2, <1>4, <1>5, <1>6, <1>7, <2>1, <2>2 DEF PostOK
  <2> QED BY <1>2, <1>5, <1>7, <2>3 DEF HandlerOK
<1>15. ASSUME NEW p \in Requests, p # q, requests[p].op # "idle" PROVE HandlerOK(p)'
  <2>1. requests'[p] = requests[p] BY <1>7, <1>15
  <2>2. HandlerOK(p) /\ requests[p].run \in RunIds BY <1>15 DEF WellFormed, HandlersOK, HandlerOK
  <2>3. CASE requests[p].op = "post"
    <3>1. PostOK(p) /\ requests[p].run # r BY <1>1, <1>2, <1>15, <2>2, <2>3 DEF HandlerOK, PostOK
    <3>2. runs[requests[p].run].key \in Keys \ {k}
      BY <1>2, <1>15, <2>2, <3>1, NullAssumption DEF WellFormed, RunsOK, HandlerOK
    <3>3. \A u \in Requests :
            requests'[u].op = "post" /\ requests'[u].run = requests'[p].run => u = p
      BY <1>1, <1>7, <2>1, <2>3, <3>1 DEF PostOK
    <3>4. PostOK(p)'
      BY <1>1, <1>4, <1>5, <2>1, <3>1, <3>2, <3>3, NullAssumption DEF PostOK, NoJob
    <3> QED BY <1>5, <1>15, <2>1, <2>2, <2>3, <3>4 DEF HandlerOK
  <2>4. CASE requests[p].op # "post"
    <3>1. LookupOK(p) /\ runs[requests[p].run].key \in Keys
      BY <1>15, <2>2, <2>4 DEF HandlerOK, WellFormed, RunsOK
    <3>2. LookupOK(p)'
      BY <1>1, <1>4, <1>5, <2>1, <3>1, NullAssumption DEF LookupOK, NoJob
    <3> QED BY <1>5, <1>15, <2>1, <2>2, <2>4, <3>2 DEF HandlerOK
  <2> QED BY <2>3, <2>4
<1>16. HandlersOK'
  BY <1>7, <1>14, <1>15 DEF HandlersOK, HandlerOK
<1> QED BY <1>8, <1>9, <1>10, <1>12, <1>16 DEF WellFormed

----
\* The steps that write a patch and end their handler.

\* A patch that the handler q writes over the run it works for.
LEMMA PatchStep ==
  ASSUME WellFormed, NEW q \in Requests, requests[q].op # "idle", Finish(q),
         NEW status \in Statuses, NEW ext \in ExternalIds \cup {NoId}, NEW relay \in BOOLEAN,
         UpdateRun(requests[q].run, status, ext, relay), jobs' = jobs,
         evidence' \in SUBSET RunIds,
         relay => requests[q].op = "post"
  PROVE  WellFormed'
<1> DEFINE r == requests[q].run
           new == Updated(runs[r], status, ext, relay)
<1>1. r \in RunIds /\ runs[r] \in Run /\ runs[r].status # "none"
  BY DEF WellFormed, TypeOK, HandlersOK, HandlerOK
<1>2. /\ new \in Run /\ new.key = runs[r].key
      /\ new.status \in {runs[r].status, status}
      /\ new.ext \in {runs[r].ext, ext}
      /\ relay = FALSE => new.relay = runs[r].relay
  BY <1>1, UpdatedType
<1>3. runs' = [runs EXCEPT ![r] = new] BY DEF UpdateRun
<1> HIDE DEF new
<1>4. new.status # "none" BY <1>1, <1>2 DEF Statuses
<1>5. /\ runs' \in [RunIds -> Run] /\ RunKeysKept /\ runs'[r] = new
      /\ \A s \in RunIds \ {r} : runs'[s] = runs[s]
  BY <1>1, <1>2, <1>3, <1>4, PatchFrame
<1>6. ASSUME NEW p \in Requests, p # q, requests[p].op = "post" PROVE RelayKept(requests[p].run)
  <2>1. HandlerOK(p) /\ PostOK(p) /\ requests[p].run \in RunIds
    BY <1>6 DEF WellFormed, HandlersOK, HandlerOK
  <2>2. CASE requests[p].run # r BY <1>5, <2>1, <2>2 DEF RelayKept
  <2>3. CASE requests[p].run = r
    <3>1. requests[q].op # "post" BY <1>6, <2>1, <2>3 DEF PostOK
    <3> QED BY <1>2, <1>5, <2>3, <3>1 DEF RelayKept
  <2> QED BY <2>2, <2>3
<1>7. JobKeysKept BY DEF JobKeysKept
<1>8. requests' \in [Requests -> Request] /\ HandlersOK' BY <1>5, <1>6, <1>7, FinishFrame
<1>9. RunsOK' /\ JobsOK' /\ OneJobPerKey' BY <1>5, <1>7, LedgerFrame
<1>10. TypeOK' BY <1>5, <1>8 DEF WellFormed, TypeOK
<1> QED BY <1>8, <1>9, <1>10 DEF WellFormed

\* A handler that ends and writes nothing.
LEMMA EndStep ==
  ASSUME WellFormed, NEW q \in Requests, Finish(q), UNCHANGED <<runs, jobs, evidence>>
  PROVE  WellFormed'
<1>1. RunKeysKept /\ JobKeysKept /\ \A r \in RunIds : RelayKept(r)
  BY DEF RunKeysKept, JobKeysKept, RelayKept, WellFormed, RunsOK
<1>2. \A p \in Requests \ {q} : requests[p].op = "post" => RelayKept(requests[p].run)
  BY DEF RelayKept
<1>3. requests' \in [Requests -> Request] /\ HandlersOK' BY <1>1, <1>2, FinishFrame
<1> QED BY <1>1, <1>3, LedgerFrame DEF WellFormed, TypeOK

LEMMA PostFinishStep ==
  ASSUME WellFormed, NEW q \in Requests, PostFinish(q)
  PROVE  WellFormed'
<1>1. /\ requests[q].op = "post" /\ requests[q].reply # NoReply /\ HandlerOK(q)
      /\ Finish(q) /\ jobs' = jobs /\ evidence' = evidence
      /\ UpdateRun(requests[q].run, requests[q].reply.status, requests[q].reply.ext,
                   requests[q].reply.relay)
  BY DEF PostFinish, Answered, WellFormed, HandlersOK
<1>2. PostOK(q) /\ requests[q].reply \in Reply
  BY <1>1 DEF HandlerOK, WellFormed, TypeOK, Request
<1>3. requests[q].reply.status \in Statuses
  BY <1>1, <1>2 DEF PostOK
<1> QED BY <1>1, <1>2, <1>3, PatchStep DEF PostOK, Reply, WellFormed, TypeOK

\* The reply of a lookup is either a job status or "gone".
LEMMA LookupReply ==
  ASSUME WellFormed, NEW q \in Requests, requests[q].op \in {"poll", "sync", "reconcile"},
         requests[q].reply # NoReply
  PROVE  /\ requests[q].run \in RunIds
         /\ requests[q].reply.status \in JobStatuses \cup {"gone"}
         /\ requests[q].ext \in ExternalIds
<1>1. HandlerOK(q) BY DEF WellFormed, HandlersOK
<1>2. LookupOK(q) BY <1>1 DEF HandlerOK
<1> QED BY <1>1, <1>2 DEF HandlerOK, LookupOK, JobStatuses

LEMMA LookupFinishStep ==
  ASSUME WellFormed, NEW q \in Requests,
         PollFinish(q) \/ SyncFinish(q) \/ ReconcileNotFound(q)
  PROVE  WellFormed'
<1> DEFINE r == requests[q].run
<1>1. /\ requests[q].op \in {"poll", "sync", "reconcile"} /\ requests[q].reply # NoReply
      /\ Finish(q) /\ jobs' = jobs
  BY DEF PollFinish, SyncFinish, ReconcileNotFound, Answered
<1>2. r \in RunIds /\ requests[q].reply.status \in JobStatuses \cup {"gone"}
  BY <1>1, LookupReply
<1>3. evidence' \in SUBSET RunIds
  BY <1>2 DEF PollFinish, SyncFinish, ReconcileNotFound, WellFormed, TypeOK
<1>4. \/ UNCHANGED <<runs, jobs, evidence>>
      \/ \E status \in Statuses : UpdateRun(r, status, NoId, FALSE)
  <2>1. CASE PollFinish(q) BY <1>2, <2>1 DEF PollFinish, JobStatuses, Statuses
  <2>2. CASE SyncFinish(q) BY <1>2, <2>2 DEF SyncFinish, JobStatuses, Statuses
  <2>3. CASE ReconcileNotFound(q) BY <2>3 DEF ReconcileNotFound, Statuses
  <2> QED BY <2>1, <2>2, <2>3
<1>5. CASE UNCHANGED <<runs, jobs, evidence>> BY <1>1, <1>5, EndStep
<1>6. CASE \E status \in Statuses : UpdateRun(r, status, NoId, FALSE)
  <2>1. PICK status \in Statuses : UpdateRun(r, status, NoId, FALSE) BY <1>6
  <2> QED BY <1>1, <1>3, <2>1, PatchStep
<1> QED BY <1>4, <1>5, <1>6

LEMMA ReconcileAttachStep ==
  ASSUME WellFormed, NEW q \in Requests, ReconcileAttach(q)
  PROVE  WellFormed'
<1> DEFINE r == requests[q].run
<1>1. /\ requests[q].op = "reconcile" /\ requests[q].reply # NoReply
      /\ requests[q].reply.status # "gone" /\ Finish(q) /\ jobs' = jobs /\ evidence' = evidence
  BY DEF ReconcileAttach, Answered
<1>2. r \in RunIds /\ requests[q].reply.status \in Statuses /\ requests[q].ext \in ExternalIds
  BY <1>1, LookupReply DEF JobStatuses, Statuses
<1>3. UNCHANGED runs \/ UpdateRun(r, requests[q].reply.status, requests[q].ext, FALSE)
  BY DEF ReconcileAttach, UpdateRun
<1>4. CASE UNCHANGED runs BY <1>1, <1>4, EndStep
<1>5. CASE UpdateRun(r, requests[q].reply.status, requests[q].ext, FALSE)
  BY <1>1, <1>2, <1>5, PatchStep DEF WellFormed, TypeOK
<1> QED BY <1>3, <1>4, <1>5

LEMMA AbandonStep ==
  ASSUME WellFormed, NEW q \in Requests, Abandon(q)
  PROVE  WellFormed'
BY EndStep DEF Abandon

----
\* The steps that start a lookup or answer one.

LEMMA StartLookupStep ==
  ASSUME WellFormed, NEW q \in Requests, NEW op \in {"poll", "sync", "reconcile"},
         NEW r \in RunIds, NEW x \in ExternalIds, Start(q, op, r, x),
         runs[r].status # "none",
         UNCHANGED <<runs, jobs, evidence>>
  PROVE  WellFormed'
<1>1. /\ requests' \in [Requests -> Request]
      /\ requests'[q] = [op |-> op, run |-> r, ext |-> x, reply |-> NoReply]
      /\ \A p \in Requests \ {q} : requests'[p] = requests[p]
  BY DEF WellFormed, TypeOK, Start, Request, Reply, NoReply
<1>2. LookupOK(q)' BY <1>1 DEF LookupOK, NoReply
<1>3. HandlerOK(q)' BY <1>1, <1>2 DEF HandlerOK
<1> QED BY <1>1, <1>3, HandlerStepFrame

LEMMA PollSyncStartStep ==
  ASSUME WellFormed, NEW q \in Requests, NEW r \in RunIds, PollStart(q, r) \/ SyncStart(q, r)
  PROVE  WellFormed'
<1>1. runs[r].ext # NoId => runs[r].ext \in ExternalIds /\ runs[r].status # "none"
  BY DEF WellFormed, TypeOK, Run, RunsOK, NoRun
<1>2. CASE PollStart(q, r) BY <1>1, <1>2, StartLookupStep DEF PollStart
<1>3. CASE SyncStart(q, r) BY <1>1, <1>3, StartLookupStep DEF SyncStart
<1> QED BY <1>2, <1>3

LEMMA ReconcileStartStep ==
  ASSUME WellFormed, NEW q \in Requests, NEW r \in RunIds, NEW x \in ExternalIds,
         ReconcileStart(q, r, x)
  PROVE  WellFormed'
<1>1. runs[r].status # "none" BY DEF ReconcileStart, IsActive
<1> QED BY <1>1, StartLookupStep DEF ReconcileStart

LEMMA RunnerReportsStep ==
  ASSUME WellFormed, NEW q \in Requests, RunnerReports(q)
  PROVE  WellFormed'
<1>1. PICK s \in Lookup(requests[q].run, requests[q].ext) :
        /\ requests[q].op \in {"poll", "sync", "reconcile"}
        /\ Answer(q, s, NoId, FALSE) /\ UNCHANGED <<runs, jobs, evidence>>
  BY DEF RunnerReports, Waiting
<1>2. s \in JobStatuses \cup {"gone"} BY <1>1 DEF Lookup
<1>3. /\ requests' \in [Requests -> Request]
      /\ requests'[q].op = requests[q].op /\ requests'[q].run = requests[q].run
      /\ requests'[q].ext = requests[q].ext /\ requests'[q].reply.status = s
      /\ \A p \in Requests \ {q} : requests'[p] = requests[p]
  BY <1>1, <1>2 DEF WellFormed, TypeOK, Answer, Request, Reply, Statuses, JobStatuses
<1>4. HandlerOK(q)'
  <2>1. HandlerOK(q) /\ LookupOK(q) BY <1>1 DEF WellFormed, HandlersOK, HandlerOK
  <2>2. LookupOK(q)' BY <1>1, <1>2, <1>3, <2>1 DEF LookupOK
  <2> QED BY <1>1, <1>3, <2>1, <2>2 DEF HandlerOK
<1> QED BY <1>1, <1>3, <1>4, HandlerStepFrame

----
\* The steps of the environment and of the relay tabs.

LEMMA AgeStep ==
  ASSUME WellFormed, NEW r \in RunIds, Age(r)
  PROVE  WellFormed'
<1> DEFINE new == [runs[r] EXCEPT !.aged = TRUE]
<1>1. /\ runs' = [runs EXCEPT ![r] = new] /\ runs[r].status # "none"
      /\ UNCHANGED <<requests, jobs, evidence>>
  BY DEF Age, IsActive
<1>2. /\ new \in Run /\ new.key = runs[r].key /\ new.status = runs[r].status
      /\ new.ext = runs[r].ext /\ new.relay = runs[r].relay
  BY DEF WellFormed, TypeOK, Run
<1> HIDE DEF new
<1>3. /\ runs' \in [RunIds -> Run] /\ RunKeysKept /\ runs'[r] = new
      /\ \A s \in RunIds \ {r} : runs'[s] = runs[s]
  BY <1>1, <1>2, PatchFrame
<1>4. \A s \in RunIds : RelayKept(s) BY <1>2, <1>3 DEF RelayKept
<1>5. TypeOK' BY <1>1, <1>3 DEF WellFormed, TypeOK
<1> QED BY <1>1, <1>3, <1>4, <1>5, EnvironmentFrame DEF JobKeysKept

LEMMA RelayClaimStep ==
  ASSUME WellFormed, NEW r \in RunIds, NEW x \in ExternalIds, RelayClaim(r, x)
  PROVE  WellFormed'
<1> DEFINE new == [runs[r] EXCEPT !.ext = x, !.status = "running"]
<1>1. /\ runs' = [runs EXCEPT ![r] = new] /\ runs[r].status \in {"queued", "running"}
      /\ UNCHANGED <<requests, jobs, evidence>>
  BY DEF RelayClaim, WellFormed, TypeOK
<1>2. /\ new \in Run /\ new.key = runs[r].key /\ new.status = "running"
      /\ new.relay = runs[r].relay
  BY DEF WellFormed, TypeOK, Run, Statuses
<1> HIDE DEF new
<1>3. /\ runs' \in [RunIds -> Run] /\ RunKeysKept /\ runs'[r] = new
      /\ \A s \in RunIds \ {r} : runs'[s] = runs[s]
  BY <1>1, <1>2, PatchFrame
<1>4. JobKeysKept BY <1>1 DEF JobKeysKept
<1>5. \A p \in Requests : RelayKept(requests[p].run)
  BY <1>1, <1>2, <1>3 DEF RelayKept
<1>6. HandlersOK'
  BY <1>1, <1>3, <1>4, <1>5, HandlerFrame DEF HandlersOK
<1>7. TypeOK' BY <1>1, <1>3 DEF WellFormed, TypeOK
<1> QED BY <1>3, <1>4, <1>6, <1>7, LedgerFrame DEF WellFormed

LEMMA JobSteps ==
  ASSUME WellFormed, NEW j \in Jobs, JobStep(j)
  PROVE  WellFormed'
<1>1. UNCHANGED <<runs, requests, evidence>> BY DEF JobStep
<1>2. jobs' \in [Jobs -> Job] /\ JobKeysKept
  BY DEF JobStep, Successors, JobStatuses, WellFormed, TypeOK, Job, JobKeysKept
<1>3. RunKeysKept /\ \A r \in RunIds : RelayKept(r)
  BY <1>1 DEF RunKeysKept, RelayKept, WellFormed, RunsOK
<1> QED BY <1>1, <1>2, <1>3, EnvironmentFrame DEF WellFormed, TypeOK

\* The Agent starts at most one job under a key, and only for a relayed run, whose
\* POST has ended.
LEMMA AgentAcceptsStep ==
  ASSUME WellFormed, NEW r \in RunIds, NEW j \in Jobs, AgentAccepts(r, j)
  PROVE  WellFormed'
<1> DEFINE k == runs[r].key
<1>1. /\ UNCHANGED <<runs, requests, evidence>> /\ runs[r].relay /\ runs[r].status = "queued"
      /\ jobs[j] = NoJob /\ jobs' = [jobs EXCEPT ![j] = [key |-> k, status |-> "queued"]]
      /\ \A i \in Jobs : jobs[i].key # k
  BY DEF AgentAccepts
<1>2. k \in Keys BY <1>1 DEF WellFormed, RunsOK
<1>3. /\ jobs' \in [Jobs -> Job] /\ jobs'[j].key = k
      /\ \A i \in Jobs \ {j} : jobs'[i] = jobs[i]
  BY <1>1, <1>2 DEF WellFormed, TypeOK, Job, JobStatuses
<1>4. TypeOK' /\ RunsOK' BY <1>1, <1>3 DEF WellFormed, TypeOK, RunsOK
<1>5. JobsOK' BY <1>1, <1>3 DEF WellFormed, JobsOK, HasKey
<1>6. OneJobPerKey' BY <1>1, <1>3 DEF WellFormed, OneJobPerKey
<1>8. ASSUME NEW p \in Requests, requests[p].op # "idle" PROVE HandlerOK(p)'
  <2>1. requests' = requests /\ runs' = runs BY <1>1
  <2>2. HandlerOK(p) /\ requests[p].run \in RunIds /\ runs[requests[p].run].key \in Keys
    BY <1>8 DEF WellFormed, HandlersOK, HandlerOK, RunsOK
  <2>3. CASE requests[p].op = "post"
    <3>1. PostOK(p) BY <1>8, <2>2, <2>3 DEF HandlerOK
    <3>2. requests[p].run # r BY <1>1, <3>1, Zenon DEF PostOK
    <3>3. runs[requests[p].run].key # k
      BY <1>2, <2>2, <3>2, NullAssumption DEF WellFormed, RunsOK
    <3>4. PostOK(p)'
      BY <1>1, <1>3, <2>1, <2>2, <3>1, <3>3, NullAssumption DEF PostOK, NoJob
    <3> QED BY <1>8, <2>1, <2>2, <2>3, <3>4 DEF HandlerOK
  <2>4. CASE requests[p].op # "post"
    <3>1. LookupOK(p) BY <1>8, <2>2, <2>4 DEF HandlerOK
    <3>2. LookupOK(p)'
      BY <1>1, <1>3, <2>1, <2>2, <3>1, NullAssumption DEF LookupOK, NoJob
    <3> QED BY <1>8, <2>1, <2>2, <2>4, <3>2 DEF HandlerOK
  <2> QED BY <2>3, <2>4
<1>9. HandlersOK' BY <1>1, <1>8 DEF HandlersOK, HandlerOK
<1> QED BY <1>4, <1>5, <1>6, <1>9 DEF WellFormed

LEMMA RestartStep ==
  ASSUME WellFormed, Restart
  PROVE  WellFormed'
<1>1. UNCHANGED <<runs, jobs, evidence>> /\ requests' = [q \in Requests |-> Idle]
  BY DEF Restart
<1>2. RunKeysKept /\ JobKeysKept
  BY <1>1 DEF RunKeysKept, JobKeysKept, WellFormed, RunsOK
<1>3. requests' \in [Requests -> Request] BY <1>1 DEF Idle, Request, NoReply, Reply
<1>4. HandlersOK' BY <1>1 DEF HandlersOK, HandlerOK, Idle
<1> QED BY <1>1, <1>2, <1>3, <1>4, LedgerFrame DEF WellFormed, TypeOK


----
\* What every step but a reservation does to a run: it keeps the key and the backend, does
\* not revive it, and puts no other id over one that is there than the run's own job's.

Settled(r) ==
  /\ runs'[r].key = runs[r].key
  /\ runs'[r].backend = runs[r].backend
  /\ runs[r].status \in Terminal \cup {"none"} => runs'[r].status = runs[r].status
  /\ runs[r].status # "none" => runs'[r].status # "none"
  /\ runs[r].ext # NoId => runs'[r].ext = runs[r].ext \/ CarriesOwn(r)'

\* The sweep settles every run.
LEMMA SweepSettles ==
  ASSUME WellFormed, NEW r \in RunIds, runs'[r] = Sweep(runs)[r]
  PROVE  Settled(r)
<1>1. runs \in [RunIds -> Run] BY DEF WellFormed, TypeOK
<1> QED BY <1>1, SweepType DEF Settled, Terminal

\* A patch settles every run if the id it carries is the run's own job's, or the run has
\* none yet.
LEMMA PatchSettles ==
  ASSUME WellFormed, NEW q \in Requests, requests[q].op # "idle",
         NEW status \in Statuses, NEW ext \in ExternalIds \cup {NoId}, NEW relay \in BOOLEAN,
         UpdateRun(requests[q].run, status, ext, relay), jobs' = jobs,
         ext # NoId /\ runs[requests[q].run].ext # NoId =>
           ext \in Jobs /\ jobs[ext].key = runs[requests[q].run].key
  PROVE  \A r \in RunIds : Settled(r)
<1>0. PICK u : u = requests[q].run OBVIOUS
<1> DEFINE new == Updated(runs[u], status, ext, relay)
<1>1. u \in RunIds /\ runs[u] \in Run /\ runs[u].status # "none" /\ runs[u].key \in Keys
  BY <1>0 DEF WellFormed, TypeOK, HandlersOK, HandlerOK, RunsOK
<1>2. /\ new.key = runs[u].key /\ new.backend = runs[u].backend
      /\ runs[u].status \in Terminal => new.status = runs[u].status
      /\ new.status \in {runs[u].status, status}
      /\ new.ext \in {runs[u].ext, ext}
      /\ ext = NoId => new.ext = runs[u].ext
  BY <1>1, UpdatedType
<1>3. runs' = [runs EXCEPT ![u] = new] BY <1>0 DEF UpdateRun
<1> HIDE DEF new
<1>4. runs'[u] = new /\ \A s \in RunIds \ {u} : runs'[s] = runs[s]
  BY <1>1, <1>3 DEF WellFormed, TypeOK
<1>5. runs[u].ext # NoId => runs'[u].ext = runs[u].ext \/ CarriesOwn(u)'
  <2>1. CASE runs'[u].ext = runs[u].ext BY <2>1
  <2>2. CASE runs'[u].ext # runs[u].ext /\ runs[u].ext # NoId
    <3>1. runs'[u].ext = ext /\ ext # NoId BY <1>2, <1>4, <2>2
    <3>2. runs'[u].key = runs[u].key BY <1>2, <1>4
    <3>3. ext \in Jobs /\ jobs[ext].key = runs[u].key BY <1>0, <2>2, <3>1
    <3>4. jobs'[ext].key = runs'[u].key BY <3>2, <3>3
    <3> QED BY <3>1, <3>3, <3>4 DEF CarriesOwn
  <2> QED BY <2>1, <2>2
<1>6. Settled(u) BY <1>1, <1>2, <1>4, <1>5 DEF Settled, Statuses
<1>7. \A r \in RunIds \ {u} : Settled(r) BY <1>4 DEF Settled
<1> QED BY <1>6, <1>7

LEMMA UnchangedSettles ==
  ASSUME UNCHANGED runs
  PROVE  \A r \in RunIds : Settled(r)
BY DEF Settled

LEMMA FinishSettles ==
  ASSUME WellFormed, NEW q \in Requests,
         PostFinish(q) \/ PollFinish(q) \/ SyncFinish(q) \/ ReconcileAttach(q)
           \/ ReconcileNotFound(q)
  PROVE  \A r \in RunIds : Settled(r)
<1> DEFINE u == requests[q].run
<1>1. CASE PostFinish(q)
  <2>1. /\ requests[q].op = "post" /\ requests[q].reply # NoReply /\ jobs' = jobs
        /\ UpdateRun(u, requests[q].reply.status, requests[q].reply.ext, requests[q].reply.relay)
    BY <1>1 DEF PostFinish, Answered
  <2>2. PostOK(q) /\ requests[q].reply \in Reply
    BY <2>1 DEF WellFormed, TypeOK, HandlersOK, HandlerOK, Request
  <2>3. /\ requests[q].reply.status \in Statuses
        /\ requests[q].reply.ext \in ExternalIds \cup {NoId}
        /\ requests[q].reply.relay \in BOOLEAN
        /\ requests[q].reply.ext # NoId =>
             requests[q].reply.ext \in Jobs /\ jobs[requests[q].reply.ext].key = runs[u].key
    BY <2>1, <2>2 DEF PostOK, Reply
  <2> QED BY <2>1, <2>3, PatchSettles
<1>2. CASE PollFinish(q) \/ SyncFinish(q) \/ ReconcileNotFound(q)
  <2>1. /\ requests[q].op \in {"poll", "sync", "reconcile"} /\ requests[q].reply # NoReply
        /\ jobs' = jobs
    BY <1>2 DEF PollFinish, SyncFinish, ReconcileNotFound, Answered
  <2>2. UNCHANGED runs \/ \E status \in Statuses : UpdateRun(u, status, NoId, FALSE)
    BY <1>2, <2>1, LookupReply
       DEF PollFinish, SyncFinish, ReconcileNotFound, JobStatuses, Statuses
  <2>3. CASE UNCHANGED runs BY <2>3, UnchangedSettles
  <2>4. CASE \E status \in Statuses : UpdateRun(u, status, NoId, FALSE)
    BY <2>1, <2>4, PatchSettles
  <2> QED BY <2>2, <2>3, <2>4
<1>3. CASE ReconcileAttach(q)
  <2>1. /\ requests[q].op = "reconcile" /\ requests[q].reply # NoReply
        /\ requests[q].reply.status # "gone" /\ jobs' = jobs
        /\ \/ UNCHANGED runs
           \/ /\ UpdateRun(u, requests[q].reply.status, requests[q].ext, FALSE)
              /\ runs[u].ext = NoId
    BY <1>3 DEF ReconcileAttach, Answered, UpdateRun
  <2>2. requests[q].reply.status \in Statuses /\ requests[q].ext \in ExternalIds
    BY <2>1, LookupReply DEF JobStatuses, Statuses
  <2>3. CASE UNCHANGED runs BY <2>3, UnchangedSettles
  <2>4. CASE /\ UpdateRun(u, requests[q].reply.status, requests[q].ext, FALSE)
             /\ runs[u].ext = NoId
    BY <2>1, <2>2, <2>4, PatchSettles
  <2> QED BY <2>1, <2>3, <2>4
<1> QED BY <1>1, <1>2, <1>3

LEMMA SettlesOrReserves ==
  ASSUME WellFormed, Next
  PROVE  \/ \A r \in RunIds : Settled(r)
         \/ \E q \in Requests, r \in RunIds, k \in Keys, b \in Backends : Reserve(q, r, k, b)
<1>1. CASE \E q \in Requests, k \in Keys, b \in Backends : ReserveRefused(q, k, b)
  BY <1>1, SweepSettles DEF ReserveRefused
<1>2. CASE \E q \in Requests : PostFinish(q) \/ PollFinish(q) \/ SyncFinish(q)
                                 \/ ReconcileAttach(q) \/ ReconcileNotFound(q)
  BY <1>2, FinishSettles
<1>3. CASE \E r \in RunIds, x \in ExternalIds : RelayClaim(r, x)
  BY <1>3 DEF RelayClaim, Settled, WellFormed, TypeOK, Run, Terminal
<1>4. CASE \E r \in RunIds : Age(r)
  BY <1>4 DEF Age, Settled, WellFormed, TypeOK, Run
<1>5. CASE UNCHANGED runs BY <1>5, UnchangedSettles
<1> QED BY <1>1, <1>2, <1>3, <1>4, <1>5
        DEF Next, DispatchImmediate, RunnerRefuses, RunnerReports, Abandon, RunnerAccepts,
            PollStart, SyncStart, ReconcileStart, AgentAccepts, JobStep, Restart

----
\* The inductive invariant.

LEMMA InitWellFormed == Init => WellFormed
<1> SUFFICES ASSUME Init PROVE WellFormed
  OBVIOUS
<1>1. TypeOK
  BY DEF Init, TypeOK, NoRun, Run, Idle, Request, NoReply, Reply, NoJob, Job
<1>2. RunsOK /\ JobsOK /\ OneJobPerKey
  BY DEF Init, RunsOK, JobsOK, OneJobPerKey, NoRun, NoJob
<1>3. HandlersOK BY DEF Init, HandlersOK, HandlerOK, Idle
<1> QED BY <1>1, <1>2, <1>3 DEF WellFormed

LEMMA StutterStep == ASSUME WellFormed, UNCHANGED vars PROVE WellFormed'
<1>1. RunKeysKept /\ JobKeysKept /\ \A r \in RunIds : RelayKept(r)
  BY DEF vars, RunKeysKept, JobKeysKept, RelayKept, WellFormed, RunsOK
<1> QED BY <1>1, EnvironmentFrame DEF vars, WellFormed, TypeOK

LEMMA NextWellFormed == ASSUME WellFormed, [Next]_vars PROVE WellFormed'
<1>1. CASE \E q \in Requests, k \in Keys, b \in Backends :
             ReserveRefused(q, k, b) \/ \E r \in RunIds : Reserve(q, r, k, b)
  BY <1>1, ReserveRefusedStep, ReserveStep
<1>2. CASE \E q \in Requests :
             \/ DispatchImmediate(q) \/ RunnerRefuses(q) \/ PostFinish(q)
             \/ RunnerReports(q) \/ PollFinish(q) \/ SyncFinish(q)
             \/ ReconcileAttach(q) \/ ReconcileNotFound(q) \/ Abandon(q)
  BY <1>2, DispatchStep, PostFinishStep, RunnerReportsStep, LookupFinishStep,
     ReconcileAttachStep, AbandonStep
<1>3. CASE \E q \in Requests, j \in Jobs : RunnerAccepts(q, j)
  BY <1>3, RunnerAcceptsStep
<1>4. CASE \E q \in Requests, r \in RunIds : PollStart(q, r) \/ SyncStart(q, r)
  BY <1>4, PollSyncStartStep
<1>5. CASE \E r \in RunIds, x \in ExternalIds :
             RelayClaim(r, x) \/ \E q \in Requests : ReconcileStart(q, r, x)
  BY <1>5, RelayClaimStep, ReconcileStartStep
<1>6. CASE \E r \in RunIds, j \in Jobs : AgentAccepts(r, j)
  BY <1>6, AgentAcceptsStep
<1>7. CASE \E r \in RunIds : Age(r) BY <1>7, AgeStep
<1>8. CASE \E j \in Jobs : JobStep(j) BY <1>8, JobSteps
<1>9. CASE Restart BY <1>9, RestartStep
<1>10. CASE UNCHANGED vars BY <1>10, StutterStep
<1> QED BY <1>1, <1>2, <1>3, <1>4, <1>5, <1>6, <1>7, <1>8, <1>9, <1>10 DEF Next

LEMMA AlwaysWellFormed == Spec => []WellFormed
BY InitWellFormed, NextWellFormed, PTL DEF Spec

----
\* The theorems.

\* Every variable keeps to its type, whatever handlers and runners do.
THEOREM TypeCorrect == Spec => []TypeOK
<1>1. WellFormed => TypeOK BY DEF WellFormed
<1> QED BY <1>1, AlwaysWellFormed, PTL

\* No retry under one Idempotency-Key makes a runner start a second job: there is one
\* reservation per key and only its own POST dispatches it.
THEOREM NoSecondJob == Spec => []OneJobPerKey
<1>1. WellFormed => OneJobPerKey BY DEF WellFormed
<1> QED BY <1>1, AlwaysWellFormed, PTL

\* A run in a terminal state is settled by every step, and reserved by none.
LEMMA TerminalStep ==
  ASSUME WellFormed, Next, NEW r \in RunIds, runs[r].status \in Terminal
  PROVE  runs'[r].status = runs[r].status
<1>1. CASE \A s \in RunIds : Settled(s) BY <1>1 DEF Settled
<1>2. ASSUME NEW q \in Requests, NEW u \in RunIds, NEW k \in Keys, NEW b \in Backends,
             Reserve(q, u, k, b)
      PROVE  runs'[r].status = runs[r].status
  <2>1. r # u /\ runs'[r] = Sweep(runs)[r]
    BY <1>2, ReserveEffect DEF NoRun, Terminal
  <2> QED BY <1>2, <2>1, SweepSettles DEF Settled
<1> QED BY <1>1, <1>2, SettlesOrReserves

\* No late answer moves a run out of a terminal state.
THEOREM TerminalForever == Spec => TerminalStays
<1>1. ASSUME WellFormed, [Next]_vars
      PROVE  [\A r \in RunIds :
                runs[r].status \in Terminal => runs'[r].status = runs[r].status]_vars
  BY <1>1, TerminalStep DEF vars
<1> QED BY <1>1, AlwaysWellFormed, PTL DEF Spec, TerminalStays

\* Only the end of a poll attaches evidence, to the run it has just completed.
LEMMA EvidenceStep ==
  ASSUME WellFormed, Next, NEW r \in evidence' \ evidence
  PROVE  runs'[r].status = "completed"
<1>1. ASSUME NEW q \in Requests, PollFinish(q) PROVE runs'[r].status = "completed"
  BY <1>1 DEF PollFinish
<1>2. CASE \E q \in Requests, k \in Keys, b \in Backends :
             ReserveRefused(q, k, b) \/ \E s \in RunIds : Reserve(q, s, k, b)
  BY <1>2 DEF ReserveRefused, Reserve
<1>3. ASSUME NEW q \in Requests,
             \/ DispatchImmediate(q) \/ RunnerRefuses(q) \/ PostFinish(q)
             \/ RunnerReports(q) \/ SyncFinish(q)
             \/ ReconcileAttach(q) \/ ReconcileNotFound(q) \/ Abandon(q)
      PROVE  UNCHANGED evidence
  BY <1>3 DEF DispatchImmediate, RunnerRefuses, PostFinish, RunnerReports, SyncFinish,
              ReconcileAttach, ReconcileNotFound, Abandon
<1>4. CASE \E q \in Requests, j \in Jobs : RunnerAccepts(q, j) BY <1>4 DEF RunnerAccepts
<1>5. CASE \E q \in Requests, s \in RunIds : PollStart(q, s) \/ SyncStart(q, s)
  BY <1>5 DEF PollStart, SyncStart
<1>6. CASE \E s \in RunIds, x \in ExternalIds :
             RelayClaim(s, x) \/ \E q \in Requests : ReconcileStart(q, s, x)
  BY <1>6 DEF RelayClaim, ReconcileStart
<1>7. CASE \E s \in RunIds, j \in Jobs : AgentAccepts(s, j)
  BY <1>7 DEF AgentAccepts
<1>8. CASE (\E s \in RunIds : Age(s)) \/ (\E j \in Jobs : JobStep(j)) \/ Restart
  BY <1>8 DEF Age, JobStep, Restart
<1> QED BY <1>1, <1>2, <1>3, <1>4, <1>5, <1>6, <1>7, <1>8 DEF Next

\* Telemetry is attached to no run that ended otherwise than by completing, and a run that
\* has it stays completed.
THEOREM EvidenceHolds == Spec => []EvidenceOfCompletedRuns
<1>1. Init => EvidenceOfCompletedRuns BY DEF Init, EvidenceOfCompletedRuns
<1>2. ASSUME WellFormed, EvidenceOfCompletedRuns, Next, NEW r \in evidence'
      PROVE  runs'[r].status = "completed"
  <2>1. CASE r \in evidence
    <3>1. r \in RunIds /\ runs[r].status \in Terminal
      BY <1>2, <2>1 DEF WellFormed, TypeOK, EvidenceOfCompletedRuns, Terminal
    <3> QED BY <1>2, <2>1, <3>1, TerminalStep DEF EvidenceOfCompletedRuns
  <2>2. CASE r \notin evidence BY <1>2, <2>2, EvidenceStep
  <2> QED BY <2>1, <2>2
<1>3. WellFormed /\ EvidenceOfCompletedRuns /\ [Next]_vars => EvidenceOfCompletedRuns'
  BY <1>2 DEF EvidenceOfCompletedRuns, vars
<1> QED BY <1>1, <1>3, AlwaysWellFormed, PTL DEF Spec

\* Job keys once given stay.
LEMMA KeysStay ==
  ASSUME WellFormed, Next, NEW j \in Jobs, jobs[j].key # NoKey
  PROVE  jobs'[j].key = jobs[j].key
<1>1. CASE \E q \in Requests, i \in Jobs : RunnerAccepts(q, i)
  BY <1>1 DEF RunnerAccepts, NoJob, WellFormed, TypeOK
<1>2. CASE \E r \in RunIds, i \in Jobs : AgentAccepts(r, i)
  BY <1>2 DEF AgentAccepts, NoJob, WellFormed, TypeOK
<1>3. CASE \E i \in Jobs : JobStep(i)
  BY <1>3 DEF JobStep, WellFormed, TypeOK, Job
<1>4. CASE UNCHANGED jobs BY <1>4
<1> QED BY <1>1, <1>2, <1>3, <1>4
        DEF Next, ReserveRefused, Reserve, DispatchImmediate, RunnerRefuses, PostFinish,
            RunnerReports, PollFinish, SyncFinish, ReconcileAttach, ReconcileNotFound, Abandon,
            PollStart, SyncStart, RelayClaim, ReconcileStart, Age, Restart

\* A run that carries its own job keeps it, and a wrong id gives way to nothing else: a
\* second id can only be the run's own job's, of which there is one.
THEOREM OwnIdForever == Spec => OwnIdKept
<1>1. ASSUME WellFormed, Next, NEW r \in RunIds, runs[r].ext # NoId, runs'[r].ext # runs[r].ext
      PROVE  ~CarriesOwn(r) /\ CarriesOwn(r)'
  <2>1. CASE \A s \in RunIds : Settled(s)
    <3>1. CarriesOwn(r)' /\ runs'[r].key = runs[r].key BY <1>1, <2>1 DEF Settled
    <3>2. runs[r].key \in Keys BY <1>1 DEF WellFormed, RunsOK, NoRun
    <3>3. ASSUME CarriesOwn(r) PROVE FALSE
      <4>1. jobs'[runs[r].ext].key = runs[r].key
        BY <1>1, <3>2, <3>3, KeysStay, NullAssumption DEF CarriesOwn
      <4>2. OneJobPerKey' BY <1>1, NextWellFormed DEF WellFormed
      <4> QED BY <1>1, <3>1, <3>2, <3>3, <4>1, <4>2, NullAssumption DEF CarriesOwn, OneJobPerKey
    <3> QED BY <3>1, <3>3
  <2>2. ASSUME NEW q \in Requests, NEW u \in RunIds, NEW k \in Keys, NEW b \in Backends,
               Reserve(q, u, k, b)
        PROVE  FALSE
    <3>1. r # u /\ runs'[r] = Sweep(runs)[r]
      BY <1>1, <2>2, ReserveEffect DEF NoRun
    <3>2. runs \in [RunIds -> Run] BY <1>1 DEF WellFormed, TypeOK
    <3> QED BY <1>1, <3>1, <3>2, SweepType
  <2> QED BY <1>1, <2>1, <2>2, SettlesOrReserves
<1>2. ASSUME WellFormed, [Next]_vars
      PROVE  [\A r \in RunIds : runs[r].ext # NoId /\ runs'[r].ext # runs[r].ext =>
                ~CarriesOwn(r) /\ CarriesOwn(r)']_vars
  BY <1>1, <1>2 DEF vars
<1> QED BY <1>2, AlwaysWellFormed, PTL DEF Spec, OwnIdKept

----
\* The account quota.

LEMMA ActiveOfFinite ==
  ASSUME NEW table, NEW o
  PROVE  IsFiniteSet(ActiveOf(table, o)) /\ Cardinality(ActiveOf(table, o)) \in Nat
<1>1. ActiveOf(table, o) \in SUBSET RunIds BY DEF ActiveOf
<1> QED BY <1>1, FiniteAssumption, FS_Subset, FS_CardinalityType

\* A settled run that is active was active before, for the same account.
LEMMA SettledActive ==
  ASSUME WellFormed, TypeOK', NEW r \in RunIds, Settled(r), IsActive(runs'[r])
  PROVE  IsActive(runs[r])
BY DEF WellFormed, TypeOK, Settled, IsActive, Run, Statuses, Terminal

LEMMA QuotaStep ==
  ASSUME WellFormed, ActiveQuota, Next
  PROVE  ActiveQuota'
<1> SUFFICES ASSUME NEW o \in Owners PROVE Cardinality(ActiveOf(runs', o)) <= MaxActive
  BY DEF ActiveQuota, ActiveOf
<1>1. TypeOK' BY NextWellFormed DEF WellFormed
<1>2. CASE \A r \in RunIds : Settled(r)
  <2>1. ActiveOf(runs', o) \in SUBSET ActiveOf(runs, o)
    BY <1>1, <1>2, SettledActive DEF ActiveOf, Settled
  <2>2. Cardinality(ActiveOf(runs', o)) <= Cardinality(ActiveOf(runs, o))
    BY <2>1, ActiveOfFinite, FS_Subset
  <2> QED BY <2>2, ActiveOfFinite, LimitsAssumption DEF ActiveQuota
<1>3. ASSUME NEW q \in Requests, NEW r \in RunIds, NEW k \in Keys, NEW b \in Backends,
             Reserve(q, r, k, b)
      PROVE  Cardinality(ActiveOf(runs', o)) <= MaxActive
  <2> DEFINE swept == Sweep(runs)
  <2>1. /\ runs'[r] = NewRun(k, b)
        /\ \A s \in RunIds \ {r} : runs'[s] = swept[s]
    BY <1>3, ReserveEffect
  <2>2. IsRunner(b) => ~QuotaReached(swept, KeyOwner[k])
    BY <1>3 DEF Reserve
  <2>3. NewRun(k, b).key = k /\ NewRun(k, b).backend = b BY DEF NewRun, NoRun
  <2>4. ActiveOf(swept, o) \in SUBSET ActiveOf(runs, o)
    <3>1. runs \in [RunIds -> Run] BY DEF WellFormed, TypeOK
    <3> QED BY <3>1, SweepType DEF ActiveOf, IsActive
  <2>5. Cardinality(ActiveOf(swept, o)) <= MaxActive
    BY <2>4, ActiveOfFinite, FS_Subset, LimitsAssumption DEF ActiveQuota
  <2> HIDE DEF swept
  <2>6. CASE IsRunner(b) /\ o = KeyOwner[k]
    <3>1. ActiveOf(runs', o) \in SUBSET (ActiveOf(swept, o) \cup {r})
      BY <2>1 DEF ActiveOf
    <3>2. /\ IsFiniteSet(ActiveOf(swept, o) \cup {r})
          /\ Cardinality(ActiveOf(swept, o) \cup {r}) <= Cardinality(ActiveOf(swept, o)) + 1
      <4>1. IsFiniteSet(ActiveOf(swept, o)) /\ Cardinality(ActiveOf(swept, o)) \in Nat
        BY ActiveOfFinite
      <4>2. /\ IsFiniteSet(ActiveOf(swept, o) \cup {r})
            /\ Cardinality(ActiveOf(swept, o) \cup {r}) =
                 IF r \in ActiveOf(swept, o) THEN Cardinality(ActiveOf(swept, o))
                 ELSE Cardinality(ActiveOf(swept, o)) + 1
        BY <4>1, FS_AddElement
      <4> QED BY <4>1, <4>2
    <3>3. Cardinality(ActiveOf(runs', o)) <= Cardinality(ActiveOf(swept, o)) + 1
      <4>1. Cardinality(ActiveOf(runs', o)) <= Cardinality(ActiveOf(swept, o) \cup {r})
        BY <3>1, <3>2, FS_Subset
      <4>2. Cardinality(ActiveOf(swept, o) \cup {r}) \in Nat BY <3>2, FS_CardinalityType
      <4> QED BY <3>2, <4>1, <4>2, ActiveOfFinite
    <3>4. Cardinality(ActiveOf(swept, o)) < MaxActive
      BY <2>2, <2>6, ActiveOfFinite, LimitsAssumption DEF QuotaReached
    <3> QED BY <3>3, <3>4, ActiveOfFinite, LimitsAssumption
  <2>7. CASE ~(IsRunner(b) /\ o = KeyOwner[k])
    <3>1. ActiveOf(runs', o) \in SUBSET ActiveOf(swept, o)
      BY <2>1, <2>3, <2>7 DEF ActiveOf, IsActive
    <3> QED BY <2>5, <3>1, ActiveOfFinite, FS_Subset, LimitsAssumption
  <2> QED BY <2>6, <2>7
<1> QED BY <1>2, <1>3, SettlesOrReserves

\* No account ever occupies more runner slots than its limit, for any number of accounts,
\* keys, runs and concurrent handlers.
THEOREM QuotaHolds == Spec => []ActiveQuota
<1>1. Init => ActiveQuota
  <2> SUFFICES ASSUME Init, NEW o \in Owners PROVE Cardinality(ActiveOf(runs, o)) <= MaxActive
    BY DEF ActiveQuota
  <2>1. ActiveOf(runs, o) = {} BY DEF Init, ActiveOf, IsActive, NoRun
  <2> QED BY <2>1, FS_EmptySet, LimitsAssumption
<1>2. WellFormed /\ ActiveQuota /\ [Next]_vars => ActiveQuota'
  <2>1. ASSUME ActiveQuota, UNCHANGED vars PROVE ActiveQuota'
    BY <2>1 DEF vars, ActiveQuota, ActiveOf
  <2> QED BY <2>1, QuotaStep
<1> QED BY <1>1, <1>2, AlwaysWellFormed, PTL DEF Spec

----
\* The ledger implements RunSlots.

\* Every active run belongs to exactly one account, so the runs that hold a slot are the
\* active ones.
LEMMA HeldRuns ==
  ASSUME RunsOK
  PROVE  Slots!Held = {r \in RunIds : IsActive(runs[r])}
<1>1. \A r \in RunIds : IsActive(runs[r]) => runs[r].key \in Keys
  BY DEF RunsOK, NoRun, IsActive
<1> QED BY <1>1, OwnersAssumption DEF Slots!Held, ActiveOf

Spent == {r \in RunIds : IsRunner(runs[r].backend) /\ runs[r].status \in Terminal}

Ended == {r \in RunIds : IsActive(runs[r]) /\ ~IsActive(runs'[r])}

\* A run a step settles either stays in its slot or spends it.
LEMMA SettledSlots ==
  ASSUME WellFormed, TypeOK', NEW r \in RunIds, Settled(r)
  PROVE  /\ r \in Spent' <=> r \in Spent \cup Ended
         /\ \A o \in Owners : r \in ActiveOf(runs', o) <=> r \in ActiveOf(runs, o) \ Ended
<1>1. /\ runs[r].status \in Statuses \cup {"none"} /\ runs'[r].status \in Statuses \cup {"none"}
      /\ runs'[r].key = runs[r].key /\ runs'[r].backend = runs[r].backend
  BY DEF WellFormed, TypeOK, Run, Settled
<1>2. r \in Spent' <=> r \in Spent \cup Ended
  BY <1>1 DEF Spent, Ended, Settled, IsActive, Statuses, Terminal
<1>3. IsActive(runs'[r]) <=> IsActive(runs[r]) /\ r \notin Ended
  BY <1>1, SettledActive DEF Ended
<1>4. \A o \in Owners : r \in ActiveOf(runs', o) <=> r \in ActiveOf(runs, o) \ Ended
  BY <1>1, <1>3 DEF ActiveOf
<1> QED BY <1>2, <1>4

LEMMA SameCardinality == \A S : Slots!Cardinality(S) = Cardinality(S)
BY DEF Slots!Cardinality, Cardinality

\* A step that only ends runs releases their slots.
LEMMA ReleaseStep ==
  ASSUME Ended # {}, Ended \subseteq Slots!Held, Spent' = Spent \cup Ended,
         [o \in Owners |-> ActiveOf(runs, o)]' =
           [o \in Owners |-> [p \in Owners |-> ActiveOf(runs, p)][o] \ Ended]
  PROVE  Slots!Next
<1>1. PICK ended : ended = Ended OBVIOUS
<1>2. Slots!Release(ended) BY <1>1 DEF Slots!Release, Spent
<1> QED BY <1>1, <1>2 DEF Slots!Next

LEMMA SlotsStep ==
  ASSUME WellFormed, Next
  PROVE  [Slots!Next]_(Slots!vars)
<1> DEFINE held == [o \in Owners |-> ActiveOf(runs, o)]
<1>1. TypeOK' BY NextWellFormed DEF WellFormed
<1>2. Ended \subseteq Slots!Held BY HeldRuns DEF Ended, WellFormed
<1>3. CASE \A r \in RunIds : Settled(r)
  <2>1. Spent' = Spent \cup Ended
    BY <1>1, <1>3, SettledSlots DEF Spent, Ended
  <2>2. \A o \in Owners : ActiveOf(runs', o) = ActiveOf(runs, o) \ Ended
    BY <1>1, <1>3, SettledSlots DEF ActiveOf
  <2>3. held' = [o \in Owners |-> held[o] \ Ended]
    BY <2>2 DEF ActiveOf
  <2>4. CASE Ended = {} 
    <3>1. Spent' = Spent /\ held' = held BY <2>1, <2>2, <2>4 DEF ActiveOf
    <3> QED BY <3>1 DEF Slots!vars, Spent
  <2>5. CASE Ended # {}
    BY <1>2, <2>1, <2>3, <2>5, ReleaseStep
  <2> QED BY <2>4, <2>5
<1>4. ASSUME NEW q \in Requests, NEW u \in RunIds, NEW k \in Keys, NEW b \in Backends,
             Reserve(q, u, k, b)
      PROVE  [Slots!Next]_(Slots!vars)
  <2>1. /\ runs[u] = NoRun /\ runs'[u] = NewRun(k, b)
        /\ \A s \in RunIds \ {u} : runs'[s] = Sweep(runs)[s] /\ Settled(s)
    BY <1>4, ReserveEffect, SweepSettles
  <2>2. /\ runs'[u].key = k /\ runs'[u].backend = b /\ runs'[u].status = "queued"
        /\ ~IsActive(runs[u]) /\ runs[u].status = "none"
    BY <2>1 DEF NewRun, NoRun, IsActive
  <2>3. u \notin Ended /\ u \notin Spent /\ u \notin Spent' /\ u \notin Slots!Held
    BY <2>2, HeldRuns DEF Ended, Spent, Terminal, WellFormed
  <2>4. Spent' = Spent \cup Ended
    BY <1>1, <2>1, <2>3, SettledSlots DEF Spent, Ended
  <2>5. CASE IsRunner(b)
    <3> DEFINE o == KeyOwner[k]
    <3>1. o \in Owners BY OwnersAssumption
    <3>2. \A p \in Owners : u \in ActiveOf(runs', p) <=> p = o
      BY <2>2, <2>5 DEF ActiveOf, IsActive
    <3>3. \A p \in Owners : ActiveOf(runs', p) =
            IF p = o THEN (ActiveOf(runs, p) \ Ended) \cup {u} ELSE ActiveOf(runs, p) \ Ended
      BY <1>1, <2>1, <2>2, <3>2, SettledSlots DEF ActiveOf
    <3>4. ActiveOf(runs, o) \ Ended = ActiveOf(Sweep(runs), o)
      <4>1. \A s \in RunIds \ {u} : s \in ActiveOf(runs', o) <=> s \in ActiveOf(Sweep(runs), o)
        BY <2>1 DEF ActiveOf
      <4>2. u \notin ActiveOf(runs, o) /\ u \notin ActiveOf(Sweep(runs), o)
        <5>1. runs \in [RunIds -> Run] BY DEF WellFormed, TypeOK
        <5> QED BY <2>2, <5>1, SweepType DEF ActiveOf, IsActive
      <4> QED BY <1>1, <2>1, <3>1, <4>1, <4>2, SettledSlots DEF ActiveOf
    <3>5. Cardinality(held[o] \ Ended) < MaxActive
      <4>1. ~QuotaReached(Sweep(runs), o) BY <1>4, <2>5 DEF Reserve
      <4>2. Cardinality(ActiveOf(Sweep(runs), o)) < MaxActive
        BY <4>1, ActiveOfFinite, LimitsAssumption DEF QuotaReached
      <4>3. held[o] \ Ended = ActiveOf(Sweep(runs), o) BY <3>1, <3>4
      <4> QED BY <4>2, <4>3
    <3>6. held' = [p \in Owners |-> IF p = o THEN (held[p] \ Ended) \cup {u} ELSE held[p] \ Ended]
      BY <3>3 DEF ActiveOf
    <3>7. PICK ended : ended = Ended OBVIOUS
    <3>8. Slots!Admit(o, u, ended)
      BY <1>2, <2>3, <2>4, <3>5, <3>6, <3>7, SameCardinality DEF Slots!Admit, Spent
    <3> QED BY <1>2, <3>1, <3>7, <3>8 DEF Slots!Next
  <2>6. CASE ~IsRunner(b)
    <3>1. \A p \in Owners : u \notin ActiveOf(runs', p) /\ u \notin ActiveOf(runs, p)
      BY <2>2, <2>6 DEF ActiveOf, IsActive
    <3>2. \A p \in Owners : ActiveOf(runs', p) = ActiveOf(runs, p) \ Ended
      BY <1>1, <2>1, <3>1, SettledSlots DEF ActiveOf
    <3>3. held' = [p \in Owners |-> held[p] \ Ended] BY <3>2 DEF ActiveOf
    <3>4. CASE Ended = {}
      <4>1. Spent' = Spent /\ held' = held BY <2>4, <3>2, <3>4 DEF ActiveOf
      <4> QED BY <4>1 DEF Slots!vars, Spent
    <3>5. CASE Ended # {}
      BY <1>2, <2>4, <3>3, <3>5, ReleaseStep
    <3> QED BY <3>4, <3>5
  <2> QED BY <2>5, <2>6
<1> QED BY <1>3, <1>4, SettlesOrReserves

\* The handlers, the sweep and the compare-and-set together implement the slot accounting
\* of RunSlots.
THEOREM RefinesSlots == Spec => ImplementsSlots
<1>1. Init => Slots!Init
  BY DEF Init, Slots!Init, ActiveOf, NoRun, IsActive, IsRunner
<1>2. WellFormed /\ [Next]_vars => [Slots!Next]_(Slots!vars)
  <2>1. ASSUME UNCHANGED vars PROVE UNCHANGED Slots!vars
    BY <2>1 DEF vars, Slots!vars, ActiveOf
  <2> QED BY <2>1, SlotsStep
<1> QED BY <1>1, <1>2, AlwaysWellFormed, PTL DEF Spec, ImplementsSlots, Slots!Spec

====
