---- MODULE TrainingWorkerProofs ----
\* Theorems about TrainingWorker for every number of jobs, keys and slots.
EXTENDS TrainingWorker, FiniteSetTheorems, TLAPS

----
\* The inductive invariant.

\* The queue holds every waiting job once.
QueueOK ==
  /\ \A i \in 1..Len(queue) : InStage(queue[i], {"waiting"})
  /\ \A i, k \in 1..Len(queue) : queue[i] = queue[k] => i = k

\* A job that has left the queue and not yet ended its engine takes one of the slots, and
\* the engines are those of the running jobs.
SlotsOK ==
  /\ Cardinality(Active) <= Limit
  /\ engines = {j \in Jobs : InStage(j, {"running"})}

\* Nothing goes on while the directories are read.
LoadingOK ==
  /\ \A j \in Jobs : InStage(j, {"none"}) => jobs[j] = NoJob \/ j \in loading
  /\ \A j \in loading : InStage(j, {"none"}) /\ jobs[j] # NoJob
  /\ loading # {} => queue = <<>> /\ engines = {} /\ Active = {}

\* A job an engine was started for is past its launch.
LaunchedOK ==
  \A j \in launched :
    jobs[j] # NoJob /\ ~InStage(j, {"reserving", "waiting", "rejecting", "launching"})

\* The status of a job fits its stage.
StatusOK ==
  \A j \in Jobs :
    /\ InStage(j, {"reserving", "waiting", "launching"}) => jobs[j].status = "queued"
    /\ InStage(j, {"running", "finishing"}) => jobs[j].status = "running"
    /\ InStage(j, {"storing"}) => jobs[j].status \in {"completed", "failed"}
    /\ InStage(j, {"rejecting", "closing"}) => jobs[j].status = "failed"
    /\ InStage(j, {"done"}) => jobs[j].status \in {"completed", "failed", "gone"}
    /\ jobs[j].status = "absent" => jobs[j] = NoJob

\* job.json is never ahead of what has been answered: a status read back after a crash is
\* one that may follow it.
DiskOK ==
  \A j \in Jobs :
    /\ disk[j] \in {"completed", "failed"} /\ jobs[j].status \in JobStatuses
       => disk[j] = jobs[j].status \/ disk[j] \in Successors[jobs[j].status]
    /\ disk[j] # "running"
    /\ jobs[j] = NoJob \/ jobs[j].status = "gone" \/ InStage(j, {"reserving"})
       => disk[j] = "unreadable"

Inv == TypeOK /\ QueueOK /\ SlotsOK /\ LoadingOK /\ LaunchedOK /\ StatusOK /\ DiskOK /\ WorkConserving

----
LEMMA InvInit == Init => Inv
<1> SUFFICES ASSUME Init PROVE Inv OBVIOUS
<1>1. TypeOK BY DEF Init, TypeOK, Job, NoJob, Stages, Files
<1>2. Active = {} BY DEF Init, Active, InStage, NoJob
<1>3. SlotsOK BY <1>2, FS_EmptySet, LimitAssumption DEF Init, SlotsOK, InStage, NoJob
<1>4. QueueOK /\ LoadingOK /\ LaunchedOK /\ StatusOK /\ DiskOK /\ WorkConserving
  BY <1>2 DEF Init, QueueOK, LoadingOK, LaunchedOK, StatusOK, DiskOK, WorkConserving, InStage, NoJob
<1> QED BY <1>1, <1>3, <1>4 DEF Inv

----
\* Pumping the queue.

\* The first n entries of a queue without repetitions are n jobs.
LEMMA FirstJobs ==
  ASSUME NEW s \in Seq(Jobs), NEW n \in 0..Len(s),
         \A i, k \in 1..Len(s) : s[i] = s[k] => i = k
  PROVE  LET first == {s[i] : i \in 1..n} IN
         IsFiniteSet(first) /\ Cardinality(first) = n
<1> DEFINE first == {s[i] : i \in 1..n}
           f == [i \in 1..n |-> s[i]]
<1>1. f \in Bijection(1..n, first)
  <2>1. 1..n \subseteq 1..Len(s) OBVIOUS
  <2>2. f \in [1..n -> first] OBVIOUS
  <2>3. \A i, k \in 1..n : f[i] = f[k] => i = k BY <2>1
  <2>4. \A x \in first : \E i \in 1..n : f[i] = x OBVIOUS
  <2> HIDE DEF f, first
  <2> QED BY <2>2, <2>3, <2>4 DEF Bijection, Injection, Surjection, IsInjective
<1>2. ExistsBijection(1..n, first) BY <1>1 DEF ExistsBijection
<1>3. IsFiniteSet(1..n) /\ Cardinality(1..n) = n BY FS_Interval
<1> QED BY <1>2, <1>3, FS_Bijection

\* What becomes of a job that pumpQueue takes.
LEMMA TakenIs ==
  ASSUME NEW j, NEW job \in Job
  PROVE  LET taken == Taken(j, job) IN
         /\ taken \in Job /\ taken.key = job.key
         /\ j \in Unrouted => taken.stage = "rejecting" /\ taken.status = "failed"
         /\ j \notin Unrouted => taken.stage = "launching" /\ taken.status = job.status
BY DEF Taken, Job, Stages, JobStatuses

\* pumpQueue takes a beginning of the queue.
LEMMA PumpPrefix ==
  ASSUME NEW table \in [Jobs -> Job], NEW waiting \in Seq(Jobs), Pumped(table, waiting)
  PROVE  \E n \in 0..Len(waiting) :
           /\ jobs' = [j \in Jobs |-> IF \E i \in 1..n : waiting[i] = j THEN Taken(j, table[j])
                                      ELSE table[j]]
           /\ queue' = SubSeq(waiting, n + 1, Len(waiting))
<1> DEFINE active == {j \in Jobs : table[j].stage \in {"launching", "running"}}
           room == Limit - Cardinality(active)
           most == IF room < Len(waiting) THEN room ELSE Len(waiting)
<1>1. active \subseteq Jobs OBVIOUS
<1>2. Cardinality(active) \in Nat BY <1>1, JobsAssumption, FS_Subset, FS_CardinalityType
<1>3. PICK n \in 0..most :
        /\ jobs' = [j \in Jobs |-> IF \E i \in 1..n : waiting[i] = j THEN Taken(j, table[j])
                                   ELSE table[j]]
        /\ queue' = SubSeq(waiting, n + 1, Len(waiting))
  BY DEF Pumped
<1>4. most \in Int /\ most <= Len(waiting) /\ Len(waiting) \in Nat BY <1>2, LimitAssumption
<1> HIDE DEF active, room, most
<1>5. n \in 0..Len(waiting) BY <1>4
<1> QED BY <1>3, <1>5

\* From a table with a free slot for every entry it takes from the queue, pumpQueue makes
\* one in which no slot is exceeded, and none is free while a job waits, unless the pump
\* waits for the record of a job it has failed.
LEMMA Pump ==
  ASSUME NEW table \in [Jobs -> Job], NEW waiting \in Seq(Jobs), Pumped(table, waiting),
         Cardinality({j \in Jobs : table[j].stage \in {"launching", "running"}}) <= Limit,
         \A i \in 1..Len(waiting) : table[waiting[i]].stage = "waiting",
         \A i, k \in 1..Len(waiting) : waiting[i] = waiting[k] => i = k
  PROVE  /\ jobs' \in [Jobs -> Job] /\ queue' \in Seq(Jobs)
         /\ QueueOK'
         /\ Cardinality(Active') <= Limit
         /\ queue' # <<>> => Cardinality(Active') = Limit \/ \E j \in Jobs : InStage(j, {"rejecting"})'
         /\ \A j \in Jobs : \/ jobs'[j] = table[j]
                            \/ table[j].stage = "waiting" /\ jobs'[j] = Taken(j, table[j])
<1> DEFINE active == {j \in Jobs : table[j].stage \in {"launching", "running"}}
           room == Limit - Cardinality(active)
           most == IF room < Len(waiting) THEN room ELSE Len(waiting)
<1>1. IsFiniteSet(active) /\ Cardinality(active) \in Nat
  BY JobsAssumption, FS_Subset, FS_CardinalityType
<1>2. room \in Nat /\ most \in 0..Len(waiting) /\ most <= room
  BY <1>1, LimitAssumption
<1>3. PICK n \in 0..most :
        /\ n = most \/ (n > 0 /\ waiting[n] \in Unrouted)
        /\ \A i \in 1..(n - 1) : waiting[i] \notin Unrouted
        /\ jobs' = [j \in Jobs |-> IF \E i \in 1..n : waiting[i] = j THEN Taken(j, table[j])
                                   ELSE table[j]]
        /\ queue' = SubSeq(waiting, n + 1, Len(waiting))
  BY DEF Pumped
<1>4. active \subseteq Jobs /\ Cardinality(active) <= Limit /\ room = Limit - Cardinality(active)
      /\ most = (IF room < Len(waiting) THEN room ELSE Len(waiting))
      /\ \A j \in Jobs : j \in active <=> table[j].stage \in {"launching", "running"}
  OBVIOUS
<1> HIDE DEF active, room, most
<1> DEFINE next == {waiting[i] : i \in 1..n}
           started == next \ Unrouted
<1>5. n \in 0..Len(waiting) /\ n <= room BY <1>2, <1>3
<1>6. IsFiniteSet(next) /\ Cardinality(next) = n BY <1>5, FirstJobs
<1>7. next \subseteq Jobs /\ \A j \in next : table[j].stage = "waiting" BY <1>5
<1>8. \A x : x \in next <=> \E i \in 1..n : x = waiting[i] OBVIOUS
<1>9. \A j : j \in started <=> j \in next /\ j \notin Unrouted OBVIOUS
<1> HIDE DEF next, started
<1>10. \A j \in Jobs : /\ table[j] \in Job
                       /\ j \in next => jobs'[j] = Taken(j, table[j])
                       /\ j \notin next => jobs'[j] = table[j]
  BY <1>3, <1>8
<1>11. \A j \in Jobs : /\ jobs'[j] \in Job
                       /\ j \in next /\ j \in Unrouted => jobs'[j].stage = "rejecting"
                       /\ j \in started => jobs'[j].stage = "launching"
                       /\ j \notin next => jobs'[j] = table[j]
  BY <1>9, <1>10, TakenIs
<1>12. jobs' \in [Jobs -> Job] BY <1>3, <1>11
<1>13. /\ queue' \in Seq(Jobs) /\ Len(queue') = Len(waiting) - n
       /\ \A i \in 1..Len(queue') : queue'[i] = waiting[i + n]
  BY <1>3, <1>5
<1>14. \A i \in 1..Len(queue') : i + n \in 1..Len(waiting) /\ i + n \notin 1..n
  BY <1>5, <1>13
<1>15. \A i \in 1..Len(queue') : queue'[i] \in Jobs /\ queue'[i] \notin next
  <2> SUFFICES ASSUME NEW i \in 1..Len(queue') PROVE queue'[i] \in Jobs /\ queue'[i] \notin next
    OBVIOUS
  <2>1. queue'[i] = waiting[i + n] /\ i + n \in 1..Len(waiting) /\ i + n \notin 1..n
    BY <1>13, <1>14
  <2>2. ASSUME NEW k \in 1..n PROVE waiting[k] # waiting[i + n]
    BY <1>5, <2>1
  <2> QED BY <1>8, <2>1, <2>2
<1>16. QueueOK'
  <2>1. \A i \in 1..Len(queue') : jobs'[queue'[i]].stage = "waiting"
    BY <1>13, <1>14, <1>15, <1>11
  <2>2. ASSUME NEW i \in 1..Len(queue'), NEW k \in 1..Len(queue'), queue'[i] = queue'[k]
        PROVE  i = k
    <3>1. waiting[i + n] = waiting[k + n] BY <1>13, <2>2
    <3>2. i + n = k + n BY <1>14, <3>1
    <3> QED BY <1>5, <3>2
  <2> QED BY <2>1, <2>2 DEF QueueOK, InStage
<1>17. started \subseteq next /\ IsFiniteSet(started) /\ Cardinality(started) \in Nat
       /\ Cardinality(started) <= n
  BY <1>6, <1>9, FS_Subset, FS_CardinalityType
<1>18. Active' = active \cup started
  BY <1>4, <1>7, <1>9, <1>11 DEF Active, InStage
<1>19. active \cap started = {} BY <1>4, <1>7, <1>9
<1>20. Cardinality(Active') = Cardinality(active) + Cardinality(started)
  <2>1. Cardinality(active \cup started)
          = Cardinality(active) + Cardinality(started) - Cardinality({})
    BY <1>1, <1>17, <1>19, FS_Union
  <2> QED BY <1>1, <1>17, <1>18, <2>1, FS_EmptySet
<1>21. Cardinality(Active') <= Limit BY <1>1, <1>4, <1>5, <1>17, <1>20, LimitAssumption
<1>22. ASSUME queue' # <<>>
       PROVE  Cardinality(Active') = Limit \/ \E j \in Jobs : InStage(j, {"rejecting"})'
  <2>1. CASE n > 0 /\ waiting[n] \in Unrouted
    <3>1. waiting[n] \in next BY <1>5, <1>8, <2>1
    <3> QED BY <1>7, <1>11, <2>1, <3>1 DEF InStage
  <2>2. CASE ~(n > 0 /\ waiting[n] \in Unrouted)
    <3>1. n = most BY <1>3, <2>2
    <3>2. n = room BY <1>2, <1>4, <1>5, <1>13, <1>22, <3>1
    <3>3. ASSUME NEW i \in 1..n PROVE waiting[i] \notin Unrouted
      <4>1. i = n \/ i \in 1..(n - 1) BY <1>5
      <4> QED BY <1>3, <2>2, <4>1
    <3>4. \A x \in next : x \notin Unrouted BY <1>8, <3>3
    <3>5. started = next BY <1>9, <3>4
    <3> QED BY <1>1, <1>4, <1>6, <1>20, <3>2, <3>5, LimitAssumption
  <2> QED BY <2>1, <2>2
<1> QED BY <1>7, <1>10, <1>12, <1>13, <1>16, <1>21, <1>22

----
\* A step of one job that leaves the queue alone: it may give a slot up, and it takes over
\* the duty to pump the queue from nobody but itself.
LEMMA OneJob ==
  ASSUME Inv, Up, NEW j \in Jobs, NEW job \in Job, jobs' = [jobs EXCEPT ![j] = job],
         UNCHANGED <<queue, loading>>,
         jobs[j].stage # "waiting", job.stage \notin {"none", "waiting"},
         job.stage \in {"launching", "running"} => jobs[j].stage \in {"launching", "running"},
         \/ job.stage \in {"finishing", "storing", "closing"}
         \/ /\ jobs[j].stage \in {"launching", "running"} => job.stage \in {"launching", "running"}
            /\ jobs[j].stage \notin {"rejecting", "finishing", "storing", "closing"}
  PROVE  jobs' \in [Jobs -> Job] /\ QueueOK' /\ Cardinality(Active') <= Limit
         /\ LoadingOK' /\ WorkConserving'
<1>1. jobs \in [Jobs -> Job] /\ queue \in Seq(Jobs) BY DEF Inv, TypeOK
<1>2. \A i \in Jobs : i # j => jobs'[i] = jobs[i] BY <1>1
<1>3. jobs' \in [Jobs -> Job] /\ jobs'[j] = job BY <1>1
<1>4. \A i \in 1..Len(queue) : queue[i] \in Jobs /\ queue[i] # j
  BY <1>1 DEF Inv, QueueOK, InStage
<1>5. QueueOK' BY <1>1, <1>2, <1>4 DEF Inv, QueueOK, InStage
<1>6. Active' \subseteq Active /\ Active \subseteq Jobs BY <1>2, <1>3 DEF Active, InStage
<1>7. IsFiniteSet(Active) /\ Cardinality(Active) \in Nat
  BY <1>6, JobsAssumption, FS_Subset, FS_CardinalityType
<1>8. Cardinality(Active') <= Cardinality(Active) /\ Cardinality(Active') \in Nat
  BY <1>6, <1>7, FS_Subset, FS_CardinalityType
<1>9. Cardinality(Active') <= Limit BY <1>7, <1>8, LimitAssumption DEF Inv, SlotsOK
<1>10. LoadingOK' BY <1>2, <1>3 DEF Inv, LoadingOK, InStage, Up
<1>11. WorkConserving'
  <2>1. CASE job.stage \in {"finishing", "storing", "closing"}
    BY <1>3, <2>1 DEF WorkConserving, InStage
  <2>2. CASE /\ jobs[j].stage \in {"launching", "running"} => job.stage \in {"launching", "running"}
             /\ jobs[j].stage \notin {"rejecting", "finishing", "storing", "closing"}
    <3>1. Active' = Active BY <1>2, <1>3, <2>2 DEF Active, InStage
    <3>2. \A i \in Jobs : InStage(i, {"rejecting", "finishing", "storing", "closing"})
                          => InStage(i, {"rejecting", "finishing", "storing", "closing"})'
      BY <1>2, <2>2 DEF InStage
    <3> QED BY <3>1, <3>2 DEF Inv, WorkConserving
  <2> QED BY <2>1, <2>2
<1> QED BY <1>3, <1>5, <1>9, <1>10, <1>11

----
\* The actions, one lemma each.

\* What Inv says of one job.
LEMMA JobFacts ==
  ASSUME Inv, NEW j \in Jobs
  PROVE  /\ jobs \in [Jobs -> Job] /\ jobs[j] \in Job /\ queue \in Seq(Jobs)
         /\ disk \in [Jobs -> Files]
         /\ Up /\ InStage(j, {"none"}) => jobs[j] = NoJob
BY DEF Inv, TypeOK, LoadingOK, Up, InStage

\* What pumpQueue does to a job.
OnlyTaken(old, new) ==
  /\ new.key = old.key
  /\ \/ new = old
     \/ old.stage = "waiting" /\ new.stage = "launching" /\ new.status = old.status
     \/ old.stage = "waiting" /\ new.stage = "rejecting" /\ new.status = "failed"

\* While no directory is read, the table of a step that pumps the queue of what it has put
\* there meets what Inv asks of slots, queue and loading.
LEMMA PumpStep ==
  ASSUME Inv, Up, NEW table \in [Jobs -> Job], NEW waiting \in Seq(Jobs), Pumped(table, waiting),
         UNCHANGED <<engines, loading>>,
         \A j \in Jobs :
           /\ table[j].stage \in {"launching", "running"} <=> jobs[j].stage \in {"launching", "running"}
           /\ table[j].stage = "running" <=> jobs[j].stage = "running"
           /\ table[j].stage = "none" => jobs[j].stage = "none" /\ table[j] = jobs[j],
         \A i \in 1..Len(waiting) : table[waiting[i]].stage = "waiting",
         \A i, k \in 1..Len(waiting) : waiting[i] = waiting[k] => i = k
  PROVE  /\ jobs' \in [Jobs -> Job] /\ queue' \in Seq(Jobs)
         /\ QueueOK' /\ SlotsOK' /\ LoadingOK' /\ WorkConserving'
         /\ \A j \in Jobs : OnlyTaken(table[j], jobs'[j])
<1>1. {j \in Jobs : table[j].stage \in {"launching", "running"}} = Active
  BY DEF Active, InStage
<1>2. Cardinality({j \in Jobs : table[j].stage \in {"launching", "running"}}) <= Limit
  BY <1>1 DEF Inv, SlotsOK
<1>3. /\ jobs' \in [Jobs -> Job] /\ queue' \in Seq(Jobs) /\ QueueOK'
      /\ Cardinality(Active') <= Limit
      /\ queue' # <<>> => Cardinality(Active') = Limit \/ \E j \in Jobs : InStage(j, {"rejecting"})'
      /\ \A j \in Jobs : \/ jobs'[j] = table[j]
                         \/ table[j].stage = "waiting" /\ jobs'[j] = Taken(j, table[j])
  BY <1>2, Pump
<1>4. WorkConserving' BY <1>3 DEF WorkConserving, InStage
<1>5. \A j \in Jobs : OnlyTaken(table[j], jobs'[j])
  <2> TAKE j \in Jobs
  <2>1. table[j] \in Job OBVIOUS
  <2>2. CASE jobs'[j] = table[j] BY <2>2 DEF OnlyTaken
  <2>3. CASE table[j].stage = "waiting" /\ jobs'[j] = Taken(j, table[j])
    BY <2>1, <2>3, TakenIs DEF OnlyTaken
  <2> QED BY <2>2, <2>3, <1>3
<1>6. SlotsOK'
  <2>1. {j \in Jobs : jobs'[j].stage = "running"} = {j \in Jobs : jobs[j].stage = "running"}
    BY <1>5 DEF OnlyTaken
  <2> QED BY <1>3, <2>1 DEF Inv, SlotsOK, InStage
<1>7. LoadingOK' BY <1>3, <1>5 DEF Inv, LoadingOK, Up, InStage, OnlyTaken
<1> QED BY <1>3, <1>4, <1>5, <1>6, <1>7

\* The file of a job that pumpQueue takes still says that it is queued.
LEMMA DiskTaken ==
  ASSUME Inv, NEW i \in Jobs, NEW new, OnlyTaken(jobs[i], new)
  PROVE  /\ disk[i] \in {"completed", "failed"} /\ new.status \in JobStatuses
            => disk[i] = new.status \/ disk[i] \in Successors[new.status]
         /\ new = NoJob \/ new.status = "gone" \/ new.stage = "reserving"
            => disk[i] = "unreadable"
<1>1. CASE new = jobs[i] BY <1>1 DEF Inv, DiskOK, InStage
<1>2. CASE new # jobs[i]
  <2>1. /\ jobs[i].stage = "waiting" /\ new.stage \in {"launching", "rejecting"}
        /\ new.status \in {jobs[i].status, "failed"}
    BY <1>2 DEF OnlyTaken
  <2>2. jobs[i].status = "queued" BY <2>1 DEF Inv, StatusOK, InStage
  <2>3. disk[i] # "completed" BY <2>2 DEF Inv, DiskOK, JobStatuses, Successors
  <2>4. new # NoJob BY <2>1 DEF NoJob
  <2> QED BY <2>1, <2>2, <2>3, <2>4 DEF Successors
<1> QED BY <1>1, <1>2

LEMMA SubmitStep ==
  ASSUME Inv, NEW j \in Jobs, NEW k \in Keys \cup {NoKey}, Submit(j, k) PROVE Inv'
<1> DEFINE job == [key |-> k, status |-> "queued", stage |-> "reserving"]
<1>1. job \in Job /\ Up /\ jobs[j] = NoJob /\ jobs' = [jobs EXCEPT ![j] = job]
  BY DEF Submit, Job, JobStatuses, Stages
<1>2. jobs[j].stage = "none" /\ jobs[j].status = "absent" BY <1>1 DEF NoJob
<1>3. /\ jobs' \in [Jobs -> Job] /\ QueueOK' /\ Cardinality(Active') <= Limit
      /\ LoadingOK' /\ WorkConserving'
  BY <1>1, <1>2, OneJob DEF Submit
<1>4. jobs'[j] = job /\ \A i \in Jobs : i # j => jobs'[i] = jobs[i]
  BY <1>1, JobFacts
<1>5. TypeOK' BY <1>3 DEF Submit, Inv, TypeOK
<1>6. SlotsOK' BY <1>2, <1>3, <1>4 DEF Submit, Inv, SlotsOK, InStage
<1>7. LaunchedOK' BY <1>1, <1>4 DEF Submit, Inv, LaunchedOK, InStage
<1>8. StatusOK' BY <1>4 DEF Inv, StatusOK, InStage
<1>9. DiskOK' BY <1>1, <1>4 DEF Submit, Inv, DiskOK, NoJob, InStage
<1> QED BY <1>3, <1>5, <1>6, <1>7, <1>8, <1>9 DEF Inv

\* A step of one job of the table, to another status and stage.
LEMMA PutStep ==
  ASSUME Inv, Up, NEW j \in Jobs,
         NEW status \in JobStatuses \cup {"gone"}, NEW stage \in Stages \ {"none", "waiting", "reserving"},
         jobs' = Put(j, status, stage), UNCHANGED <<queue, loading>>,
         jobs[j].stage \notin {"none", "waiting"},
         stage \in {"launching", "running"} => jobs[j].stage \in {"launching", "running"},
         \/ stage \in {"finishing", "storing", "closing"}
         \/ /\ jobs[j].stage \in {"launching", "running"} => stage \in {"launching", "running"}
            /\ jobs[j].stage \notin {"rejecting", "finishing", "storing", "closing"}
  PROVE  /\ jobs' \in [Jobs -> Job] /\ QueueOK' /\ Cardinality(Active') <= Limit
         /\ LoadingOK' /\ WorkConserving'
         /\ jobs'[j] = [jobs[j] EXCEPT !.status = status, !.stage = stage]
         /\ jobs'[j].status = status /\ jobs'[j].stage = stage /\ jobs'[j] # NoJob
         /\ \A i \in Jobs : i # j => jobs'[i] = jobs[i]
<1> DEFINE job == [jobs[j] EXCEPT !.status = status, !.stage = stage]
<1>1. job \in Job /\ job.status = status /\ job.stage = stage
  BY JobFacts DEF Job
<1>2. jobs' = [jobs EXCEPT ![j] = job] BY JobFacts DEF Put, Job
<1>3. jobs'[j] = job /\ \A i \in Jobs : i # j => jobs'[i] = jobs[i]
  BY <1>2, JobFacts
<1>4. job # NoJob BY <1>1 DEF NoJob
<1> HIDE DEF job
<1>5. /\ jobs' \in [Jobs -> Job] /\ QueueOK' /\ Cardinality(Active') <= Limit
      /\ LoadingOK' /\ WorkConserving'
  BY <1>1, <1>2, OneJob
<1> QED BY <1>1, <1>3, <1>4, <1>5 DEF job

LEMMA ReserveFailsStep == ASSUME Inv, NEW j \in Jobs, ReserveFails(j) PROVE Inv'
<1>0. /\ Up /\ jobs[j].stage = "reserving" /\ jobs' = Put(j, "gone", "done")
      /\ UNCHANGED <<queue, loading>>
  BY DEF ReserveFails, InStage
<1>1. /\ jobs' \in [Jobs -> Job] /\ QueueOK' /\ Cardinality(Active') <= Limit
      /\ LoadingOK' /\ WorkConserving'
      /\ jobs'[j].status = "gone" /\ jobs'[j].stage = "done" /\ jobs'[j] # NoJob
      /\ \A i \in Jobs : i # j => jobs'[i] = jobs[i]
  <2>1. "gone" \in JobStatuses \cup {"gone"}
        /\ "done" \in Stages \ {"none", "waiting", "reserving"}
    BY DEF JobStatuses, Stages
  <2> QED BY <1>0, <2>1, PutStep
<1>2. TypeOK' BY <1>1 DEF ReserveFails, Inv, TypeOK
<1>3. SlotsOK' BY <1>1 DEF ReserveFails, Inv, SlotsOK, InStage
<1>4. LaunchedOK' BY <1>1 DEF ReserveFails, Inv, TypeOK, LaunchedOK, InStage
<1>5. StatusOK' BY <1>1 DEF Inv, StatusOK, InStage
<1>6. DiskOK' BY <1>1 DEF ReserveFails, Inv, DiskOK, JobStatuses, InStage
<1> QED BY <1>1, <1>2, <1>3, <1>4, <1>5, <1>6 DEF Inv

LEMMA LaunchedStep == ASSUME Inv, NEW j \in Jobs, Launched(j) PROVE Inv'
<1>0. /\ Up /\ jobs[j].stage = "launching" /\ jobs' = Put(j, "running", "running")
      /\ UNCHANGED <<queue, loading>>
  BY DEF Launched, InStage
<1>1. /\ jobs' \in [Jobs -> Job] /\ QueueOK' /\ Cardinality(Active') <= Limit
      /\ LoadingOK' /\ WorkConserving'
      /\ jobs'[j].status = "running" /\ jobs'[j].stage = "running" /\ jobs'[j] # NoJob
      /\ \A i \in Jobs : i # j => jobs'[i] = jobs[i]
  <2>1. "running" \in JobStatuses \cup {"gone"}
        /\ "running" \in Stages \ {"none", "waiting", "reserving"}
    BY DEF JobStatuses, Stages
  <2> QED BY <1>0, <2>1, PutStep
<1>2. TypeOK' BY <1>1 DEF Launched, Inv, TypeOK
<1>3. SlotsOK' BY <1>1 DEF Launched, Inv, SlotsOK, InStage
<1>4. LaunchedOK' BY <1>1 DEF Launched, Inv, TypeOK, LaunchedOK, InStage
<1>5. StatusOK' BY <1>1 DEF Inv, StatusOK, InStage
<1>6. DiskOK'
  <2>1. jobs[j].status = "queued" BY DEF Launched, Inv, StatusOK, InStage
  <2> QED BY <1>1, <2>1 DEF Launched, Inv, DiskOK, JobStatuses, Successors, InStage
<1> QED BY <1>1, <1>2, <1>3, <1>4, <1>5, <1>6 DEF Inv

LEMMA LaunchFailsStep == ASSUME Inv, NEW j \in Jobs, LaunchFails(j) PROVE Inv'
<1>0. /\ Up /\ jobs[j].stage = "launching" /\ jobs' = Put(j, "failed", "closing")
      /\ UNCHANGED <<queue, loading>>
  BY DEF LaunchFails, InStage
<1>1. /\ jobs' \in [Jobs -> Job] /\ QueueOK' /\ Cardinality(Active') <= Limit
      /\ LoadingOK' /\ WorkConserving'
      /\ jobs'[j].status = "failed" /\ jobs'[j].stage = "closing" /\ jobs'[j] # NoJob
      /\ \A i \in Jobs : i # j => jobs'[i] = jobs[i]
  <2>1. "failed" \in JobStatuses \cup {"gone"}
        /\ "closing" \in Stages \ {"none", "waiting", "reserving"}
    BY DEF JobStatuses, Stages
  <2> QED BY <1>0, <2>1, PutStep
<1>2. TypeOK' BY <1>1 DEF LaunchFails, Inv, TypeOK, Files
<1>3. SlotsOK' BY <1>1 DEF LaunchFails, Inv, SlotsOK, InStage
<1>4. LaunchedOK' BY <1>1 DEF LaunchFails, Inv, TypeOK, LaunchedOK, InStage
<1>5. StatusOK' BY <1>1 DEF Inv, StatusOK, InStage
<1>6. DiskOK' BY <1>1, JobFacts DEF LaunchFails, Inv, DiskOK, InStage
<1> QED BY <1>1, <1>2, <1>3, <1>4, <1>5, <1>6 DEF Inv

LEMMA RejectStep == ASSUME Inv, NEW j \in Jobs, Reject(j) PROVE Inv'
<1>0. /\ Up /\ jobs[j].stage = "rejecting" /\ jobs' = Put(j, "failed", "closing")
      /\ UNCHANGED <<queue, loading>>
  BY DEF Reject, InStage
<1>1. /\ jobs' \in [Jobs -> Job] /\ QueueOK' /\ Cardinality(Active') <= Limit
      /\ LoadingOK' /\ WorkConserving'
      /\ jobs'[j].status = "failed" /\ jobs'[j].stage = "closing" /\ jobs'[j] # NoJob
      /\ \A i \in Jobs : i # j => jobs'[i] = jobs[i]
  <2>1. "failed" \in JobStatuses \cup {"gone"}
        /\ "closing" \in Stages \ {"none", "waiting", "reserving"}
    BY DEF JobStatuses, Stages
  <2> QED BY <1>0, <2>1, PutStep
<1>2. TypeOK' BY <1>1 DEF Reject, Inv, TypeOK, Files
<1>3. SlotsOK' BY <1>1 DEF Reject, Inv, SlotsOK, InStage
<1>4. LaunchedOK' BY <1>1 DEF Reject, Inv, TypeOK, LaunchedOK, InStage
<1>5. StatusOK' BY <1>1 DEF Inv, StatusOK, InStage
<1>6. DiskOK' BY <1>1, JobFacts DEF Reject, Inv, DiskOK, InStage
<1> QED BY <1>1, <1>2, <1>3, <1>4, <1>5, <1>6 DEF Inv

LEMMA EngineEndsStep == ASSUME Inv, NEW j \in Jobs, EngineEnds(j) PROVE Inv'
<1>0. /\ Up /\ jobs[j].stage = "running" /\ jobs' = Put(j, "running", "finishing")
      /\ UNCHANGED <<queue, loading>>
  BY DEF EngineEnds, InStage
<1>1. /\ jobs' \in [Jobs -> Job] /\ QueueOK' /\ Cardinality(Active') <= Limit
      /\ LoadingOK' /\ WorkConserving'
      /\ jobs'[j].status = "running" /\ jobs'[j].stage = "finishing" /\ jobs'[j] # NoJob
      /\ \A i \in Jobs : i # j => jobs'[i] = jobs[i]
  <2>1. "running" \in JobStatuses \cup {"gone"}
        /\ "finishing" \in Stages \ {"none", "waiting", "reserving"}
    BY DEF JobStatuses, Stages
  <2> QED BY <1>0, <2>1, PutStep
<1>2. TypeOK' BY <1>1 DEF EngineEnds, Inv, TypeOK
<1>3. SlotsOK' BY <1>1 DEF EngineEnds, Inv, SlotsOK, InStage
<1>4. LaunchedOK' BY <1>1 DEF EngineEnds, Inv, TypeOK, LaunchedOK, InStage
<1>5. StatusOK' BY <1>1 DEF Inv, StatusOK, InStage
<1>6. DiskOK'
  <2>1. jobs[j].status = "running" BY DEF EngineEnds, Inv, StatusOK, InStage
  <2> QED BY <1>1, <2>1 DEF EngineEnds, Inv, DiskOK, JobStatuses, InStage
<1> QED BY <1>1, <1>2, <1>3, <1>4, <1>5, <1>6 DEF Inv

LEMMA FinishedStep == ASSUME Inv, NEW j \in Jobs, Finished(j) PROVE Inv'
<1>0. PICK status \in {"completed", "failed"}, stage \in {"storing", "closing"} :
        jobs' = Put(j, status, stage) /\ (stage = "closing" => status = "failed")
  BY DEF Finished
<1>1. /\ jobs' \in [Jobs -> Job] /\ QueueOK' /\ Cardinality(Active') <= Limit
      /\ LoadingOK' /\ WorkConserving'
      /\ jobs'[j].status = status /\ jobs'[j].stage = stage /\ jobs'[j] # NoJob
      /\ \A i \in Jobs : i # j => jobs'[i] = jobs[i]
  BY <1>0, PutStep DEF Finished, InStage, Stages, JobStatuses
<1>2. TypeOK' BY <1>1 DEF Finished, Inv, TypeOK, Files
<1>3. SlotsOK' BY <1>0, <1>1 DEF Finished, Inv, SlotsOK, InStage
<1>4. LaunchedOK' BY <1>0, <1>1 DEF Finished, Inv, TypeOK, LaunchedOK, InStage
<1>5. StatusOK' BY <1>0, <1>1 DEF Inv, StatusOK, InStage
<1>6. DiskOK' BY <1>1, JobFacts DEF Finished, Inv, DiskOK, InStage
<1> QED BY <1>1, <1>2, <1>3, <1>4, <1>5, <1>6 DEF Inv

LEMMA StoreFailsStep == ASSUME Inv, NEW j \in Jobs, StoreFails(j) PROVE Inv'
<1>0. /\ Up /\ jobs[j].stage = "storing" /\ jobs' = Put(j, "failed", "closing")
      /\ UNCHANGED <<queue, loading>>
  BY DEF StoreFails, InStage
<1>1. /\ jobs' \in [Jobs -> Job] /\ QueueOK' /\ Cardinality(Active') <= Limit
      /\ LoadingOK' /\ WorkConserving'
      /\ jobs'[j].status = "failed" /\ jobs'[j].stage = "closing" /\ jobs'[j] # NoJob
      /\ \A i \in Jobs : i # j => jobs'[i] = jobs[i]
  <2>1. "failed" \in JobStatuses \cup {"gone"}
        /\ "closing" \in Stages \ {"none", "waiting", "reserving"}
    BY DEF JobStatuses, Stages
  <2> QED BY <1>0, <2>1, PutStep
<1>2. disk' \in [Jobs -> Files] /\ disk'[j] \in {"queued", "unreadable"}
      /\ \A i \in Jobs : i # j => disk'[i] = disk[i]
  BY JobFacts DEF StoreFails, Files, JobStatuses
<1>3. TypeOK' BY <1>1, <1>2 DEF StoreFails, Inv, TypeOK
<1>4. SlotsOK' BY <1>1 DEF StoreFails, Inv, SlotsOK, InStage
<1>5. LaunchedOK' BY <1>1 DEF StoreFails, Inv, TypeOK, LaunchedOK, InStage
<1>6. StatusOK' BY <1>1 DEF Inv, StatusOK, InStage
<1>7. DiskOK' BY <1>1, <1>2 DEF Inv, DiskOK, InStage
<1> QED BY <1>1, <1>3, <1>4, <1>5, <1>6, <1>7 DEF Inv

LEMMA ReservedStep == ASSUME Inv, NEW j \in Jobs, Reserved(j) PROVE Inv'
<1> DEFINE table == Put(j, "queued", "waiting")
           waiting == Append(queue, j)
<1>1. jobs[j].stage = "reserving" /\ Up /\ Pumped(table, waiting)
  BY DEF Reserved, InStage
<1>2. /\ table \in [Jobs -> Job] /\ table[j].stage = "waiting" /\ table[j].status = "queued"
      /\ \A i \in Jobs : i # j => table[i] = jobs[i]
  BY JobFacts DEF Put, Job, JobStatuses, Stages
<1>3. waiting \in Seq(Jobs) /\ Len(waiting) = Len(queue) + 1
      /\ \A i \in 1..Len(waiting) : waiting[i] = IF i = Len(waiting) THEN j ELSE queue[i]
  BY JobFacts
<1> HIDE DEF table, waiting
<1>4. \A i \in 1..Len(queue) : queue[i] \in Jobs /\ jobs[queue[i]].stage = "waiting"
  BY JobFacts DEF Inv, QueueOK, InStage
<1>5. \A i \in 1..Len(waiting) : i # Len(waiting) => i \in 1..Len(queue)
  BY <1>3, JobFacts
<1>6. \A i \in 1..Len(waiting) : table[waiting[i]].stage = "waiting"
  BY <1>1, <1>2, <1>3, <1>4, <1>5
<1>7. \A i, k \in 1..Len(waiting) : waiting[i] = waiting[k] => i = k
  BY <1>1, <1>3, <1>4, <1>5 DEF Inv, QueueOK
<1>8. \A i \in Jobs :
        /\ table[i].stage \in {"launching", "running"} <=> jobs[i].stage \in {"launching", "running"}
        /\ table[i].stage = "running" <=> jobs[i].stage = "running"
        /\ table[i].stage = "none" => jobs[i].stage = "none" /\ table[i] = jobs[i]
  BY <1>1, <1>2
<1>9. /\ jobs' \in [Jobs -> Job] /\ queue' \in Seq(Jobs)
      /\ QueueOK' /\ SlotsOK' /\ LoadingOK' /\ WorkConserving'
      /\ \A i \in Jobs : OnlyTaken(table[i], jobs'[i])
  BY <1>1, <1>2, <1>3, <1>6, <1>7, <1>8, PumpStep DEF Reserved
<1>11. TypeOK' BY <1>9, JobFacts DEF Reserved, Inv, TypeOK, Files, JobStatuses
<1>12. LaunchedOK'
  BY <1>1, <1>2, <1>9 DEF Reserved, Inv, TypeOK, LaunchedOK, InStage, OnlyTaken
<1>13. StatusOK'
  <2>1. \A i \in Jobs : i # j /\ table[i].stage = "waiting" => table[i].status = "queued"
    BY <1>2 DEF Inv, StatusOK, InStage
  <2> QED BY <1>2, <1>9, <2>1 DEF Inv, StatusOK, InStage, OnlyTaken
<1>14. DiskOK'
  <2>1. disk' \in [Jobs -> Files] /\ disk'[j] = "queued" /\ \A i \in Jobs : i # j => disk'[i] = disk[i]
    BY JobFacts DEF Reserved, Files, JobStatuses
  <2>2. jobs'[j] # NoJob /\ jobs'[j].status \in {"queued", "failed"} /\ jobs'[j].stage # "reserving"
    <3>1. OnlyTaken(table[j], jobs'[j]) /\ table[j].stage = "waiting" /\ table[j].status = "queued"
      BY <1>2, <1>9
    <3>2. /\ jobs'[j].stage \in {"waiting", "launching", "rejecting"}
          /\ jobs'[j].status \in {"queued", "failed"}
      BY <1>2, <3>1 DEF OnlyTaken, Job
    <3>3. NoJob.stage = "none" BY DEF NoJob
    <3> QED BY <3>2, <3>3
  <2>3. \A i \in Jobs : i # j => OnlyTaken(jobs[i], jobs'[i]) BY <1>2, <1>9
  <2>4. ASSUME NEW i \in Jobs, i # j
        PROVE  /\ disk'[i] = disk[i] /\ disk[i] # "running"
               /\ disk[i] \in {"completed", "failed"} /\ jobs'[i].status \in JobStatuses
                  => disk[i] = jobs'[i].status \/ disk[i] \in Successors[jobs'[i].status]
               /\ jobs'[i] = NoJob \/ jobs'[i].status = "gone" \/ jobs'[i].stage = "reserving"
                  => disk[i] = "unreadable"
    BY <2>1, <2>3, <2>4, DiskTaken DEF Inv, DiskOK
  <2> QED BY <2>1, <2>2, <2>4 DEF DiskOK, InStage
<1> QED BY <1>9, <1>11, <1>12, <1>13, <1>14 DEF Inv

\* The last step of a job: it leaves its file in a state that fits, and pumps the queue.
LEMMA DoneStep ==
  ASSUME Inv, Up, NEW j \in Jobs, jobs[j].stage \in {"storing", "closing"},
         NEW status \in {"completed", "failed"}, Pumped(Put(j, status, "done"), queue),
         NEW file \in {status, "queued", "unreadable"}, disk' = [disk EXCEPT ![j] = file],
         UNCHANGED <<engines, launched, loading>>
  PROVE  Inv'
<1> DEFINE table == Put(j, status, "done")
<1>1. /\ table \in [Jobs -> Job] /\ table[j].stage = "done" /\ table[j].status = status
      /\ \A i \in Jobs : i # j => table[i] = jobs[i]
  BY JobFacts DEF Put, Job, JobStatuses, Stages
<1>2. Pumped(table, queue) OBVIOUS
<1> HIDE DEF table
<1>3. \A i \in 1..Len(queue) : queue[i] \in Jobs /\ jobs[queue[i]].stage = "waiting"
  BY JobFacts DEF Inv, QueueOK, InStage
<1>4. \A i \in 1..Len(queue) : table[queue[i]].stage = "waiting"
  BY <1>1, <1>3
<1>5. \A i, k \in 1..Len(queue) : queue[i] = queue[k] => i = k
  BY DEF Inv, QueueOK
<1>6. \A i \in Jobs :
        /\ table[i].stage \in {"launching", "running"} <=> jobs[i].stage \in {"launching", "running"}
        /\ table[i].stage = "running" <=> jobs[i].stage = "running"
        /\ table[i].stage = "none" => jobs[i].stage = "none" /\ table[i] = jobs[i]
  BY <1>1
<1>7. /\ jobs' \in [Jobs -> Job] /\ queue' \in Seq(Jobs)
      /\ QueueOK' /\ SlotsOK' /\ LoadingOK' /\ WorkConserving'
      /\ \A i \in Jobs : OnlyTaken(table[i], jobs'[i])
  BY <1>1, <1>2, <1>4, <1>5, <1>6, JobFacts, PumpStep
<1>9. /\ disk' \in [Jobs -> Files] /\ disk'[j] = file
      /\ \A i \in Jobs : i # j => disk'[i] = disk[i]
  BY JobFacts DEF Files, JobStatuses
<1>10. TypeOK' BY <1>7, <1>9 DEF Inv, TypeOK
<1>11. LaunchedOK'
  <2>1. \A i \in launched : i \in Jobs /\ jobs[i].stage # "waiting" BY DEF Inv, TypeOK, LaunchedOK, InStage
  <2>2. table[j] # NoJob BY <1>1 DEF NoJob
  <2> QED BY <1>1, <1>7, <2>1, <2>2 DEF Inv, LaunchedOK, InStage, OnlyTaken
<1>12. StatusOK'
  <2>1. \A i \in Jobs : i # j /\ table[i].stage = "waiting" => table[i].status = "queued"
    BY <1>1 DEF Inv, StatusOK, InStage
  <2> QED BY <1>1, <1>7, <2>1 DEF Inv, StatusOK, InStage, OnlyTaken
<1>13. DiskOK'
  <2>1. jobs'[j] # NoJob /\ jobs'[j].status = status /\ jobs'[j].stage = "done"
    BY <1>1, <1>7 DEF NoJob, OnlyTaken
  <2>2. \A i \in Jobs : i # j => OnlyTaken(jobs[i], jobs'[i]) BY <1>1, <1>7
  <2>3. ASSUME NEW i \in Jobs, i # j
        PROVE  /\ disk'[i] = disk[i] /\ disk[i] # "running"
               /\ disk[i] \in {"completed", "failed"} /\ jobs'[i].status \in JobStatuses
                  => disk[i] = jobs'[i].status \/ disk[i] \in Successors[jobs'[i].status]
               /\ jobs'[i] = NoJob \/ jobs'[i].status = "gone" \/ jobs'[i].stage = "reserving"
                  => disk[i] = "unreadable"
    BY <1>9, <2>2, <2>3, DiskTaken DEF Inv, DiskOK
  <2> QED BY <1>9, <2>1, <2>3 DEF DiskOK, InStage
<1> QED BY <1>7, <1>10, <1>11, <1>12, <1>13 DEF Inv

LEMMA StoredStep == ASSUME Inv, NEW j \in Jobs, Stored(j) PROVE Inv'
<1>1. jobs[j].stage = "storing" /\ jobs[j].status \in {"completed", "failed"}
  BY DEF Stored, Inv, StatusOK, InStage
<1>2. /\ Up /\ Pumped(Put(j, jobs[j].status, "done"), queue)
      /\ disk' = [disk EXCEPT ![j] = jobs[j].status] /\ UNCHANGED <<engines, launched, loading>>
  BY DEF Stored
<1> QED BY <1>1, <1>2, DoneStep

LEMMA ClosedStep == ASSUME Inv, NEW j \in Jobs, Closed(j) PROVE Inv'
<1>1. jobs[j].stage = "closing" BY DEF Closed, InStage
<1>2. PICK file \in {"failed", "queued", "unreadable"} : disk' = [disk EXCEPT ![j] = file]
  BY DEF Closed
<1>3. Up /\ Pumped(Put(j, "failed", "done"), queue) /\ UNCHANGED <<engines, launched, loading>>
  BY DEF Closed
<1> QED BY <1>1, <1>2, <1>3, DoneStep

LEMMA CrashStep == ASSUME Inv, Crash PROVE Inv'
<1>1. /\ jobs' \in [Jobs -> Job]
      /\ \A j \in Jobs : /\ jobs'[j].status = jobs[j].status /\ jobs'[j].stage = "none"
                         /\ jobs'[j] = NoJob <=> jobs[j] = NoJob
  <2>1. \A j \in Jobs : jobs[j] \in Job /\ (jobs[j].status = "absent" => jobs[j] = NoJob)
    BY JobFacts DEF Inv, StatusOK
  <2>2. NoJob \in Job /\ NoJob.stage = "none" /\ NoJob.status = "absent" BY DEF NoJob, Job, Stages
  <2>3. \A j \in Jobs : LET lost == [jobs[j] EXCEPT !.stage = "none"] IN
          lost \in Job /\ lost.status = jobs[j].status /\ lost.stage = "none"
    BY <2>1 DEF Job, Stages
  <2> QED BY <2>1, <2>2, <2>3 DEF Crash
<1>2. Active' = {} /\ \A j \in Jobs : ~InStage(j, {"running"})' BY <1>1 DEF Active, InStage
<1>3. TypeOK' BY <1>1 DEF Crash, Inv, TypeOK
<1>4. SlotsOK' BY <1>2, FS_EmptySet, LimitAssumption DEF Crash, SlotsOK
<1>5. QueueOK' /\ WorkConserving' BY DEF Crash, QueueOK, WorkConserving
<1>6. LoadingOK' BY <1>1, <1>2 DEF Crash, LoadingOK, InStage
<1>7. LaunchedOK' BY <1>1 DEF Crash, Inv, TypeOK, LaunchedOK, InStage
<1>8. StatusOK' BY <1>1 DEF Inv, StatusOK, InStage
<1>9. DiskOK' BY <1>1 DEF Crash, Inv, DiskOK, InStage
<1> QED BY <1>3, <1>4, <1>5, <1>6, <1>7, <1>8, <1>9 DEF Inv

LEMMA RestoreStep == ASSUME Inv, NEW j \in Jobs, Restore(j) PROVE Inv'
<1>1. PICK status \in {"completed", "failed", "gone"}, file \in Files :
        /\ jobs' = Put(j, status, "done") /\ disk' = [disk EXCEPT ![j] = file]
        /\ file # "running"
        /\ file \in {"completed", "failed"} => file = status
        /\ status = "gone" => file = "unreadable"
  <2>1. CASE disk[j] = "unreadable"
    BY <2>1, JobFacts DEF Restore, Files
  <2>2. CASE disk[j] \in {"queued", "running"}
    BY <2>2, JobFacts DEF Restore, Files, JobStatuses, Inv, DiskOK, InStage
  <2>3. CASE disk[j] \in {"completed", "failed"}
    BY <2>3, JobFacts DEF Restore, Files, JobStatuses
  <2> QED BY <2>1, <2>2, <2>3, JobFacts DEF Files, JobStatuses
<1>2. /\ jobs' \in [Jobs -> Job] /\ jobs'[j].status = status /\ jobs'[j].stage = "done"
      /\ \A i \in Jobs : i # j => jobs'[i] = jobs[i]
  BY <1>1, JobFacts DEF Put, Job, JobStatuses, Stages
<1>3. jobs'[j] # NoJob BY <1>2 DEF NoJob
<1>4. j \in loading /\ loading' = loading \ {j} /\ UNCHANGED <<queue, engines, launched>>
  BY DEF Restore
<1>5. queue = <<>> /\ engines = {} /\ Active = {} /\ jobs[j].stage = "none" /\ jobs[j] # NoJob
  BY <1>4 DEF Inv, LoadingOK, InStage
<1>6. Active' = {} BY <1>2, <1>5 DEF Active, InStage
<1>7. TypeOK' BY <1>1, <1>2, <1>4 DEF Inv, TypeOK
<1>8. SlotsOK'
  <2>1. \A i \in Jobs : ~InStage(i, {"running"}) BY <1>5 DEF Active, InStage
  <2> QED BY <1>2, <1>4, <1>5, <1>6, <2>1, FS_EmptySet, LimitAssumption DEF SlotsOK, InStage
<1>9. QueueOK' /\ WorkConserving' BY <1>4, <1>5 DEF QueueOK, WorkConserving
<1>10. LoadingOK' BY <1>2, <1>4, <1>5, <1>6 DEF Inv, LoadingOK, InStage, TypeOK
<1>11. LaunchedOK' BY <1>2, <1>3, <1>4 DEF Inv, TypeOK, LaunchedOK, InStage
<1>12. StatusOK' BY <1>2 DEF Inv, StatusOK, InStage
<1>13. DiskOK'
  <2>1. disk'[j] = file /\ \A i \in Jobs : i # j => disk'[i] = disk[i] BY <1>1, JobFacts
  <2> QED BY <1>1, <1>2, <1>3, <2>1 DEF Inv, DiskOK, InStage
<1> QED BY <1>7, <1>8, <1>9, <1>10, <1>11, <1>12, <1>13 DEF Inv

----
\* The theorems.

LEMMA InvNext == ASSUME Inv, [Next]_vars PROVE Inv'
<1>1. CASE Next
  <2>1. CASE \E j \in Jobs, k \in Keys \cup {NoKey} : Submit(j, k) BY <2>1, SubmitStep
  <2>2. ASSUME NEW j \in Jobs, JobStep(j) PROVE Inv'
    BY <2>2, ReservedStep, ReserveFailsStep, RejectStep, LaunchedStep, LaunchFailsStep, EngineEndsStep,
       FinishedStep, StoredStep, StoreFailsStep, ClosedStep, RestoreStep DEF JobStep
  <2> QED BY <1>1, <2>1, <2>2, CrashStep DEF Next
<1>2. CASE UNCHANGED vars
  BY <1>2 DEF vars, Inv, TypeOK, QueueOK, SlotsOK, LoadingOK, LaunchedOK, StatusOK, DiskOK,
     WorkConserving, Active, InStage
<1> QED BY <1>1, <1>2

LEMMA AlwaysInv == Spec => []Inv
BY InvInit, InvNext, PTL DEF Spec

\* Every variable keeps to its type.
THEOREM WorkerTypeCorrect == Spec => []TypeOK
BY AlwaysInv, PTL DEF Inv

\* However submissions, failed launches and finished jobs pump the queue, there are never
\* more engine processes than the configured limit.
THEOREM EnginesLimited == Spec => []EngineLimit
<1>1. Inv => EngineLimit
  <2> SUFFICES ASSUME Inv PROVE EngineLimit OBVIOUS
  <2>1. engines \subseteq Active /\ Active \subseteq Jobs
    BY DEF Inv, SlotsOK, Active, InStage
  <2>2. IsFiniteSet(Active) /\ Cardinality(Active) \in Nat
    BY <2>1, JobsAssumption, FS_Subset, FS_CardinalityType
  <2>3. Cardinality(engines) <= Cardinality(Active) /\ Cardinality(engines) \in Nat
    BY <2>1, <2>2, FS_Subset, FS_CardinalityType
  <2> QED BY <2>2, <2>3, LimitAssumption DEF Inv, SlotsOK, EngineLimit
<1> QED BY <1>1, AlwaysInv, PTL

\* No wake-up of the queue is lost.
THEOREM NoLostWakeUp == Spec => []WorkConserving
BY AlwaysInv, PTL DEF Inv

\* No restart and no step starts a second engine for a job.
THEOREM EngineStartedOnce == Spec => NoRelaunch
<1> DEFINE Once == \A j \in Jobs : j \in launched => ~(j \in engines' /\ j \notin engines)
<1>1. Inv /\ [Next]_vars => [Once]_vars
  <2> SUFFICES ASSUME Inv, Next, NEW j \in launched, j \in engines', j \notin engines PROVE FALSE
    BY DEF Once
  <2>1. PICK i \in Jobs : Launched(i)
    BY DEF Next, JobStep, Submit, Reserved, ReserveFails, Reject, LaunchFails, EngineEnds, Finished,
       Stored, StoreFails, Closed, Restore, Crash
  <2>2. i = j BY <2>1 DEF Launched
  <2> QED BY <2>1, <2>2 DEF Launched, Inv, LaunchedOK, InStage
<1> QED BY <1>1, AlwaysInv, PTL DEF Spec, NoRelaunch

----
\* How the table changes.

\* A job keeps its key, its status changes as JobLifecycle says, and no job comes back.
Moves(old, new) ==
  /\ new.key = old.key
  /\ old.status \in JobStatuses => new.status \in Successors[old.status] \cup {old.status}
  /\ new.status \in JobStatuses => old.status \in JobStatuses

LEMMA PutMoves ==
  ASSUME Inv, NEW j \in Jobs, NEW status, NEW stage, jobs' = Put(j, status, stage),
         jobs[j].status \in JobStatuses => status \in Successors[jobs[j].status] \cup {jobs[j].status},
         status \in JobStatuses => jobs[j].status \in JobStatuses
  PROVE  \A i \in Jobs : Moves(jobs[i], jobs'[i])
<1>1. /\ jobs'[j].key = jobs[j].key /\ jobs'[j].status = status
      /\ \A i \in Jobs : i # j => jobs'[i] = jobs[i]
  BY JobFacts DEF Put, Job
<1> QED BY <1>1 DEF Moves

LEMMA PumpMoves ==
  ASSUME Inv, NEW j \in Jobs, NEW status \in JobStatuses, NEW stage \in Stages, NEW waiting,
         Pumped(Put(j, status, stage), waiting),
         jobs[j].status \in JobStatuses, status \in Successors[jobs[j].status] \cup {jobs[j].status},
         waiting \in {queue, Append(queue, j)}
  PROVE  \A i \in Jobs : Moves(jobs[i], jobs'[i])
<1> DEFINE table == Put(j, status, stage)
<1>1. /\ table \in [Jobs -> Job] /\ table[j].key = jobs[j].key /\ table[j].status = status
      /\ \A i \in Jobs : i # j => table[i] = jobs[i]
  BY JobFacts DEF Put, Job
<1>2. Pumped(table, waiting) OBVIOUS
<1> HIDE DEF table
<1>3. PICK n \in 0..Len(waiting) :
        jobs' = [i \in Jobs |-> IF \E k \in 1..n : waiting[k] = i THEN Taken(i, table[i])
                                ELSE table[i]]
  <2>1. waiting \in Seq(Jobs) BY JobFacts
  <2> QED BY <1>1, <1>2, <2>1, PumpPrefix
<1>4. \A k \in 1..Len(waiting) : waiting[k] \in Jobs /\ jobs[waiting[k]].status \in JobStatuses
  <2>1. \A k \in 1..Len(queue) : queue[k] \in Jobs /\ jobs[queue[k]].status = "queued"
    BY JobFacts DEF Inv, QueueOK, StatusOK, InStage
  <2> QED BY <2>1, JobFacts DEF JobStatuses
<1>5. ASSUME NEW i \in Jobs PROVE Moves(jobs[i], jobs'[i])
  <2>1. Moves(jobs[i], table[i]) /\ table[i] \in Job BY <1>1 DEF Moves
  <2>2. CASE jobs'[i] = table[i] BY <2>1, <2>2
  <2>3. CASE jobs'[i] # table[i]
    <3>1. jobs'[i] = Taken(i, table[i]) /\ jobs[i].status \in JobStatuses BY <1>3, <1>4, <2>3
    <3>2. jobs'[i].key = table[i].key /\ jobs'[i].status \in {table[i].status, "failed"}
      BY <2>1, <3>1, TakenIs
    <3>3. "failed" \in Successors[jobs[i].status] \cup {jobs[i].status}
      BY <3>1 DEF JobStatuses, Successors
    <3> QED BY <2>1, <3>1, <3>2, <3>3 DEF Moves
  <2> QED BY <2>2, <2>3
<1> QED BY <1>5

\* Every step but the submission of a job.
LEMMA OldJobsMove ==
  ASSUME Inv, (\E j \in Jobs : JobStep(j)) \/ Crash
  PROVE  \A i \in Jobs : Moves(jobs[i], jobs'[i])
<1>1. CASE Crash
  BY <1>1, JobFacts DEF Crash, Moves, Job
<1>2. ASSUME NEW j \in Jobs, JobStep(j) PROVE \A i \in Jobs : Moves(jobs[i], jobs'[i])
  <2>0. /\ InStage(j, {"reserving", "waiting", "launching"}) => jobs[j].status = "queued"
        /\ InStage(j, {"running", "finishing"}) => jobs[j].status = "running"
        /\ InStage(j, {"storing"}) => jobs[j].status \in {"completed", "failed"}
        /\ InStage(j, {"rejecting", "closing"}) => jobs[j].status = "failed"
    BY DEF Inv, StatusOK
  <2>1. CASE Reserved(j)
    <3>1. jobs[j].status = "queued" /\ Pumped(Put(j, "queued", "waiting"), Append(queue, j))
      BY <2>0, <2>1 DEF Reserved, InStage
    <3> QED BY <3>1, PumpMoves DEF JobStatuses, Stages
  <2>2. CASE ReserveFails(j)
    <3>1. jobs[j].status = "queued" /\ jobs' = Put(j, "gone", "done")
      BY <2>0, <2>2 DEF ReserveFails, InStage
    <3> QED BY <3>1, PutMoves DEF JobStatuses, Successors
  <2>3. CASE Launched(j)
    <3>1. jobs[j].status = "queued" /\ jobs' = Put(j, "running", "running")
      BY <2>0, <2>3 DEF Launched, InStage
    <3> QED BY <3>1, PutMoves DEF JobStatuses, Successors
  <2>4. CASE LaunchFails(j)
    <3>1. jobs[j].status = "queued" /\ jobs' = Put(j, "failed", "closing")
      BY <2>0, <2>4 DEF LaunchFails, InStage
    <3> QED BY <3>1, PutMoves DEF JobStatuses, Successors
  <2>11. CASE Reject(j)
    <3>1. jobs[j].status = "failed" /\ jobs' = Put(j, "failed", "closing")
      BY <2>0, <2>11 DEF Reject, InStage
    <3> QED BY <3>1, PutMoves DEF JobStatuses
  <2>5. CASE EngineEnds(j)
    <3>1. jobs[j].status = "running" /\ jobs' = Put(j, "running", "finishing")
      BY <2>0, <2>5 DEF EngineEnds, InStage
    <3> QED BY <3>1, PutMoves DEF JobStatuses
  <2>6. CASE Finished(j)
    <3>1. PICK status \in {"completed", "failed"}, stage \in Stages : jobs' = Put(j, status, stage)
      BY <2>6 DEF Finished, Stages
    <3>2. jobs[j].status = "running" BY <2>0, <2>6 DEF Finished, InStage
    <3> QED BY <3>1, <3>2, PutMoves DEF JobStatuses, Successors
  <2>7. CASE Stored(j)
    <3>1. /\ jobs[j].status \in {"completed", "failed"}
          /\ Pumped(Put(j, jobs[j].status, "done"), queue)
      BY <2>0, <2>7 DEF Stored, InStage
    <3> QED BY <3>1, PumpMoves DEF JobStatuses, Stages
  <2>8. CASE StoreFails(j)
    <3>1. jobs[j].status \in {"completed", "failed"} /\ jobs' = Put(j, "failed", "closing")
      BY <2>0, <2>8 DEF StoreFails, InStage
    <3> QED BY <3>1, PutMoves DEF JobStatuses, Successors
  <2>9. CASE Closed(j)
    <3>1. jobs[j].status = "failed" /\ Pumped(Put(j, "failed", "done"), queue)
      BY <2>0, <2>9 DEF Closed, InStage
    <3> QED BY <3>1, PumpMoves DEF JobStatuses, Stages
  <2>10. CASE Restore(j)
    <3>1. CASE disk[j] = "unreadable"
      <4>1. jobs' = Put(j, "gone", "done") BY <2>10, <3>1 DEF Restore
      <4>2. jobs[j].status \in JobStatuses => "gone" \in Successors[jobs[j].status]
        BY DEF JobStatuses, Successors
      <4> QED BY <4>1, <4>2, PutMoves DEF JobStatuses
    <3>2. CASE disk[j] # "unreadable"
      <4>1. PICK status \in {"completed", "failed"} :
              /\ jobs' = Put(j, status, "done")
              /\ status \in {disk[j], "failed"}
              /\ disk[j] \in {"completed", "failed"} => status = disk[j]
        BY <2>10, <3>2 DEF Restore, Inv, DiskOK
      <4>2. jobs[j].status \in JobStatuses
        <5>1. jobs[j] # NoJob /\ jobs[j].status # "gone" BY <3>2 DEF Inv, DiskOK
        <5> QED BY <5>1, JobFacts DEF Inv, StatusOK, Job
      <4>3. status \in Successors[jobs[j].status] \cup {jobs[j].status}
        BY <4>1, <4>2 DEF Inv, DiskOK, JobStatuses, Successors
      <4> QED BY <4>1, <4>2, <4>3, PutMoves
    <3> QED BY <3>1, <3>2
  <2> QED BY <1>2, <2>1, <2>2, <2>3, <2>4, <2>5, <2>6, <2>7, <2>8, <2>9, <2>10, <2>11
     DEF JobStep
<1> QED BY <1>1, <1>2

\* Whoever polls a job sees its status change as JobLifecycle says, across restarts too.
THEOREM LifecycleFollowed == Spec => FollowsJobLifecycle
<1> DEFINE Follows == \A j \in Jobs :
             LET old == jobs[j].status  new == jobs'[j].status IN
             old \in JobStatuses /\ new # old => new \in Successors[old]
<1>1. Inv /\ [Next]_vars => [Follows]_vars
  <2> SUFFICES ASSUME Inv, Next PROVE Follows OBVIOUS
  <2>1. ASSUME NEW j \in Jobs, NEW k \in Keys \cup {NoKey}, Submit(j, k) PROVE Follows
    <3>1. jobs[j].status = "absent" /\ \A i \in Jobs : i # j => jobs'[i] = jobs[i]
      BY <2>1, JobFacts DEF Submit, NoJob
    <3> QED BY <3>1 DEF JobStatuses
  <2>2. CASE (\E j \in Jobs : JobStep(j)) \/ Crash
    BY <2>2, OldJobsMove DEF Moves
  <2> QED BY <2>1, <2>2 DEF Next
<1> QED BY <1>1, AlwaysInv, PTL DEF Spec, FollowsJobLifecycle

\* Two jobs of which there is a record do not share a key.
KeysOK ==
  \A i, j \in Jobs :
    /\ jobs[i].status \in JobStatuses /\ jobs[j].status \in JobStatuses
    /\ jobs[i].key = jobs[j].key /\ i # j
    => jobs[i].key = NoKey

LEMMA KeysNext == ASSUME Inv, KeysOK, [Next]_vars PROVE KeysOK'
<1>1. ASSUME NEW j \in Jobs, NEW k \in Keys \cup {NoKey}, Submit(j, k) PROVE KeysOK'
  <2>1. jobs'[j].key = k /\ \A i \in Jobs : i # j => jobs'[i] = jobs[i]
    BY <1>1, JobFacts DEF Submit
  <2>2. k # NoKey => \A i \in Jobs : jobs[i].status \in JobStatuses => jobs[i].key # k
    BY <1>1 DEF Submit, Known
  <2> QED BY <2>1, <2>2 DEF KeysOK
<1>2. CASE (\E j \in Jobs : JobStep(j)) \/ Crash
  <2>1. \A i \in Jobs : Moves(jobs[i], jobs'[i]) BY <1>2, OldJobsMove
  <2> QED BY <2>1 DEF Moves, KeysOK
<1>3. CASE UNCHANGED vars BY <1>3 DEF vars, KeysOK
<1> QED BY <1>1, <1>2, <1>3 DEF Next

\* Two requests that carry one key never both start an engine, unless a record was lost.
THEOREM KeyStartsOneEngine == Spec => []OneEnginePerKey
<1>1. Init => KeysOK BY DEF Init, KeysOK, NoJob, JobStatuses
<1>2. Inv /\ KeysOK => OneEnginePerKey
  <2> SUFFICES ASSUME Inv, KeysOK, NEW i \in launched, NEW j \in launched,
                      jobs[i].key = jobs[j].key, jobs[i].key # NoKey, i # j
               PROVE  "gone" \in {jobs[i].status, jobs[j].status}
    BY DEF OneEnginePerKey
  <2>1. i \in Jobs /\ j \in Jobs /\ jobs[i] # NoJob /\ jobs[j] # NoJob
    BY DEF Inv, TypeOK, LaunchedOK
  <2>2. jobs[i].status \in JobStatuses \cup {"gone"} /\ jobs[j].status \in JobStatuses \cup {"gone"}
    BY <2>1, JobFacts DEF Inv, StatusOK, Job
  <2> QED BY <2>1, <2>2 DEF KeysOK
<1> QED BY <1>1, <1>2, KeysNext, AlwaysInv, PTL DEF Spec

----
\* Why every job ends, as far as it is safety: a job's own steps lead to its end, and while a
\* job is not through there is one whose step is possible.

\* How many steps a job may still take. A job that is still to be read back has one.
Remaining(stage) ==
  CASE stage = "reserving" -> 7
    [] stage = "waiting" -> 6
    [] stage = "launching" -> 5
    [] stage = "running" -> 4
    [] stage = "finishing" -> 3
    [] stage \in {"rejecting", "storing"} -> 2
    [] stage \in {"closing", "none"} -> 1
    [] OTHER -> 0

\* Job j has come nearer to its end, and no other job further from it.
NearerEnd(j) ==
  /\ Remaining(jobs'[j].stage) < Remaining(jobs[j].stage)
  /\ \A i \in Jobs : Remaining(jobs'[i].stage) <= Remaining(jobs[i].stage)

\* No job that waits has dropped out of the queue.
WaitersQueued ==
  \A j \in Jobs : InStage(j, {"waiting"}) => \E i \in 1..Len(queue) : queue[i] = j

\* A job that is not through, and one whose own step is possible (the guards of JobStep).
Pending(j) == ~InStage(j, {"none", "done"}) \/ j \in loading

CanGoOn(j) == IF Up THEN ~InStage(j, {"none", "waiting", "done"}) ELSE j \in loading

NobodyStuck == \A j \in Jobs : Pending(j) => \E i \in Jobs : CanGoOn(i)

\* What pumpQueue leaves alone and what it moves, for a table with a free slot for each
\* entry it takes.
LEMMA PumpTakes ==
  ASSUME NEW table \in [Jobs -> Job], NEW waiting \in Seq(Jobs), Pumped(table, waiting),
         Cardinality({j \in Jobs : table[j].stage \in {"launching", "running"}}) <= Limit,
         \A i \in 1..Len(waiting) : table[waiting[i]].stage = "waiting"
  PROVE  /\ \A j \in Jobs : \/ jobs'[j] = table[j]
                            \/ /\ table[j].stage = "waiting"
                               /\ jobs'[j].stage \in {"launching", "rejecting"}
         /\ (\A j \in Jobs : table[j].stage = "waiting" => \E i \in 1..Len(waiting) : waiting[i] = j)
              => WaitersQueued'
<1>1. PICK n \in 0..Len(waiting) :
        /\ jobs' = [j \in Jobs |-> IF \E i \in 1..n : waiting[i] = j THEN Taken(j, table[j])
                                   ELSE table[j]]
        /\ queue' = SubSeq(waiting, n + 1, Len(waiting))
  BY PumpPrefix
<1> DEFINE next == {waiting[i] : i \in 1..n}
<1>2. n \in 0..Len(waiting) OBVIOUS
<1>3. \A x : x \in next <=> \E i \in 1..n : x = waiting[i] OBVIOUS
<1> HIDE DEF next
<1>4. \A j \in next : table[j].stage = "waiting" BY <1>2, <1>3
<1>5. \A j \in Jobs : table[j] \in Job OBVIOUS
<1>6. \A j \in next \cap Jobs : jobs'[j].stage \in {"launching", "rejecting"}
  BY <1>1, <1>3, <1>5, TakenIs
<1>7. \A j \in Jobs \ next : jobs'[j] = table[j] BY <1>1, <1>3
<1>8. ASSUME \A j \in Jobs : table[j].stage = "waiting" => \E i \in 1..Len(waiting) : waiting[i] = j,
             NEW j \in Jobs, jobs'[j].stage = "waiting"
      PROVE  \E i \in 1..Len(queue') : queue'[i] = j
  <2>1. j \notin next /\ table[j].stage = "waiting" BY <1>6, <1>7, <1>8
  <2>2. PICK i \in 1..Len(waiting) : waiting[i] = j BY <1>8, <2>1
  <2>3. i - n \in 1..(Len(waiting) - n) BY <1>2, <1>3, <2>1, <2>2
  <2>4. Len(queue') = Len(waiting) - n /\ queue'[i - n] = waiting[i] BY <1>1, <1>2, <2>3
  <2> QED BY <2>2, <2>3, <2>4
<1> QED BY <1>4, <1>6, <1>7, <1>8 DEF WaitersQueued, InStage

\* Such a table arises when a job is put into the queue, or is through.
LEMMA PumpAfter ==
  ASSUME Inv, NEW j \in Jobs, NEW status \in JobStatuses, NEW stage, NEW waiting,
         Pumped(Put(j, status, stage), waiting),
         \/ stage = "waiting" /\ jobs[j].stage = "reserving" /\ waiting = Append(queue, j)
         \/ stage = "done" /\ jobs[j].stage \in {"storing", "closing"} /\ waiting = queue
  PROVE  NearerEnd(j) /\ (WaitersQueued => WaitersQueued')
<1> DEFINE table == Put(j, status, stage)
<1>1. jobs \in [Jobs -> Job] /\ queue \in Seq(Jobs) BY JobFacts
<1>2. /\ table \in [Jobs -> Job] /\ table[j].stage = stage
      /\ \A i \in Jobs : i # j => table[i] = jobs[i]
  BY <1>1 DEF Put, Job, JobStatuses, Stages
<1>3. Pumped(table, waiting) OBVIOUS
<1> HIDE DEF table
<1>4. waiting \in Seq(Jobs) BY <1>1
<1>5. {i \in Jobs : table[i].stage \in {"launching", "running"}} = Active
  BY <1>2 DEF Active, InStage
<1>6. Cardinality({i \in Jobs : table[i].stage \in {"launching", "running"}}) <= Limit
  BY <1>5 DEF Inv, SlotsOK
<1>7. \A i \in 1..Len(queue) : queue[i] \in Jobs /\ jobs[queue[i]].stage = "waiting"
  BY <1>1 DEF Inv, QueueOK, InStage
<1>8. \A i \in 1..Len(queue) : table[queue[i]].stage = "waiting" BY <1>2, <1>7
<1>9. \A i \in 1..Len(waiting) : table[waiting[i]].stage = "waiting"
  BY <1>1, <1>2, <1>8
<1>10. \A i \in Jobs : \/ jobs'[i] = table[i]
                       \/ /\ table[i].stage = "waiting"
                          /\ jobs'[i].stage \in {"launching", "rejecting"}
  BY <1>2, <1>3, <1>4, <1>6, <1>9, PumpTakes
<1>11. NearerEnd(j)
  <2>1. /\ Remaining("launching") = 5 /\ Remaining("rejecting") = 2 /\ Remaining("waiting") = 6
    BY DEF Remaining
  <2>2. Remaining(stage) < Remaining(jobs[j].stage) BY DEF Remaining
  <2>3. \A i \in Jobs : Remaining(jobs'[i].stage) <= Remaining(table[i].stage)
    <3>1. \A any : Remaining(any) \in Nat BY DEF Remaining
    <3> QED BY <1>10, <2>1, <3>1
  <2>4. \A any : Remaining(any) \in Nat BY DEF Remaining
  <2> QED BY <1>2, <2>2, <2>3, <2>4 DEF NearerEnd
<1>12. ASSUME WaitersQueued PROVE WaitersQueued'
  <2>1. \A i \in Jobs : table[i].stage = "waiting" => \E k \in 1..Len(waiting) : waiting[k] = i
    <3> SUFFICES ASSUME NEW i \in Jobs, table[i].stage = "waiting"
                 PROVE  \E k \in 1..Len(waiting) : waiting[k] = i
      OBVIOUS
    <3>1. CASE i = j
      <4>1. waiting = Append(queue, j) BY <1>2, <3>1
      <4> QED BY <1>1, <3>1, <4>1
    <3>2. CASE i # j
      <4>1. PICK k \in 1..Len(queue) : queue[k] = i BY <1>2, <1>12, <3>2 DEF WaitersQueued, InStage
      <4>2. k \in 1..Len(waiting) /\ waiting[k] = i BY <1>1, <4>1
      <4> QED BY <4>2
    <3> QED BY <3>1, <3>2
  <2> QED BY <1>2, <1>3, <1>4, <1>6, <1>9, <2>1, PumpTakes
<1> QED BY <1>11, <1>12

\* A step of one job that leaves the queue alone.
LEMMA PutAfter ==
  ASSUME Inv, NEW j \in Jobs, NEW status, NEW stage, jobs' = Put(j, status, stage),
         UNCHANGED queue, stage # "waiting", Remaining(stage) < Remaining(jobs[j].stage)
  PROVE  NearerEnd(j) /\ (WaitersQueued => WaitersQueued')
<1>1. jobs'[j].stage = stage /\ \A i \in Jobs : i # j => jobs'[i] = jobs[i]
  BY JobFacts DEF Put, Job
<1>2. \A any : Remaining(any) \in Nat BY DEF Remaining
<1> QED BY <1>1, <1>2 DEF NearerEnd, WaitersQueued, InStage

LEMMA JobStepAfter ==
  ASSUME Inv, NEW j \in Jobs, JobStep(j)
  PROVE  NearerEnd(j) /\ (WaitersQueued => WaitersQueued')
<1>1. CASE Reserved(j)
  BY <1>1, PumpAfter DEF Reserved, InStage, JobStatuses
<1>2. CASE Stored(j)
  <2>1. jobs[j].status \in JobStatuses BY <1>2 DEF Stored, Inv, StatusOK, InStage, JobStatuses
  <2> QED BY <1>2, <2>1, PumpAfter DEF Stored, InStage
<1>3. CASE Closed(j)
  BY <1>3, PumpAfter DEF Closed, InStage, JobStatuses
<1>4. CASE ReserveFails(j) \/ Reject(j) \/ Launched(j) \/ LaunchFails(j) \/ EngineEnds(j)
  BY <1>4, PutAfter DEF ReserveFails, Reject, Launched, LaunchFails, EngineEnds, InStage, Remaining
<1>5. CASE Finished(j) \/ StoreFails(j)
  BY <1>5, PutAfter DEF Finished, StoreFails, InStage, Remaining
<1>6. CASE Restore(j)
  <2>1. jobs[j].stage = "none" BY <1>6 DEF Restore, Inv, LoadingOK, InStage
  <2>2. \E status : jobs' = Put(j, status, "done") BY <1>6 DEF Restore
  <2>3. UNCHANGED queue BY <1>6 DEF Restore
  <2> QED BY <2>1, <2>2, <2>3, PutAfter DEF Remaining
<1> QED BY <1>1, <1>2, <1>3, <1>4, <1>5, <1>6 DEF JobStep

LEMMA WaitersNext == ASSUME Inv, WaitersQueued, [Next]_vars PROVE WaitersQueued'
<1>1. ASSUME NEW j \in Jobs, NEW k \in Keys \cup {NoKey}, Submit(j, k) PROVE WaitersQueued'
  BY <1>1, JobFacts DEF Submit, WaitersQueued, InStage
<1>2. ASSUME NEW j \in Jobs, JobStep(j) PROVE WaitersQueued' BY <1>2, JobStepAfter
<1>3. CASE Crash
  BY <1>3, JobFacts DEF Crash, WaitersQueued, InStage, NoJob, Job
<1>4. CASE UNCHANGED vars BY <1>4 DEF vars, WaitersQueued, InStage
<1> QED BY <1>1, <1>2, <1>3, <1>4 DEF Next

\* Every step of a job brings it nearer to its end and throws no other job back. The number of
\* steps is bounded by 7 for each job, until the next submission or crash.
THEOREM JobsRunOut == Spec => [][\A j \in Jobs : JobStep(j) => NearerEnd(j)]_vars
<1>1. Inv => \A j \in Jobs : JobStep(j) => NearerEnd(j) BY JobStepAfter
<1> QED BY <1>1, AlwaysInv, PTL DEF Spec

\* While some job is not through, some job can take its step: whoever waits is in the queue,
\* and then a slot is taken by a job that goes on, or a job that pumps the queue is about to
\* end. Together with JobsRunOut this is why fair steps bring every job to its end.
THEOREM SomeJobGoesOn == Spec => []NobodyStuck
<1>1. Init => WaitersQueued BY DEF Init, WaitersQueued, InStage, NoJob
<1>2. Inv /\ WaitersQueued => NobodyStuck
  <2> SUFFICES ASSUME Inv, WaitersQueued, NEW j \in Jobs, Pending(j)
               PROVE  \E i \in Jobs : CanGoOn(i)
    BY DEF NobodyStuck
  <2>1. CASE ~Up BY <2>1 DEF Up, CanGoOn, Inv, TypeOK
  <2>2. CASE Up /\ ~InStage(j, {"waiting"}) BY <2>2 DEF Up, Pending, CanGoOn, InStage
  <2>3. CASE Up /\ InStage(j, {"waiting"})
    <3>1. queue # <<>> BY <2>3 DEF WaitersQueued
    <3>2. Cardinality(Active) = Limit \/ \E i \in Jobs : InStage(i, {"rejecting", "finishing", "storing", "closing"})
      BY <3>1 DEF Inv, WorkConserving
    <3>3. Cardinality(Active) = Limit => Active # {} BY FS_EmptySet, LimitAssumption
    <3>4. \E i \in Jobs :
            InStage(i, {"rejecting", "launching", "running", "finishing", "storing", "closing"})
      BY <3>2, <3>3 DEF Active, InStage
    <3> QED BY <2>3, <3>4 DEF CanGoOn, InStage
  <2> QED BY <2>1, <2>2, <2>3
<1> QED BY <1>1, <1>2, WaitersNext, AlwaysInv, PTL DEF Spec
====
