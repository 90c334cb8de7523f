---- MODULE WriterLease ----
\* Server processes that share one storage directory: the writer lease and the ledger
\* rewrite it guards. Every file operation of acquireStorageLease and writeLedger is a
\* step of its own, so that other processes, the clock and a kill come in between.
EXTENDS Integers, FiniteSets

CONSTANTS
  Procs,     \* process incarnations (host, pid, startedAt)
  Host,      \* os.hostname() of each
  Pid,       \* process.pid of each: two incarnations on a host may have had the same one
  MayEnd,    \* the incarnations that may exit or be killed
  Writes,    \* the changes the processes are asked to store
  Stale,     \* storageLeaseStaleSeconds()
  MaxClock,  \* bound on the clock
  Nobody

ASSUME IdentityAssumption ==
  MayEnd \subseteq Procs /\ DOMAIN Host = Procs /\ DOMAIN Pid = Procs
ASSUME ClockAssumption == Stale \in Nat /\ MaxClock \in Nat
ASSUME NobodyAssumption == Nobody \notin Procs \cup Writes

VARIABLES
  procs,     \* what each process is doing
  lease,     \* writer-lease.json
  ledger,    \* sim2real.json: the changes it contains
  accepted,  \* the changes whose writer was told they are stored
  clock,
  trampled   \* history: a takeover has renamed over a running process's lease it never judged

leaseVars == <<procs, lease, ledger, accepted, clock, trampled>>

\* An exclusive create makes the file before its content: it is "partial" in between.
Absent == [kind |-> "absent", by |-> Nobody, beat |-> 0]
Lease == [kind : {"absent", "partial", "record"}, by : Procs \cup {Nobody}, beat : 0..MaxClock]

Steps == {"off", "idle", "loaded", "acquire", "judge", "create", "fill", "undo", "replace",
          "enter", "write", "exit", "gone", "killed"}

\* One serialized ledger operation: the ledger it started from, the change it makes, the
\* time it took at the start of the acquisition, the attempt, the lease file as it was
\* read; "held" is heldLeaseDirs.
Proc == [step : Steps, base : SUBSET Writes, write : Writes \cup {Nobody},
         now : 0..MaxClock, attempt : {0, 1}, seen : Lease, held : BOOLEAN]

Off == [step |-> "off", base |-> {}, write |-> Nobody, now |-> 0, attempt |-> 0,
        seen |-> Absent, held |-> FALSE]

LeaseInit ==
  /\ procs = [p \in Procs |-> Off]
  /\ lease = Absent
  /\ ledger = {}
  /\ accepted = {}
  /\ clock = 0
  /\ trampled = FALSE

----
At(p, step) == procs[p].step = step

Ended(p) == At(p, "gone") \/ At(p, "killed")

Running(p) == ~At(p, "off") /\ ~Ended(p)

Go(p, step) == procs' = [procs EXCEPT ![p].step = step]

\* The operation ends, with the change stored or refused.
Done(p) ==
  procs' = [procs EXCEPT ![p] = [Off EXCEPT !.step = "idle", !.held = procs[p].held]]

\* Mutant: the pid probe is not made.
BadIsProcessAlive(p, pid) == FALSE

\* isProcessAlive: some process on this host has the pid.
IsProcessAlive(p, pid) == \E q \in Procs : Running(q) /\ Host[q] = Host[p] /\ Pid[q] = pid

\* Mutant: a heartbeat never goes stale.
BadHeartbeatVerdict(beat, now) == "conflict"

\* heartbeatVerdict
HeartbeatVerdict(beat, now) == IF now - beat > Stale THEN "takeover" ELSE "conflict"

\* evaluateLease, for a record.
EvaluateLease(p, record) ==
  LET q == record.by
      sameHost == Host[q] = Host[p] IN
  CASE q = p -> "renew"
    [] q # p /\ sameHost /\ Pid[q] # Pid[p] ->
         IF IsProcessAlive(p, Pid[q]) THEN "conflict" ELSE "takeover"
    [] OTHER -> HeartbeatVerdict(record.beat, procs[p].now)

----
\* A pid is given to one process at a time, and never to an incarnation that has ended.
Boot(p) ==
  /\ At(p, "off")
  /\ ~IsProcessAlive(p, Pid[p])
  /\ Go(p, "idle")
  /\ UNCHANGED <<lease, ledger, accepted, clock, trampled>>

\* A store operation reads the ledger and applies its change in memory.
ReadLedger(p, w) ==
  /\ At(p, "idle")
  /\ w \notin accepted
  /\ \A q \in Procs : procs[q].write # w
  /\ procs' = [procs EXCEPT ![p].step = "loaded", ![p].base = ledger, ![p].write = w]
  /\ UNCHANGED <<lease, ledger, accepted, clock, trampled>>

\* writeLedger calls acquireStorageLease, which takes the time once.
StartAcquire(p) ==
  /\ At(p, "loaded")
  /\ procs' = [procs EXCEPT ![p].step = "acquire", ![p].now = clock]
  /\ UNCHANGED <<lease, ledger, accepted, clock, trampled>>

\* readStorageLease awaits the file; what it names may end before it is judged.
ReadLease(p) ==
  /\ At(p, "acquire")
  /\ procs' = [procs EXCEPT ![p].step = "judge", ![p].seen = lease]
  /\ UNCHANGED <<lease, ledger, accepted, clock, trampled>>

\* Where a verdict leads.
Course(p) ==
  LET seen == procs[p].seen
      verdict == CASE seen.kind = "absent" -> "acquire"
                   [] seen.kind = "partial" -> "conflict"
                   [] seen.kind = "record" -> EvaluateLease(p, seen) IN
  CASE verdict = "acquire" -> "create"
    [] verdict \in {"renew", "takeover"} -> "replace"
    [] verdict = "conflict" -> "idle"

\* evaluateLease, on what was read: a file that cannot be parsed is a conflict.
JudgeLease(p) ==
  /\ At(p, "judge")
  /\ IF Course(p) = "idle" THEN Done(p)
     ELSE Go(p, Course(p))
  /\ UNCHANGED <<lease, ledger, accepted, clock, trampled>>

\* Mutant: the file is opened without O_EXCL.
BadCreateLease(p) ==
  /\ At(p, "create")
  /\ lease' = [kind |-> "partial", by |-> p, beat |-> 0]
  /\ Go(p, "fill")
  /\ UNCHANGED <<ledger, accepted, clock, trampled>>

\* open(file, 'wx'): the loser of the race gets EEXIST and tries once more.
CreateLease(p) ==
  /\ At(p, "create")
  /\ \/ /\ lease.kind = "absent"
        /\ lease' = [kind |-> "partial", by |-> p, beat |-> 0]
        /\ Go(p, "fill")
     \/ /\ lease.kind # "absent"
        /\ procs[p].attempt = 0
        /\ procs' = [procs EXCEPT ![p].step = "acquire", ![p].attempt = 1]
        /\ UNCHANGED lease
     \/ /\ lease.kind # "absent"
        /\ procs[p].attempt = 1
        /\ Done(p)
        /\ UNCHANGED lease
  /\ UNCHANGED <<ledger, accepted, clock, trampled>>

OwnLease(p) == [kind |-> "record", by |-> p, beat |-> procs[p].now]

\* The content follows, through the open file: should another process have renamed a file
\* over it or removed it meanwhile, what is there stays.
Filled(p) == IF lease.kind = "partial" /\ lease.by = p THEN OwnLease(p) ELSE lease

FillLease(p) ==
  /\ At(p, "fill")
  /\ lease' = Filled(p)
  /\ Go(p, "enter")
  /\ UNCHANGED <<ledger, accepted, clock, trampled>>

\* A full disk, before or after the content is there: the file that was just created is
\* removed again, whatever is there by then, unless that fails too.
FillFails(p) ==
  /\ At(p, "fill")
  /\ lease' \in {lease, Filled(p)}
  /\ Go(p, "undo")
  /\ UNCHANGED <<ledger, accepted, clock, trampled>>

UndoCreate(p) ==
  /\ At(p, "undo")
  /\ lease' \in {lease, Absent}
  /\ Done(p)
  /\ UNCHANGED <<ledger, accepted, clock, trampled>>

\* What p would rename over is not what it judged but the lease of another running process.
Tramples(p) ==
  lease # procs[p].seen /\ lease.kind # "absent" /\ lease.by # p /\ Running(lease.by)

\* A renewal and a takeover rename a complete file over whatever is there by now.
ReplaceLease(p) ==
  /\ At(p, "replace")
  /\ lease' = OwnLease(p)
  /\ trampled' = (trampled \/ Tramples(p))
  /\ procs' = [procs EXCEPT ![p].step = "enter", ![p].seen = Absent]
  /\ UNCHANGED <<ledger, accepted, clock>>

\* Once writeStorageLease has returned, heldLeaseDirs tells the exit hook.
EnterHeld(p) ==
  /\ At(p, "enter")
  /\ procs' = [procs EXCEPT ![p].step = "write", ![p].held = TRUE]
  /\ UNCHANGED <<lease, ledger, accepted, clock, trampled>>

\* The new ledger is renamed over the old one.
WriteLedger(p) ==
  /\ At(p, "write")
  /\ ledger' = procs[p].base \cup {procs[p].write}
  /\ accepted' = accepted \cup {procs[p].write}
  /\ Done(p)
  /\ UNCHANGED <<lease, clock, trampled>>

\* A full disk before one of the two renames.
WriteFails(p) ==
  /\ procs[p].step \in {"replace", "write"}
  /\ Done(p)
  /\ UNCHANGED <<lease, ledger, accepted, clock, trampled>>

\* Mutant: the exit hook removes whatever lease is there.
BadExit(p) ==
  /\ p \in MayEnd
  /\ Running(p) /\ ~At(p, "exit")
  /\ procs' = [procs EXCEPT ![p] = [Off EXCEPT !.step =
       IF lease.kind = "record" THEN "exit" ELSE "gone"]]
  /\ UNCHANGED <<lease, ledger, accepted, clock, trampled>>

\* process.exit, in whatever the process is doing: the exit hook reads the lease and
\* removes it if it is its own.
Exit(p) ==
  /\ p \in MayEnd
  /\ Running(p) /\ ~At(p, "exit")
  /\ procs' = [procs EXCEPT ![p] = [Off EXCEPT !.step =
       IF procs[p].held /\ lease.kind = "record" /\ lease.by = p THEN "exit" ELSE "gone"]]
  /\ UNCHANGED <<lease, ledger, accepted, clock, trampled>>

RemoveLease(p) ==
  /\ At(p, "exit")
  /\ lease' = Absent
  /\ Go(p, "gone")
  /\ UNCHANGED <<ledger, accepted, clock, trampled>>

\* SIGKILL cannot be trapped.
Kill(p) ==
  /\ p \in MayEnd
  /\ Running(p)
  /\ procs' = [procs EXCEPT ![p] = [Off EXCEPT !.step = "killed"]]
  /\ UNCHANGED <<lease, ledger, accepted, clock, trampled>>

Tick ==
  /\ clock < MaxClock
  /\ clock' = clock + 1
  /\ UNCHANGED <<procs, lease, ledger, accepted, trampled>>

LeaseNext ==
  \/ \E p \in Procs, w \in Writes : ReadLedger(p, w)
  \/ \E p \in Procs :
       \/ Boot(p) \/ StartAcquire(p) \/ ReadLease(p) \/ JudgeLease(p) \/ CreateLease(p)
       \/ FillLease(p) \/ FillFails(p) \/ UndoCreate(p) \/ ReplaceLease(p) \/ EnterHeld(p)
       \/ WriteLedger(p) \/ WriteFails(p)
       \/ Exit(p) \/ RemoveLease(p) \/ Kill(p)
  \/ Tick

LeaseSpec == LeaseInit /\ [][LeaseNext]_leaseVars

\* Time passes, processes are scheduled, clients keep asking each of them for writes, and
\* the disk does not fail for ever.
Proceed(p) ==
  \/ Boot(p) \/ StartAcquire(p) \/ ReadLease(p) \/ JudgeLease(p) \/ CreateLease(p)
  \/ UndoCreate(p) \/ EnterHeld(p) \/ RemoveLease(p)

Store(p) == FillLease(p) \/ ReplaceLease(p) \/ WriteLedger(p)

LeaseFairSpec ==
  /\ LeaseSpec
  /\ WF_leaseVars(Tick)
  /\ \A p \in Procs :
       /\ WF_leaseVars(Proceed(p))
       /\ SF_leaseVars(\E w \in Writes : ReadLedger(p, w))
       /\ SF_leaseVars(Store(p))

----
\* Properties.

\* Every variable keeps to its type.
LeaseTypeOK ==
  /\ procs \in [Procs -> Proc]
  /\ lease \in Lease
  /\ ledger \subseteq Writes /\ accepted \subseteq Writes
  /\ clock \in 0..MaxClock
  /\ trampled \in BOOLEAN

\* Never do two processes rewrite the ledger at the same time.
OneWriter == \A p, q \in Procs : At(p, "write") /\ At(q, "write") => p = q

\* The exclusive create, the pid probe and the exit hook keep the processes of a host apart
\* however they start, fail, exit or are killed, up to one hole: the rename of a takeover
\* does not look again at what it replaces. A process that judged the lease of a dead one
\* tramples on whoever has taken or created the lease since; then both are writers.
OneWriterUnlessTrampled == ~trampled => OneWriter

\* "A small <storageDir>/writer-lease.json makes the second writer fail fast instead of
\* silently corrupting accepted data": what a process was told is stored stays stored.
AcceptedSurvives == accepted \subseteq ledger

\* "A takeover by another instance must survive our exit": a complete lease disappears
\* only by the hand of the process it names, as it exits or undoes a create that failed,
\* up to the same hole.
ReleasesOwnLease ==
  [][~trampled /\ lease.kind = "record" /\ lease'.kind = "absent" =>
       At(lease.by, "exit") \/ At(lease.by, "undo")]_leaseVars

\* "A long-lived process is never mistaken for a dead one": nobody decides to take over the
\* lease of a process of its host that is running, not even one that was given the pid of a
\* dead process.
LiveNeverMistaken ==
  [][\A p \in Procs :
       At(p, "judge") /\ procs'[p].step = "replace" /\ procs[p].seen.by # p =>
         Ended(procs[p].seen.by) \/ Host[procs[p].seen.by] # Host[p]]_leaseVars

\* A dead process holds the lease, while there is something left to write and the clock of
\* the model has not run out.
Abandoned ==
  /\ lease.kind = "record"
  /\ Ended(lease.by)
  /\ lease.beat + Stale < MaxClock
  /\ accepted # Writes

\* The complete lease of a dead writer gives way to the next one, by the pid probe on the
\* same host and by the heartbeat across hosts and for a recycled pid.
DeadWriterReplaced == Abandoned ~> ~Abandoned
====
