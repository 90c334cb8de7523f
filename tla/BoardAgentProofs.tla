---- MODULE BoardAgentProofs ----
\* Theorems about BoardAgent for every number of threads, runtimes, requests and faults.
EXTENDS BoardAgent, TLAPS

----
\* The inductive invariant.

\* A runtime the agent does not track is dead, unless one was lost.
TrackOK == ~lost => \A r \in Runtimes : Live(r) => r = tracked

\* What a stop still has to bring to rest is moving.
MovedOK == \A h \in Handlers : moved[h] \subseteq {r \in Runtimes : proc[r].st = "moving"}

\* An agent hands a number out once, and a number it has not reached yet is one that the
\* agent before it left.
SeqOK ==
  /\ lastOp.seq <= seq \/ lastOp.seq \in stale
  /\ file.seq <= seq \/ file.seq \in stale
  /\ \A h \in Handlers : handler[h].seq <= seq

\* What this agent's processes have been told. They outlive no agent, so a process that lived
\* when the file was written was told by this agent, and what makes a process move, or is
\* answered while it moves, was said by this agent.
FreshOK ==
  /\ file.by \subseteq Spawned
  /\ \A r \in file.by : Live(r) => file.seq <= seq
  /\ \A r \in Runtimes : proc[r].st = "moving" =>
       /\ r \in file.by \/ file.op = "none"
       /\ ~lost => lastOp.seq <= seq

\* Nothing is left to bring to rest for a stop.
Quiet(h) == handler[h].kind \in Stops /\ ~lost => moved[h] = {}

\* A thread that waits for its number: the file holds that number only with the thread's own
\* command, and an acknowledgement of success only follows its execution, which for a stop
\* means that nothing is left to bring to rest. Where the number was left by the agent before,
\* that acknowledgement may be in the state file already, but then nothing was moving.
Waiting(h) ==
  /\ file.op # "none" /\ file.seq = handler[h].seq => file.op = OpOf(handler[h].kind)
  /\ lastOp.ok /\ lastOp.seq = handler[h].seq =>
       handler[h].done \/ (handler[h].seq \in stale /\ Quiet(h))
  /\ handler[h].done => Quiet(h)

AckOK == \A h \in Handlers : At(h, "ack") => Waiting(h)

\* The steps that follow a stop of the policy runtime.
StopOK ==
  \A h \in Handlers :
    /\ handler[h].kind \in Stops /\ ~lost
    /\ \/ At(h, "forget")
       \/ At(h, "zero") /\ handler[h].kind = "pstop"
    => moved[h] = {}

\* A start from before a runtime was spawned finds that runtime without a model.
FileOK ==
  file.op = "start" =>
    \A r \in Runtimes : r \notin file.by => proc[r].st \notin {"ready", "moving"}

\* Which requests get to which steps.
Fits(kind, step) ==
  /\ step \in {"lock", "handshake"} => kind = "drive"
  /\ step \in {"zero", "alive", "kill", "forget"} => kind \in Stops
  /\ step \in {"unpublish", "ensure", "wait", "write", "ack"} =>
       kind \in {"start", "load"} \cup Stops

KindOK == \A h \in Handlers : Fits(handler[h].kind, handler[h].step)

Inv == TypeOK /\ KindOK /\ MotionHasWindow /\ TrackOK /\ MovedOK /\ SeqOK /\ FreshOK /\ AckOK
       /\ StopOK /\ FileOK

----
TextType == [seq : Nat, op : Ops, arg : 1..2]
ProcType == [st : Up \cup {"none", "boot", "dead"}, seen : TextType]
FileType == [seq : Nat, op : Ops, arg : 1..2, by : SUBSET Runtimes]
HandlerType == [kind : Kinds \cup {"none"}, step : Steps, seq : Nat, done : BOOLEAN]

LEMMA DeadType == Dead \in ProcType
BY DEF Dead, NoText, ProcType, TextType, Ops

LEMMA ProcTyped == TypeOK => proc \in [Runtimes -> ProcType]
BY DEF TypeOK, ProcType, TextType

LEMMA InvInit == Init => Inv
<1> SUFFICES ASSUME Init PROVE Inv OBVIOUS
<1>1. handler \in [Handlers -> HandlerType]
  BY DEF Init, Idle, HandlerType, Steps, Ended
<1>2. active \in BOOLEAN /\ adrift \in BOOLEAN /\ watchdog \in BOOLEAN /\ lost \in BOOLEAN /\ ready \in BOOLEAN
  BY Zenon DEF Init
<1>6. arrived \in 0..MaxRequests /\ faults \in 0..MaxFaults /\ seq \in Nat
  BY BoundsAssumption DEF Init
<1>7. TypeOK
  BY <1>1, <1>2, <1>6 DEF Init, TypeOK, HandlerType, NoCommand, NoText, Ops, None
<1>3. ~lost /\ \A r \in Runtimes : ~Live(r) BY DEF Init, Live, Up
<1>4. TrackOK /\ MovedOK /\ MotionHasWindow BY <1>3 DEF Init, TrackOK, MovedOK, MotionHasWindow
<1>5. KindOK /\ SeqOK /\ FreshOK /\ AckOK /\ StopOK /\ FileOK
  BY DEF Init, Idle, KindOK, Fits, SeqOK, FreshOK, AckOK, StopOK, FileOK, At, NoCommand
<1> QED BY <1>4, <1>5, <1>7 DEF Inv

----
\* The next step of a thread.

\* A thread goes on, or ends, and the others stay where they are.
LEMMA GoOn ==
  ASSUME TypeOK, NEW h \in Handlers, NEW step \in Steps, Go(h, step)
  PROVE  /\ handler' \in [Handlers -> HandlerType]
         /\ handler'[h].step = step
         /\ handler'[h].kind = IF step \in Ended THEN "none" ELSE handler[h].kind
         /\ handler'[h].seq = 0
         /\ \A g \in Handlers : g # h => handler'[g] = handler[g]
<1>1. Idle(step) \in HandlerType /\ Idle(step).step = step /\ Idle(step).kind = "none" /\ Idle(step).seq = 0
  BY DEF Idle, HandlerType
<1>2. handler \in [Handlers -> HandlerType] BY DEF TypeOK, HandlerType
<1>3. DEFINE next == [Idle(step) EXCEPT !.kind = handler[h].kind]
<1>4. next \in HandlerType /\ next.step = step /\ next.kind = handler[h].kind /\ next.seq = 0
  BY <1>2 DEF HandlerType, Idle
<1>5. handler' = [handler EXCEPT ![h] = IF step \in Ended THEN Idle(step) ELSE next]
  BY DEF Go
<1> HIDE DEF next
<1> QED BY <1>1, <1>2, <1>4, <1>5

\* A step of a thread to where nothing is claimed of it keeps what is claimed of the others.
LEMMA GoKeeps ==
  ASSUME Inv, NEW h \in Handlers, NEW step \in Steps \ {"ack"}, Go(h, step),
         step = "forget" \/ (step = "zero" /\ handler[h].kind = "pstop") =>
           (handler[h].kind \in Stops /\ ~lost' => moved'[h] = {}),
         Fits(handler[h].kind, step),
         \A g \in Handlers : moved'[g] \subseteq moved[g],
         file'.seq \in Nat, file'.seq <= seq' \/ file'.seq \in stale,
         file'.op = "none" \/ file' = file \/ seq < file'.seq,
         lastOp' = lastOp, seq' \in Nat, seq <= seq', ~lost' => ~lost, stale' = stale
  PROVE  KindOK' /\ SeqOK' /\ AckOK' /\ StopOK'
<1>1. /\ handler'[h].step = step
      /\ handler'[h].kind = IF step \in Ended THEN "none" ELSE handler[h].kind
      /\ handler'[h].seq = 0
      /\ \A g \in Handlers : g # h => handler'[g] = handler[g]
  BY GoOn DEF Inv
<1>2. /\ seq \in Nat /\ lastOp.seq \in Nat /\ file.seq \in Nat
      /\ \A g \in Handlers : handler[g].seq \in Nat
  BY DEF Inv, TypeOK
<1>3. \A g \in Handlers : handler'[g].seq <= seq'
  <2>1. \A g \in Handlers : handler[g].seq <= seq' BY <1>2 DEF Inv, SeqOK
  <2> QED BY <1>1, <2>1
<1>4. SeqOK' BY <1>2, <1>3 DEF Inv, SeqOK
<1>5. AckOK'
  <2> SUFFICES ASSUME NEW g \in Handlers, At(g, "ack")' PROVE Waiting(g)'
    BY DEF AckOK
  <2>1. handler'[g] = handler[g] /\ At(g, "ack") BY <1>1 DEF At
  <2>2. Waiting(g) BY <2>1 DEF Inv, AckOK
  <2>3. file'.op # "none" /\ file'.seq = handler'[g].seq => file' = file
    BY <1>2, <2>1 DEF Inv, SeqOK
  <2>4. Quiet(g) => Quiet(g)' BY <2>1 DEF Quiet
  <2> QED BY <2>1, <2>2, <2>3, <2>4 DEF Waiting
<1>6. StopOK'
  <2>1. \A g \in Handlers : moved[g] = {} => moved'[g] = {} OBVIOUS
  <2> QED BY <1>1, <2>1 DEF Inv, StopOK, At, Stops, Ended
<1>7. KindOK' BY <1>1 DEF Inv, KindOK, Fits, Ended
<1> QED BY <1>4, <1>5, <1>6, <1>7

\* What the processes have been told stays this agent's, while the files stay as they are and
\* no process comes up or begins to move.
LEMMA FreshStays ==
  ASSUME Inv, file' = file, lastOp' = lastOp, seq' \in Nat, seq <= seq', ~lost' => ~lost,
         Spawned \subseteq Spawned',
         \A r \in file.by : Live(r)' => Live(r),
         \A r \in Runtimes : proc'[r].st = "moving" => proc[r].st = "moving"
  PROVE  FreshOK'
<1>1. seq \in Nat /\ lastOp.seq \in Nat /\ file.seq \in Nat BY DEF Inv, TypeOK
<1>2. file'.by \subseteq Spawned' BY DEF Inv, FreshOK
<1>3. \A r \in file'.by : Live(r)' => file'.seq <= seq' BY <1>1 DEF Inv, FreshOK
<1>4. ASSUME NEW r \in Runtimes, proc'[r].st = "moving"
      PROVE  /\ r \in file'.by \/ file'.op = "none"
             /\ ~lost' => lastOp'.seq <= seq'
  BY <1>1, <1>4 DEF Inv, FreshOK
<1> QED BY <1>2, <1>3, <1>4 DEF FreshOK

----
\* The manual drive.

LEMMA StopsDrive ==
  ASSUME Inv, DriveStop
  PROVE  /\ yaml' \in {"zero", "move"} /\ faults' \in 0..MaxFaults
         /\ active' \in BOOLEAN /\ adrift' \in BOOLEAN
         /\ MotionHasWindow'
<1>1. faults' \in 0..MaxFaults
  <2>1. CASE UNCHANGED faults BY <2>1 DEF Inv, TypeOK
  <2>2. CASE Faulty BY <2>2, BoundsAssumption DEF Faulty, Inv, TypeOK
  <2> QED BY <2>1, <2>2 DEF DriveStop
<1>2. active' = FALSE /\ (adrift' = FALSE \/ adrift' = TRUE) BY DEF DriveStop
<1>3. yaml' = "zero" \/ (yaml' = "move" /\ adrift') BY DEF DriveStop
<1> QED BY <1>1, <1>2, <1>3 DEF MotionHasWindow

LEMMA DriveKeepsInv ==
  ASSUME Inv, NEW h \in Handlers, Acquire(h) \/ Accept(h) \/ Refuse(h) \/ Zero(h)
  PROVE  Inv'
<1>1. PICK step \in Steps \ {"ack", "zero", "forget"} :
        /\ Go(h, step)
        /\ Fits(handler[h].kind, step)
  BY DEF Acquire, Accept, Refuse, Zero, Steps, Ended, Stops, At, Inv, KindOK, Fits
<1>2. UNCHANGED <<procVars, fileVars, ghosts, arrived, watchdog>>
  BY DEF Acquire, Accept, Refuse, Zero, driveVars
<1>3. handler' \in [Handlers -> HandlerType] BY <1>1, GoOn DEF Inv
<1>4. /\ yaml' \in {"zero", "move"} /\ faults' \in 0..MaxFaults
      /\ active' \in BOOLEAN /\ adrift' \in BOOLEAN
      /\ MotionHasWindow'
  <2>1. CASE Acquire(h)
    BY <2>1 DEF Acquire, driveVars, Inv, TypeOK, MotionHasWindow
  <2>4. CASE Refuse(h)
    <3>1. CASE UNCHANGED <<faults, yaml, adrift>>
      BY <2>4, <3>1 DEF Refuse, Inv, TypeOK, MotionHasWindow
    <3>2. CASE Faulty /\ yaml' = "move" /\ adrift' = ~active
      <4>1. faults' \in 0..MaxFaults BY <3>2, BoundsAssumption DEF Faulty, Inv, TypeOK
      <4>2. active' = active /\ active \in BOOLEAN BY <2>4 DEF Refuse, Inv, TypeOK
      <4>3. adrift' \in BOOLEAN /\ (active' \/ adrift') BY <3>2, <4>2, Zenon
      <4> QED BY <3>2, <4>1, <4>2, <4>3 DEF MotionHasWindow
    <3> QED BY <2>4, <3>1, <3>2 DEF Refuse
  <2>2. CASE Accept(h) BY <2>2 DEF Accept, Inv, TypeOK, MotionHasWindow
  <2>3. CASE Zero(h)
    BY <2>3, StopsDrive DEF Zero
  <2> QED BY <2>1, <2>2, <2>3, <2>4
<1>5. TypeOK'
  BY <1>2, <1>3, <1>4 DEF Inv, TypeOK, HandlerType, procVars, fileVars, ghosts, Spawned
<1>6. KindOK' /\ SeqOK' /\ AckOK' /\ StopOK'
  <2>1. file' = file /\ lastOp' = lastOp /\ seq' = seq /\ moved' = moved /\ lost' = lost /\ stale' = stale
    BY <1>2 DEF fileVars, ghosts
  <2>2. seq \in Nat /\ file.seq \in Nat /\ (file.seq <= seq \/ file.seq \in stale)
    BY DEF Inv, TypeOK, SeqOK
  <2> QED BY <1>1, <2>1, <2>2, GoKeeps
<1>7. TrackOK' /\ MovedOK' /\ FileOK' /\ FreshOK'
  BY <1>2 DEF Inv, TrackOK, MovedOK, FileOK, FreshOK, Spawned, Live, procVars, fileVars, ghosts
<1> QED BY <1>4, <1>5, <1>6, <1>7 DEF Inv

LEMMA WindowKeepsInv ==
  ASSUME Inv, Watch \/ WatchStop
  PROVE  Inv'
<1>1. UNCHANGED <<handler, procVars, fileVars, ghosts, arrived>>
  BY DEF Watch, WatchStop, requestVars
<1>2. /\ yaml' \in {"zero", "move"} /\ faults' \in 0..MaxFaults
      /\ active' \in BOOLEAN /\ adrift' \in BOOLEAN /\ watchdog' \in BOOLEAN
      /\ MotionHasWindow'
  <2>1. CASE Watch BY <2>1 DEF Watch, requestVars, Inv, TypeOK, MotionHasWindow
  <2>2. CASE WatchStop
    BY <2>2, StopsDrive DEF WatchStop, Inv, TypeOK
  <2> QED BY <2>1, <2>2
<1>3. TypeOK'
  BY <1>1, <1>2 DEF Inv, TypeOK, procVars, fileVars, ghosts, Spawned
<1>4. KindOK' /\ SeqOK' /\ FreshOK' /\ AckOK' /\ StopOK' /\ TrackOK' /\ MovedOK' /\ FileOK'
  BY <1>1 DEF Inv, KindOK, SeqOK, FreshOK, AckOK, Waiting, Quiet, StopOK, TrackOK, MovedOK, FileOK,
              Live, Spawned, At, procVars, fileVars, ghosts
<1> QED BY <1>2, <1>3, <1>4 DEF Inv

LEMMA RequestKeepsInv ==
  ASSUME Inv, NEW h \in Handlers, NEW kind \in Kinds, Request(h, kind)
  PROVE  Inv'
<1>1. UNCHANGED <<faults, driveVars, procVars, fileVars, lost, stale>> BY DEF Request
<1>2. PICK step \in {"lock", "zero", "alive", "unpublish", "ensure"} :
        /\ FirstStep(kind) = step
        /\ step = "zero" => kind = "estop"
        /\ Fits(kind, step)
  BY DEF FirstStep, Kinds, Stops, Fits
<1>3. /\ handler' = [handler EXCEPT ![h] = [kind |-> kind, step |-> step, seq |-> 0, done |-> FALSE]]
      /\ arrived < MaxRequests /\ arrived' = arrived + 1
  BY <1>2 DEF Request
<1>4. handler \in [Handlers -> HandlerType] BY DEF Inv, TypeOK, HandlerType
<1>5. /\ handler' \in [Handlers -> HandlerType]
      /\ handler'[h].step = step /\ handler'[h].kind = kind /\ handler'[h].seq = 0
      /\ \A g \in Handlers : g # h => handler'[g] = handler[g]
  <2>1. [kind |-> kind, step |-> step, seq |-> 0, done |-> FALSE] \in HandlerType
    BY <1>2 DEF HandlerType, Steps
  <2> QED BY <2>1, <1>3, <1>4
<1>6. /\ moved' \in [Handlers -> SUBSET Runtimes]
      /\ moved'[h] \subseteq {r \in Runtimes : proc[r].st = "moving"}
      /\ \A g \in Handlers : g # h => moved'[g] = moved[g]
  BY DEF Request, Inv, TypeOK
<1>7. arrived' \in 0..MaxRequests BY <1>3, BoundsAssumption DEF Inv, TypeOK
<1>8. TypeOK'
  BY <1>1, <1>5, <1>6, <1>7 DEF Inv, TypeOK, HandlerType, driveVars, procVars, fileVars, Spawned
<1>9. SeqOK'
  BY <1>1, <1>5 DEF Inv, TypeOK, SeqOK, fileVars
<1>10. KindOK' /\ AckOK' /\ StopOK'
  BY <1>1, <1>2, <1>5, <1>6 DEF Inv, KindOK, AckOK, Waiting, Quiet, StopOK, At, fileVars
<1>11. TrackOK' /\ MovedOK' /\ FileOK' /\ FreshOK' /\ MotionHasWindow'
  BY <1>1, <1>6 DEF Inv, TrackOK, MovedOK, FileOK, FreshOK, MotionHasWindow, Live, Spawned,
                    driveVars, procVars, fileVars
<1> QED BY <1>8, <1>9, <1>10, <1>11 DEF Inv

----
\* The policy requests.

\* A thread moves on and nothing else changes, but the drive command that policy_start removes.
LEMMA AskKeepsInv ==
  ASSUME Inv, NEW h \in Handlers,
         \/ NotRunning(h) \/ Running(h) \/ Unpublish(h) \/ Ensure(h)
         \/ WaitReady(h) \/ WaitRaises(h) \/ Ack(h) \/ AckFails(h)
  PROVE  Inv'
<1>1. PICK step \in Steps \ {"ack", "forget"} :
        /\ Go(h, step)
        /\ step = "zero" /\ handler[h].kind = "pstop" /\ ~lost => moved[h] = {}
        /\ Fits(handler[h].kind, step)
  <2>1. CASE NotRunning(h)
    <3>1. ~lost => moved[h] = {}
      <4>1. \A r \in moved[h] : r \in Runtimes /\ proc[r].st = "moving"
        BY DEF Inv, MovedOK
      <4>2. \A r \in Runtimes : proc[r].st = "moving" /\ ~lost => r = tracked
        BY DEF Inv, TrackOK, Live, Up
      <4> QED BY <2>1, <4>1, <4>2 DEF NotRunning, SeemsDead, Up
    <3> QED BY <2>1, <3>1 DEF NotRunning, Steps, Ended, At, Inv, KindOK, Fits
  <2>2. CASE Ack(h)
    <3>1. PICK step : /\ Go(h, step)
                      /\ step = (IF lastOp.ok THEN Succeeded(h) ELSE Failed(h))
      BY <2>2 DEF Ack
    <3>2. step \in {"zero", "ok", "kill", "error"} BY <3>1 DEF Succeeded, Failed
    <3>3. step = "zero" => lastOp.ok BY <3>1 DEF Failed
    <3>4. step = "zero" /\ handler[h].kind = "pstop" /\ ~lost => moved[h] = {}
      BY <2>2, <3>3 DEF Ack, Inv, AckOK, Waiting, Quiet, Stops
    <3>5. Fits(handler[h].kind, step)
      BY <3>1 DEF Succeeded, Failed, Fits, Stops
    <3> QED BY <3>1, <3>2, <3>4, <3>5 DEF Steps, Ended
  <2>3. CASE AckFails(h)
    BY <2>3 DEF AckFails, Failed, Steps, Ended, Fits
  <2>4. CASE Running(h) \/ Unpublish(h) \/ Ensure(h) \/ WaitReady(h) \/ WaitRaises(h)
    BY <2>4 DEF Running, Unpublish, Ensure, WaitReady, WaitRaises, At, Inv, KindOK, Fits, Steps, Ended
  <2> QED BY <2>1, <2>2, <2>3, <2>4
<1>2. UNCHANGED <<arrived, faults, active, watchdog, procVars, fileVars, ghosts>>
  BY DEF NotRunning, Running, Unpublish, Ensure, WaitReady, WaitRaises, Ack, AckFails, driveVars
<1>3. UNCHANGED <<yaml, adrift>> \/ (yaml' = "zero" /\ adrift' = FALSE)
  BY DEF NotRunning, Running, Unpublish, Ensure, WaitReady, WaitRaises, Ack, AckFails, driveVars
<1>4. handler' \in [Handlers -> HandlerType] BY <1>1, GoOn DEF Inv
<1>5. yaml' \in {"zero", "move"} /\ adrift' \in BOOLEAN BY <1>3 DEF Inv, TypeOK
<1>6. TypeOK'
  BY <1>2, <1>4, <1>5 DEF Inv, TypeOK, HandlerType, procVars, fileVars, ghosts, Spawned
<1>7. KindOK' /\ SeqOK' /\ AckOK' /\ StopOK'
  <2>1. file' = file /\ lastOp' = lastOp /\ seq' = seq /\ moved' = moved /\ lost' = lost /\ stale' = stale
    BY <1>2 DEF fileVars, ghosts
  <2>2. seq \in Nat /\ file.seq \in Nat /\ (file.seq <= seq \/ file.seq \in stale)
    BY DEF Inv, TypeOK, SeqOK
  <2> QED BY <1>1, <2>1, <2>2, GoKeeps
<1>8. TrackOK' /\ MovedOK' /\ FileOK' /\ FreshOK' /\ MotionHasWindow'
  BY <1>2, <1>3 DEF Inv, TrackOK, MovedOK, FileOK, FreshOK, MotionHasWindow, Live, Spawned,
                    procVars, fileVars, ghosts
<1> QED BY <1>6, <1>7, <1>8 DEF Inv

\* What is put into the command file is a command under the next number.
LEMMA PutIsTyped ==
  ASSUME Inv, NEW h \in Handlers, At(h, "write"), PutCommand(h)
  PROVE  /\ file' \in FileType /\ file'.seq = seq + 1 /\ file'.op = OpOf(handler[h].kind)
         /\ file'.by = Spawned /\ seq \in Nat
<1>1. PICK arg \in Args(seq + 1) :
        file' = [seq |-> seq + 1, op |-> OpOf(handler[h].kind), arg |-> arg, by |-> Spawned]
  BY DEF PutCommand
<1>2. arg \in 1..2 BY DEF Args
<1>3. OpOf(handler[h].kind) \in Ops BY DEF OpOf, Ops, At, Inv, KindOK, Fits, Stops
<1>4. Spawned \in SUBSET Runtimes /\ seq \in Nat BY DEF Spawned, Inv, TypeOK
<1> QED BY <1>1, <1>2, <1>3, <1>4 DEF FileType

\* A thread writes its command.
LEMMA WriteKeepsInv ==
  ASSUME Inv, NEW h \in Handlers, Write(h)
  PROVE  Inv'
<1>1. UNCHANGED <<arrived, faults, driveVars, procVars, ready, lastOp, ghosts>> BY DEF Write
<1>2. seq \in Nat /\ seq' = seq + 1 /\ lastOp.seq \in Nat BY DEF Write, Inv, TypeOK
<1>7. /\ file' \in FileType /\ file'.seq = seq + 1 /\ file'.op = OpOf(handler[h].kind)
      /\ file'.by = Spawned
  BY PutIsTyped DEF Write
<1>3. handler' = [handler EXCEPT ![h] = [kind |-> handler[h].kind, step |-> "ack",
                                          seq |-> seq + 1, done |-> FALSE]]
  BY DEF Write
<1>4. handler \in [Handlers -> HandlerType] BY DEF Inv, TypeOK, HandlerType
<1>5. /\ handler' \in [Handlers -> HandlerType]
      /\ handler'[h].step = "ack" /\ handler'[h].seq = seq + 1
      /\ handler'[h].kind = handler[h].kind /\ ~handler'[h].done
      /\ \A g \in Handlers : g # h => handler'[g] = handler[g]
  <2>1. [kind |-> handler[h].kind, step |-> "ack", seq |-> seq + 1, done |-> FALSE] \in HandlerType
    BY <1>2, <1>4 DEF HandlerType, Steps
  <2> QED BY <2>1, <1>3, <1>4
<1>6. handler[h].kind \in {"start", "load"} \cup Stops
  BY DEF Write, At, Inv, KindOK, Fits
<1>9. TypeOK'
  <2>2. tracked' \in Spawned' \cup {None} BY <1>1 DEF Inv, TypeOK, procVars, Spawned
  <2> QED BY <1>1, <1>2, <1>5, <1>7, <2>2
          DEF Inv, TypeOK, HandlerType, FileType, driveVars, procVars, ghosts
<1>10. SeqOK'
  <2>1. \A g \in Handlers : handler[g].seq \in Nat /\ handler[g].seq <= seq
    BY DEF Inv, TypeOK, SeqOK
  <2>2. lastOp' = lastOp /\ file'.seq = seq + 1 /\ stale' = stale BY <1>1, <1>7 DEF ghosts
  <2>3. (lastOp'.seq <= seq' \/ lastOp'.seq \in stale') /\ file'.seq <= seq'
    BY <1>2, <2>2 DEF Inv, SeqOK
  <2>4. \A g \in Handlers : handler'[g].seq <= seq' BY <1>2, <1>5, <2>1
  <2> QED BY <2>3, <2>4 DEF SeqOK
<1>11. AckOK'
  <2> SUFFICES ASSUME NEW g \in Handlers, At(g, "ack")' PROVE Waiting(g)'
    BY DEF AckOK
  <2>1. lastOp' = lastOp /\ lost' = lost /\ moved' = moved /\ stale' = stale BY <1>1 DEF ghosts
  <2>2. CASE g = h
    <3>1. ASSUME lastOp'.seq = handler'[h].seq
          PROVE  handler'[h].seq \in stale' /\ Quiet(h)'
      <4>1. ~(lastOp.seq <= seq) BY <1>2, <1>5, <2>1, <3>1
      <4>2. handler'[h].seq \in stale' BY <2>1, <3>1, <4>1 DEF Inv, SeqOK
      <4>3. ~lost => \A r \in Runtimes : proc[r].st # "moving" BY <4>1 DEF Inv, FreshOK
      <4>4. ~lost => moved[h] = {} BY <4>3 DEF Inv, MovedOK
      <4> QED BY <2>1, <4>2, <4>4 DEF Quiet
    <3> QED BY <2>2, <3>1, <1>5, <1>7 DEF Waiting
  <2>3. CASE g # h
    <3>1. handler'[g] = handler[g] /\ At(g, "ack") BY <2>3, <1>5 DEF At
    <3>2. file'.seq # handler'[g].seq BY <3>1, <1>2, <1>7 DEF Inv, SeqOK, TypeOK
    <3> QED BY <2>1, <3>1, <3>2 DEF Inv, AckOK, Waiting, Quiet
  <2> QED BY <2>2, <2>3
<1>12. KindOK' /\ StopOK' BY <1>1, <1>5, <1>6 DEF Inv, KindOK, Fits, StopOK, At, ghosts
<1>13. FileOK' /\ FreshOK'
  <2>1. proc' = proc /\ lastOp' = lastOp /\ lost' = lost /\ Spawned' = Spawned /\ lastOp.seq \in Nat
    BY <1>1 DEF procVars, ghosts, Spawned, Inv, TypeOK
  <2>2. \A r \in Runtimes : r \notin file'.by => proc'[r].st = "none" BY <1>7, <2>1 DEF Spawned
  <2>3. FileOK' BY <2>2 DEF FileOK
  <2>4. \A r \in Runtimes : proc'[r].st = "moving" => r \in file'.by BY <2>2
  <2>5. FreshOK' BY <1>2, <1>7, <2>1, <2>4 DEF Inv, FreshOK
  <2> QED BY <2>3, <2>5
<1>14. TrackOK' /\ MovedOK' /\ MotionHasWindow'
  BY <1>1 DEF Inv, TrackOK, MovedOK, MotionHasWindow, Live, driveVars, procVars, ghosts
<1> QED BY <1>9, <1>10, <1>11, <1>12, <1>13, <1>14 DEF Inv

\* A write that fails has used up its number.
LEMMA WriteFailsKeepsInv ==
  ASSUME Inv, NEW h \in Handlers, WriteFails(h)
  PROVE  Inv'
<1>1. UNCHANGED <<arrived, driveVars, procVars, ready, lastOp, ghosts>> BY DEF WriteFails
<1>2. seq \in Nat /\ seq' = seq + 1 /\ seq' \in Nat /\ seq <= seq' BY DEF WriteFails, Inv, TypeOK
<1>10. file' = file \/ (file' \in FileType /\ file'.seq = seq + 1 /\ file'.by = Spawned)
  BY PutIsTyped DEF WriteFails
<1>11. file' \in FileType BY <1>10 DEF FileType, Inv, TypeOK
<1>12. Spawned' = Spawned /\ \A r \in Runtimes : r \notin Spawned => proc'[r].st = "none"
  BY <1>1 DEF Spawned, procVars
<1>3. PICK step \in {"kill", "error"} : Go(h, step) /\ Fits(handler[h].kind, step)
  BY DEF WriteFails, Failed, Fits
<1>4. step \in Steps BY DEF Steps, Ended
<1>5. faults' \in 0..MaxFaults BY BoundsAssumption DEF WriteFails, Faulty, Inv, TypeOK
<1>6. handler' \in [Handlers -> HandlerType] BY <1>3, <1>4, GoOn DEF Inv
<1>7. TypeOK'
  BY <1>1, <1>2, <1>5, <1>6, <1>11
     DEF Inv, TypeOK, HandlerType, FileType, driveVars, procVars, ghosts, Spawned
<1>8. KindOK' /\ SeqOK' /\ AckOK' /\ StopOK'
  <2>1. file'.seq \in Nat BY <1>11 DEF FileType
  <2>2. file'.seq <= seq' \/ file'.seq \in stale
    BY <1>2, <1>10, <2>1 DEF Inv, SeqOK
  <2>3. file' = file \/ seq < file'.seq BY <1>2, <1>10
  <2>4. moved' = moved /\ lost' = lost /\ stale' = stale /\ lastOp' = lastOp BY <1>1 DEF ghosts
  <2> QED BY <1>2, <1>3, <1>4, <2>1, <2>2, <2>3, <2>4, GoKeeps
<1>9. TrackOK' /\ MovedOK' /\ MotionHasWindow'
  BY <1>1 DEF Inv, TrackOK, MovedOK, MotionHasWindow, Live, driveVars, procVars, ghosts
<1>13. FileOK'
  <2>1. CASE file' = file BY <1>1, <2>1 DEF Inv, FileOK, procVars
  <2>2. CASE file'.by = Spawned BY <1>12, <2>2 DEF FileOK
  <2> QED BY <1>10, <2>1, <2>2
<1>14. FreshOK'
  <2>1. proc' = proc /\ lastOp' = lastOp /\ lost' = lost BY <1>1 DEF procVars, ghosts
  <2>2. CASE file' = file BY <1>2, <1>12, <2>1, <2>2, FreshStays DEF Live
  <2>3. CASE file'.seq = seq + 1 /\ file'.by = Spawned
    <3>1. \A r \in Runtimes : proc'[r].st = "moving" => r \in file'.by BY <1>12, <2>3
    <3>2. lastOp.seq \in Nat BY DEF Inv, TypeOK
    <3> QED BY <1>2, <1>12, <2>1, <2>3, <3>1, <3>2 DEF Inv, FreshOK
  <2> QED BY <1>10, <2>2, <2>3
<1> QED BY <1>7, <1>8, <1>9, <1>13, <1>14 DEF Inv

\* A new runtime: whatever lived before it is lost.
LEMMA SpawnKeepsInv ==
  ASSUME Inv, NEW h \in Handlers, NEW r \in Runtimes, Spawn(h, r)
  PROVE  Inv'
<1>1. UNCHANGED <<arrived, faults, driveVars, file, lastOp, seq, moved, stale>> BY DEF Spawn
<1>2. Go(h, "wait") /\ At(h, "ensure") BY DEF Spawn
<1>3. handler' \in [Handlers -> HandlerType] BY <1>2, GoOn DEF Inv, Steps
<1>4. proc[r].st = "none"
  <2>1. r \notin 1..(r - 1) BY DEF Runtimes
  <2> QED BY <2>1 DEF Spawn, Spawned
<1>5. /\ proc' \in [Runtimes -> ProcType]
      /\ proc'[r].st = "boot"
      /\ \A q \in Runtimes : q # r => proc'[q] = proc[q]
  <2>1. proc \in [Runtimes -> ProcType] BY ProcTyped DEF Inv
  <2>2. [proc[r] EXCEPT !.st = "boot"] \in ProcType BY <2>1 DEF ProcType
  <2>3. proc' = [proc EXCEPT ![r] = [proc[r] EXCEPT !.st = "boot"]] BY DEF Spawn
  <2>4. [proc[r] EXCEPT !.st = "boot"].st = "boot" BY <2>1 DEF ProcType
  <2> QED BY <2>1, <2>2, <2>3, <2>4
<1>6. tracked' = r /\ ready' = FALSE BY DEF Spawn
<1>7. /\ lost' \in BOOLEAN
      /\ ~lost' => ~lost /\ \A q \in Runtimes : ~Live(q)
  BY Zenon DEF Spawn, Untrack
<1>8. tracked' \in Spawned' \cup {None} BY <1>5, <1>6 DEF Spawned
<1>9. TypeOK'
  BY <1>1, <1>3, <1>5, <1>6, <1>7, <1>8 DEF Inv, TypeOK, HandlerType, ProcType, TextType, driveVars
<1>10. KindOK' /\ SeqOK' /\ AckOK' /\ StopOK'
  <2>1. Fits(handler[h].kind, "wait") BY <1>2 DEF At, Inv, KindOK, Fits
  <2>2. /\ seq' \in Nat /\ seq <= seq' /\ file'.seq \in Nat
        /\ file'.seq <= seq' \/ file'.seq \in stale
    BY <1>1 DEF Inv, TypeOK, SeqOK
  <2>3. "wait" \in Steps \ {"ack"} BY DEF Steps
  <2> QED BY <1>1, <1>2, <1>7, <2>1, <2>2, <2>3, GoKeeps
<1>11. TrackOK' BY <1>5, <1>6, <1>7 DEF TrackOK, Live
<1>12. MovedOK' BY <1>1, <1>4, <1>5 DEF Inv, MovedOK
<1>13. FileOK' BY <1>1, <1>5 DEF Inv, FileOK
<1>14. MotionHasWindow' BY <1>1 DEF Inv, MotionHasWindow, driveVars
<1>15. FreshOK'
  <2>1. r \notin file.by BY <1>4 DEF Inv, FreshOK, Spawned
  <2>2. \A q \in file.by : q # r /\ q \in Runtimes BY <2>1 DEF Inv, FreshOK, Spawned
  <2>3. Spawned \subseteq Spawned' BY <1>4, <1>5 DEF Spawned
  <2>4. \A q \in file.by : Live(q)' => Live(q) BY <1>5, <2>2 DEF Live
  <2>5. \A q \in Runtimes : proc'[q].st = "moving" => proc[q].st = "moving" BY <1>5
  <2>6. seq' \in Nat /\ seq <= seq' BY <1>1 DEF Inv, TypeOK
  <2> QED BY <1>1, <1>7, <2>3, <2>4, <2>5, <2>6, FreshStays
<1> QED BY <1>9, <1>10, <1>11, <1>12, <1>13, <1>14, <1>15 DEF Inv

\* The tracked process is forgotten: what still lives is lost.
LEMMA UntrackKeepsInv ==
  ASSUME Inv, NEW h \in Handlers, SpawnFails(h) \/ Forget(h)
  PROVE  Inv'
<1>1. UNCHANGED <<arrived, faults, driveVars, proc, lastOp, seq, moved, stale>> BY DEF SpawnFails, Forget
<1>2. file' = file \/ file' = NoCommand BY DEF SpawnFails, Forget
<1>3. PICK step \in {"kill", "error", "zero", "ok"} :
        /\ Go(h, step)
        /\ step = "zero" => At(h, "forget")
        /\ Fits(handler[h].kind, step)
  BY DEF SpawnFails, Forget, Failed, Succeeded, Fits, Stops
<1>4. step \in Steps BY DEF Steps, Ended
<1>5. handler' \in [Handlers -> HandlerType] BY <1>3, <1>4, GoOn DEF Inv
<1>6. tracked' = None /\ ready' = FALSE BY DEF SpawnFails, Forget
<1>7. /\ lost' \in BOOLEAN
      /\ ~lost' => ~lost /\ \A q \in Runtimes : ~Live(q)
  <2>1. Untrack BY DEF SpawnFails, Forget
  <2> QED BY <2>1, Zenon DEF Untrack
<1>8. TypeOK'
  <2>1. file' \in FileType
    BY <1>2 DEF NoCommand, FileType, Ops, Inv, TypeOK
  <2>2. ready' \in BOOLEAN /\ tracked' \in Spawned' \cup {None} BY <1>6
  <2> QED BY <1>1, <1>5, <1>7, <2>1, <2>2 DEF Inv, TypeOK, HandlerType, FileType, driveVars
<1>9. KindOK' /\ SeqOK' /\ AckOK' /\ StopOK'
  <2>1. step = "zero" => (handler[h].kind \in Stops /\ ~lost' => moved'[h] = {})
    BY <1>1, <1>3, <1>7 DEF Inv, StopOK
  <2>2. seq' \in Nat /\ seq <= seq' BY <1>1 DEF Inv, TypeOK
  <2>3. /\ file'.seq \in Nat /\ (file'.seq <= seq' \/ file'.seq \in stale)
        /\ file'.op = "none" \/ file' = file
    BY <1>1, <1>2 DEF NoCommand, Inv, TypeOK, SeqOK
  <2> QED BY <1>1, <1>3, <1>4, <1>7, <2>1, <2>2, <2>3, GoKeeps
<1>10. TrackOK' BY <1>1, <1>7 DEF TrackOK, Live
<1>11. MovedOK' /\ FileOK' /\ MotionHasWindow'
  BY <1>1, <1>2 DEF Inv, MovedOK, FileOK, MotionHasWindow, driveVars, NoCommand
<1>12. FreshOK'
  <2>1. Spawned' = Spawned /\ seq' \in Nat /\ seq <= seq' BY <1>1 DEF Spawned, Inv, TypeOK
  <2>2. CASE file' = file BY <1>1, <1>7, <2>1, <2>2, FreshStays DEF Live
  <2>3. CASE file' = NoCommand
    BY <1>1, <1>7, <2>3 DEF NoCommand, Inv, FreshOK
  <2> QED BY <1>2, <2>2, <2>3
<1> QED BY <1>8, <1>9, <1>10, <1>11, <1>12 DEF Inv

\* The tracked process is terminated.
LEMMA TerminateKeepsInv ==
  ASSUME Inv, NEW h \in Handlers, WaitFails(h) \/ Kill(h)
  PROVE  Inv'
<1>1. UNCHANGED <<arrived, faults, driveVars, fileVars, lost, stale>> BY DEF WaitFails, Kill
<1>2. /\ proc' \in [Runtimes -> ProcType]
      /\ \A r \in Runtimes : proc'[r] = IF r = tracked THEN Dead ELSE proc[r]
  <2>1. tracked \in Runtimes \/ tracked = None BY DEF Inv, TypeOK, Spawned
  <2>2. Dead \in ProcType BY DeadType
  <2>5. proc \in [Runtimes -> ProcType] BY ProcTyped DEF Inv
  <2>3. CASE WaitFails(h) BY <2>1, <2>2, <2>3, <2>5 DEF WaitFails
  <2>4. CASE Kill(h) BY <2>2, <2>4, <2>5 DEF Kill
  <2> QED BY <2>3, <2>4
<1>3. Dead.st = "dead" BY DEF Dead
<1>4. moved' = [g \in Handlers |-> moved[g] \ {tracked}] BY DEF WaitFails, Kill
<1>5. tracked' \in Spawned' \cup {None} BY <1>2, <1>3 DEF WaitFails, Kill, Inv, TypeOK, Spawned
<1>6. PICK step \in {"kill", "error", "forget"} : Go(h, step) /\ Fits(handler[h].kind, step)
  BY DEF WaitFails, Kill, Failed, At, Inv, KindOK, Fits
<1>7. step \in Steps BY DEF Steps, Ended
<1>8. handler' \in [Handlers -> HandlerType] BY <1>6, <1>7, GoOn DEF Inv
<1>9. moved' \in [Handlers -> SUBSET Runtimes] /\ \A g \in Handlers : moved'[g] \subseteq moved[g]
  BY <1>4 DEF Inv, TypeOK
<1>10. TypeOK'
  BY <1>1, <1>2, <1>5, <1>8, <1>9
     DEF Inv, TypeOK, HandlerType, ProcType, TextType, driveVars, fileVars
<1>11. ~lost => \A g \in Handlers : moved'[g] = {}
  <2>1. \A r \in Runtimes : proc[r].st = "moving" => Live(r) BY DEF Live, Up
  <2>2. ~lost => \A g \in Handlers : moved[g] \subseteq {tracked}
    BY <2>1 DEF Inv, TrackOK, MovedOK
  <2> QED BY <1>4, <2>2
<1>12. KindOK' /\ SeqOK' /\ AckOK' /\ StopOK'
  <2>1. seq' \in Nat /\ seq <= seq' BY <1>1 DEF Inv, TypeOK, fileVars
  <2>2. file' = file /\ lastOp' = lastOp /\ lost' = lost /\ stale' = stale BY <1>1 DEF fileVars
  <2>3. file'.seq \in Nat /\ (file'.seq <= seq' \/ file'.seq \in stale)
    BY <1>1 DEF Inv, TypeOK, SeqOK, fileVars
  <2> QED BY <1>6, <1>7, <1>9, <1>11, <2>1, <2>2, <2>3, GoKeeps
<1>13. TrackOK'
  BY <1>1, <1>2, <1>3 DEF Inv, TrackOK, Live, Up
<1>14. MovedOK' BY <1>2, <1>4 DEF Inv, TypeOK, MovedOK
<1>15. FileOK' BY <1>1, <1>2, <1>3 DEF Inv, FileOK, fileVars
<1>16. MotionHasWindow' BY <1>1 DEF Inv, MotionHasWindow, driveVars
<1>17. FreshOK'
  <2>1. Spawned \subseteq Spawned' BY <1>2, <1>3 DEF Spawned
  <2>2. \A r \in Runtimes : Live(r)' => Live(r) BY <1>2, <1>3 DEF Live, Up
  <2>3. \A r \in Runtimes : proc'[r].st = "moving" => proc[r].st = "moving" BY <1>2, <1>3
  <2>4. \A r \in file.by : r \in Runtimes BY DEF Inv, FreshOK, Spawned
  <2>5. seq' \in Nat /\ seq <= seq' BY <1>1 DEF Inv, TypeOK, fileVars
  <2> QED BY <1>1, <2>1, <2>2, <2>3, <2>4, <2>5, FreshStays DEF fileVars
<1> QED BY <1>10, <1>12, <1>13, <1>14, <1>15, <1>16, <1>17 DEF Inv

----
\* The runtime processes.

LEMMA BootKeepsInv ==
  ASSUME Inv, NEW r \in Runtimes, Boot(r)
  PROVE  Inv'
<1>1. UNCHANGED <<requestVars, driveVars, tracked, file, seq, ghosts>> BY DEF Boot
<1>2. /\ proc' \in [Runtimes -> ProcType]
      /\ proc[r].st = "boot" /\ proc'[r].st = "idle"
      /\ \A q \in Runtimes : q # r => proc'[q] = proc[q]
  BY ProcTyped DEF Boot, Inv, ProcType, Up
<1>3. lastOp' = [seq |-> 0, ok |-> FALSE] /\ ready' = TRUE BY DEF Boot
<1>4. TypeOK'
  BY <1>1, <1>2, <1>3 DEF Inv, TypeOK, ProcType, TextType, requestVars, driveVars, ghosts, Spawned
<1>5. SeqOK' BY <1>1, <1>3 DEF Inv, SeqOK, TypeOK, requestVars, ghosts
<1>6. KindOK' /\ AckOK' /\ StopOK'
  BY <1>1, <1>3 DEF Inv, KindOK, AckOK, Waiting, Quiet, StopOK, At, requestVars, ghosts
<1>7. TrackOK' BY <1>1, <1>2 DEF Inv, TrackOK, Live, ghosts
<1>8. MovedOK' /\ FileOK' BY <1>1, <1>2 DEF Inv, MovedOK, FileOK, ghosts
<1>9. MotionHasWindow' BY <1>1 DEF Inv, MotionHasWindow, driveVars
<1>10. FreshOK'
  <2>1. seq \in Nat /\ seq' = seq /\ file' = file /\ lastOp'.seq = 0 BY <1>1, <1>3 DEF Inv, TypeOK
  <2>2. \A q \in Runtimes : Live(q)' => Live(q) BY <1>2 DEF Live
  <2>3. Spawned' = Spawned BY <1>2 DEF Spawned
  <2>4. \A q \in Runtimes : proc'[q].st = "moving" => proc[q].st = "moving" BY <1>2
  <2>5. \A q \in file.by : q \in Runtimes BY DEF Inv, FreshOK, Spawned
  <2> QED BY <2>1, <2>2, <2>3, <2>4, <2>5 DEF Inv, FreshOK
<1> QED BY <1>4, <1>5, <1>6, <1>7, <1>8, <1>9, <1>10 DEF Inv

LEMMA CrashKeepsInv ==
  ASSUME Inv, NEW r \in Runtimes, Crash(r)
  PROVE  Inv'
<1>1. UNCHANGED <<handler, arrived, driveVars, tracked, fileVars, lost, stale>> BY DEF Crash
<1>2. /\ proc' \in [Runtimes -> ProcType]
      /\ Live(r) /\ proc[r].st # "none" /\ proc'[r].st \in {"dead", "idle"}
      /\ \A q \in Runtimes : q # r => proc'[q] = proc[q]
  <2>1. proc \in [Runtimes -> ProcType] /\ Dead \in ProcType /\ Dead.st = "dead"
    BY ProcTyped, DeadType DEF Inv, Dead
  <2> QED BY <2>1 DEF Crash, ProcType, Up, Live
<1>3. /\ moved' \in [Handlers -> SUBSET Runtimes]
      /\ \A h \in Handlers : moved'[h] = moved[h] \ {r}
  BY DEF Crash, Inv, TypeOK
<1>4. faults' \in 0..MaxFaults BY BoundsAssumption DEF Crash, Faulty, Inv, TypeOK
<1>5. tracked' \in Spawned' \cup {None} BY <1>1, <1>2 DEF Inv, TypeOK, Spawned
<1>6. TypeOK'
  BY <1>1, <1>2, <1>3, <1>4, <1>5 DEF Inv, TypeOK, ProcType, TextType, driveVars, fileVars
<1>7. KindOK' /\ SeqOK' /\ AckOK' /\ StopOK'
  BY <1>1, <1>3 DEF Inv, KindOK, SeqOK, AckOK, Waiting, Quiet, StopOK, At, fileVars
<1>8. TrackOK' BY <1>1, <1>2 DEF Inv, TrackOK, Live
<1>9. MovedOK' BY <1>2, <1>3 DEF Inv, MovedOK
<1>10. FileOK' /\ MotionHasWindow'
  BY <1>1, <1>2 DEF Inv, FileOK, MotionHasWindow, driveVars, fileVars
<1>11. FreshOK'
  <2>1. Spawned \subseteq Spawned' BY <1>2 DEF Spawned
  <2>2. \A q \in Runtimes : Live(q)' => Live(q) BY <1>2 DEF Live
  <2>3. \A q \in Runtimes : proc'[q].st = "moving" => proc[q].st = "moving" BY <1>2
  <2>4. \A q \in file.by : q \in Runtimes BY DEF Inv, FreshOK, Spawned
  <2>5. seq' \in Nat /\ seq <= seq' BY <1>1 DEF Inv, TypeOK, fileVars
  <2> QED BY <1>1, <2>1, <2>2, <2>3, <2>4, <2>5, FreshStays DEF fileVars
<1> QED BY <1>6, <1>7, <1>8, <1>9, <1>10, <1>11 DEF Inv

\* Nothing lives after a restart, and the numbers that the files hold are old.
LEMMA RestartKeepsInv ==
  ASSUME Inv, Restart
  PROVE  Inv'
<1>1. UNCHANGED <<arrived, yaml, ready, file, lastOp>> BY DEF Restart
<1>2. /\ handler' = [h \in Handlers |-> Idle("error")]
      /\ moved' = [h \in Handlers |-> {}]
      /\ active' = FALSE /\ watchdog' = FALSE /\ lost' = FALSE /\ tracked' = None /\ seq' = 0
      /\ stale' = {file.seq, lastOp.seq}
  BY DEF Restart
<1>3. Idle("error") \in HandlerType BY DEF Idle, HandlerType, Steps, Ended
<1>4. /\ proc' \in [Runtimes -> ProcType]
      /\ \A r \in Runtimes : ~Live(r)'
      /\ \A r \in Runtimes : proc'[r].st \in {"none", "dead"}
      /\ Spawned' = Spawned
  <2>1. proc \in [Runtimes -> ProcType] /\ Dead \in ProcType BY ProcTyped, DeadType DEF Inv
  <2>2. proc' = [r \in Runtimes |-> IF Live(r) THEN Dead ELSE proc[r]] BY DEF Restart
  <2>3. \A r \in Runtimes : ~Live(r) => proc[r].st \in {"none", "dead"}
    BY <2>1 DEF Live, ProcType
  <2>4. \A r \in Runtimes : proc'[r].st \in {"none", "dead"} BY <2>2, <2>3 DEF Dead
  <2>5. \A r \in Runtimes : ~Live(r)' BY <2>4 DEF Live, Up
  <2>6. Spawned' = Spawned BY <2>2 DEF Spawned, Live, Up, Dead
  <2> QED BY <2>1, <2>2, <2>4, <2>5, <2>6
<1>5. adrift' = (yaml = "move") /\ faults' \in 0..MaxFaults
  BY BoundsAssumption DEF Restart, Faulty, Inv, TypeOK
<1>6. MotionHasWindow' BY <1>1, <1>5 DEF MotionHasWindow
<1>7. TypeOK'
  <2>1. /\ handler' \in [Handlers -> HandlerType]
        /\ moved' \in [Handlers -> SUBSET Runtimes]
        /\ stale' \in SUBSET Nat /\ seq' \in Nat /\ tracked' \in Spawned' \cup {None}
    BY <1>2, <1>3 DEF Inv, TypeOK
  <2>2. adrift' \in BOOLEAN BY <1>5, Zenon
  <2>3. active' \in BOOLEAN /\ watchdog' \in BOOLEAN /\ lost' \in BOOLEAN BY <1>2
  <2> QED BY <1>1, <1>4, <1>5, <2>1, <2>2, <2>3
          DEF Inv, TypeOK, HandlerType, ProcType, TextType
<1>8. \A h \in Handlers : handler'[h].kind = "none" /\ handler'[h].step = "error" /\ handler'[h].seq = 0
  BY <1>2 DEF Idle
<1>9. KindOK' /\ AckOK' /\ StopOK' BY <1>8 DEF KindOK, Fits, AckOK, StopOK, At, Stops
<1>10. SeqOK' BY <1>1, <1>2, <1>8 DEF SeqOK
<1>11. TrackOK' /\ MovedOK' /\ FileOK' BY <1>2, <1>4 DEF TrackOK, MovedOK, FileOK
<1>12. FreshOK' BY <1>1, <1>4 DEF Inv, FreshOK, Spawned
<1> QED BY <1>6, <1>7, <1>9, <1>10, <1>11, <1>12 DEF Inv

\* What an answer does to the processes, to what was moving, and to those who wait for it.
LEMMA AnswerKeepsInv ==
  ASSUME Inv, NEW r \in Runtimes, NEW st \in Up, NEW ok \in BOOLEAN, Answer(r, st, ok),
         proc[r].st \in Up, file.op # "none",
         st = "moving" => proc[r].st = "moving" \/ file.op = "start",
         file.op = "stop" => st # "moving",
         file.op = "start" => (st \in {"ready", "moving"} => proc[r].st \in {"ready", "moving"})
  PROVE  Inv'
<1>1. UNCHANGED <<arrived, faults, driveVars, tracked, ready, file, seq, lost, stale>> BY DEF Answer
<1>2. file.seq \in Nat /\ Text \in TextType BY DEF Inv, TypeOK, Text, TextType
<1>3. /\ proc' \in [Runtimes -> ProcType]
      /\ proc'[r].st = st
      /\ \A q \in Runtimes : q # r => proc'[q] = proc[q]
  <2>1. proc \in [Runtimes -> ProcType] BY ProcTyped DEF Inv
  <2>2. [st |-> st, seen |-> Text] \in ProcType BY <1>2 DEF ProcType
  <2> QED BY <2>1, <2>2 DEF Answer
<1>4. lastOp' = [seq |-> file.seq, ok |-> ok] BY DEF Answer
<1>5. /\ moved' \in [Handlers -> SUBSET Runtimes]
      /\ \A h \in Handlers : moved'[h] = IF st = "moving" THEN moved[h] ELSE moved[h] \ {r}
  BY DEF Answer, Inv, TypeOK
<1>6. /\ handler' \in [Handlers -> HandlerType]
      /\ \A h \in Handlers :
           /\ handler'[h].step = handler[h].step /\ handler'[h].kind = handler[h].kind
           /\ handler'[h].seq = handler[h].seq
           /\ At(h, "ack") /\ handler[h].seq = file.seq => handler'[h].done = ok
           /\ ~(At(h, "ack") /\ handler[h].seq = file.seq) => handler'[h].done = handler[h].done
  <2>1. handler \in [Handlers -> HandlerType] BY DEF Inv, TypeOK, HandlerType
  <2>2. handler' = [h \in Handlers |-> IF At(h, "ack") /\ handler[h].seq = file.seq
                                       THEN [handler[h] EXCEPT !.done = ok] ELSE handler[h]]
    BY DEF Answer
  <2> QED BY <2>1, <2>2 DEF HandlerType
<1>7. tracked' \in Spawned' \cup {None} BY <1>1, <1>3 DEF Inv, TypeOK, Spawned, Up
<1>8. TypeOK'
  BY <1>1, <1>2, <1>3, <1>4, <1>5, <1>6, <1>7
     DEF Inv, TypeOK, HandlerType, ProcType, TextType, driveVars
<1>9. KindOK' /\ SeqOK' BY <1>1, <1>4, <1>6 DEF Inv, KindOK, SeqOK
<1>10. TrackOK' /\ MovedOK'
  <2>1. TrackOK' BY <1>1, <1>3 DEF Inv, TrackOK, Live, Up
  <2>2. MovedOK' BY <1>3, <1>5 DEF Inv, MovedOK
  <2> QED BY <2>1, <2>2
<1>11. st # "moving" /\ ~lost => \A h \in Handlers : moved'[h] = {}
  <2>1. \A q \in Runtimes : proc[q].st = "moving" => Live(q) BY DEF Live, Up
  <2>2. Live(r) BY DEF Live
  <2>3. ~lost => \A h \in Handlers : moved[h] \subseteq {r}
    BY <2>1, <2>2 DEF Inv, TrackOK, MovedOK
  <2> QED BY <1>5, <2>3
<1>12. \A h \in Handlers : moved[h] = {} => moved'[h] = {} BY <1>5
<1>13. AckOK'
  <2> SUFFICES ASSUME NEW h \in Handlers, At(h, "ack")' PROVE Waiting(h)'
    BY DEF AckOK
  <2>1. At(h, "ack") /\ Waiting(h) BY <1>6 DEF At, Inv, AckOK
  <2>2. file'.op # "none" /\ file'.seq = handler'[h].seq => file'.op = OpOf(handler'[h].kind)
    BY <1>1, <1>6, <2>1 DEF Waiting
  <2>3. lastOp'.ok /\ lastOp'.seq = handler'[h].seq => handler'[h].done
    BY <1>4, <1>6, <2>1
  <2>4. handler'[h].done => Quiet(h)'
    <3>1. CASE handler[h].seq = file.seq
      <4>1. handler[h].kind \in Stops => file.op = "stop" BY <2>1, <3>1 DEF Waiting, OpOf
      <4> QED BY <1>1, <1>6, <1>11, <4>1 DEF Quiet
    <3>2. CASE handler[h].seq # file.seq
      BY <1>1, <1>6, <1>12, <2>1, <3>2 DEF Waiting, Quiet
    <3> QED BY <3>1, <3>2
  <2> QED BY <2>2, <2>3, <2>4 DEF Waiting
<1>14. StopOK' BY <1>1, <1>6, <1>12 DEF Inv, StopOK, At
<1>15. FileOK' BY <1>1, <1>3 DEF Inv, FileOK
<1>16. MotionHasWindow' BY <1>1 DEF Inv, MotionHasWindow, driveVars
<1>17. FreshOK'
  <2>1. Spawned' = Spawned BY <1>3 DEF Spawned, Up
  <2>2. \A q \in Runtimes : Live(q)' => Live(q) BY <1>3 DEF Live
  <2>3. \A q \in file.by : q \in Runtimes BY DEF Inv, FreshOK, Spawned
  <2>4. \A q \in Runtimes : proc'[q].st = "moving" => q \in file.by
    <3>1. proc[r].st = "moving" => r \in file.by BY DEF Inv, FreshOK
    <3>2. file.op = "start" /\ st = "moving" => r \in file.by BY DEF Inv, FileOK
    <3> QED BY <1>3, <3>1, <3>2 DEF Inv, FreshOK
  <2>5. \A q \in Runtimes : proc'[q].st = "moving" => lastOp'.seq <= seq'
    <3> SUFFICES ASSUME NEW q \in Runtimes, proc'[q].st = "moving" PROVE lastOp'.seq <= seq'
      OBVIOUS
    <3>1. q \in file.by /\ Live(q) BY <2>2, <2>4 DEF Live, Up
    <3> QED BY <1>1, <1>4, <3>1 DEF Inv, FreshOK
  <2> QED BY <1>1, <2>1, <2>2, <2>3, <2>4, <2>5 DEF Inv, FreshOK
<1> QED BY <1>8, <1>9, <1>10, <1>13, <1>14, <1>15, <1>16, <1>17 DEF Inv

LEMMA CommandKeepsInv ==
  ASSUME Inv, NEW r \in Runtimes, Load(r) \/ Start(r) \/ Stop(r)
  PROVE  Inv'
<1>1. CASE Load(r)
  <2>1. file.op = "load" /\ proc[r].st \in Up BY <1>1 DEF Load, Command
  <2>2. CASE proc[r].st = "moving" /\ Answer(r, "moving", FALSE)
    BY <2>1, <2>2, AnswerKeepsInv DEF Up
  <2>3. CASE Answer(r, "ready", TRUE) BY <2>1, <2>3, AnswerKeepsInv DEF Up
  <2>4. CASE Answer(r, "idle", FALSE) BY <2>1, <2>4, AnswerKeepsInv DEF Up
  <2> QED BY <1>1, <2>2, <2>3, <2>4 DEF Load
<1>2. CASE Start(r)
  <2>1. file.op = "start" /\ proc[r].st \in Up BY <1>2 DEF Start, Command
  <2>2. CASE proc[r].st = "idle"
    <3>1. Answer(r, "idle", FALSE) BY <1>2, <2>2 DEF Start
    <3> QED BY <2>1, <3>1, AnswerKeepsInv DEF Up
  <2>3. CASE proc[r].st # "idle"
    <3>1. Answer(r, "moving", TRUE) BY <1>2, <2>3 DEF Start
    <3>2. proc[r].st \in {"ready", "moving"} BY <2>1, <2>3 DEF Up
    <3> QED BY <2>1, <3>1, <3>2, AnswerKeepsInv DEF Up
  <2> QED BY <2>2, <2>3
<1>3. CASE Stop(r)
  <2>1. file.op = "stop" /\ proc[r].st \in Up BY <1>3 DEF Stop, Command
  <2>2. PICK st \in Up \ {"moving"} : Answer(r, st, TRUE)
    BY <1>3, <2>1 DEF Stop, Up
  <2> QED BY <2>1, <2>2, AnswerKeepsInv
<1> QED BY <1>1, <1>2, <1>3

----
LEMMA NextKeepsInv == Inv /\ [Next]_vars => Inv'
<1> SUFFICES ASSUME Inv, [Next]_vars PROVE Inv' OBVIOUS
<1>1. ASSUME NEW h \in Handlers, Handle(h) PROVE Inv'
  BY <1>1, DriveKeepsInv, AskKeepsInv, WriteKeepsInv, WriteFailsKeepsInv, SpawnKeepsInv,
     UntrackKeepsInv, TerminateKeepsInv DEF Handle
<1>2. CASE Watch \/ WatchStop BY <1>2, WindowKeepsInv
<1>3. ASSUME NEW r \in Runtimes, Work(r) PROVE Inv'
  BY <1>3, BootKeepsInv, CommandKeepsInv DEF Work
<1>4. ASSUME NEW h \in Handlers, NEW kind \in Kinds, Request(h, kind) PROVE Inv'
  BY <1>4, RequestKeepsInv
<1>5. ASSUME NEW r \in Runtimes, Crash(r) PROVE Inv' BY <1>5, CrashKeepsInv
<1>7. CASE Restart BY <1>7, RestartKeepsInv
<1>6. CASE UNCHANGED vars
  BY <1>6 DEF Inv, TypeOK, KindOK, MotionHasWindow, TrackOK, MovedOK, SeqOK, FreshOK, AckOK,
              Waiting, Quiet, StopOK, FileOK, At, Live, Spawned, vars, requestVars, driveVars, procVars,
              fileVars, ghosts
<1> QED BY <1>1, <1>2, <1>3, <1>4, <1>5, <1>6, <1>7 DEF Next, Run

LEMMA InvHolds == Spec => []Inv
<1>1. Init => Inv BY InvInit
<1>2. Inv /\ [Next]_vars => Inv' BY NextKeepsInv
<1> QED BY <1>1, <1>2, PTL DEF Spec

\* The variables keep their types, and the agent only tracks a process it spawned.
THEOREM AgentTypeCorrect == Spec => []TypeOK
<1>1. Inv => TypeOK BY DEF Inv
<1> QED BY <1>1, InvHolds, PTL

\* Whoever closes a window of the manual drive (a stop, the watchdog) or takes its command
\* file away: a movement stays in the file without a window only after a write of that file
\* that failed, or a restart inside the window.
THEOREM MovementHasWindow == Spec => []MotionHasWindow
<1>1. Inv => MotionHasWindow BY DEF Inv
<1> QED BY <1>1, InvHolds, PTL

----
\* What the actions promise.

\* A thread moves itself only, and knows where to.
LEMMA HandleMoves ==
  ASSUME Inv, NEW g \in Handlers, Handle(g)
  PROVE  /\ \A h \in Handlers : h # g => handler'[h] = handler[h]
         /\ \/ handler'[g].step # "ok"
            \/ Accept(g) \/ Zero(g) \/ NotRunning(g) \/ Forget(g)
            \/ Ack(g) /\ lastOp.ok
<1>1. CASE Write(g)
  BY <1>1 DEF Write, Inv, TypeOK
<1>2. CASE Acquire(g) \/ Refuse(g) \/ Running(g) \/ Unpublish(g) \/ Ensure(g) \/ WaitReady(g)
           \/ WaitRaises(g) \/ (\E r \in Runtimes : Spawn(g, r)) \/ Kill(g)
  <2>1. PICK step \in Steps \ {"ok"} : Go(g, step)
    BY <1>2 DEF Acquire, Refuse, Running, Unpublish, Ensure, WaitReady, WaitRaises, Spawn, Kill,
                Steps, Ended
  <2> QED BY <2>1, GoOn DEF Inv
<1>3. CASE SpawnFails(g) \/ WaitFails(g) \/ WriteFails(g) \/ AckFails(g) \/ (Ack(g) /\ ~lastOp.ok)
  <2>1. Failed(g) \in Steps \ {"ok"} BY DEF Failed, Steps, Ended
  <2>2. Go(g, Failed(g)) BY <1>3 DEF SpawnFails, WaitFails, WriteFails, AckFails, Ack
  <2> QED BY <2>1, <2>2, GoOn DEF Inv
<1>4. CASE Accept(g) \/ Zero(g) \/ NotRunning(g) \/ Forget(g) \/ (Ack(g) /\ lastOp.ok)
  <2>1. PICK step \in Steps : Go(g, step)
    BY <1>4 DEF Accept, Zero, NotRunning, Forget, Ack, Succeeded, Steps, Ended
  <2> QED BY <1>4, <2>1, GoOn DEF Inv
<1> QED BY <1>1, <1>2, <1>3, <1>4 DEF Handle

LEMMA AnswersBy ==
  ASSUME Inv, Next, NEW h \in Handlers, Answers(h)
  PROVE  \/ Accept(h) \/ Zero(h) \/ NotRunning(h) \/ Forget(h)
         \/ Ack(h) /\ lastOp.ok
<1>1. handler[h].step # "ok" /\ handler[h].step \notin Ended /\ handler'[h].step = "ok"
  BY DEF Answers, Ended
<1>2. ASSUME NEW g \in Handlers, Handle(g)
      PROVE  \/ Accept(h) \/ Zero(h) \/ NotRunning(h) \/ Forget(h)
             \/ Ack(h) /\ lastOp.ok
  <2>1. g = h BY <1>1, <1>2, HandleMoves
  <2> QED BY <1>1, <1>2, <2>1, HandleMoves
<1>3. ASSUME NEW g \in Handlers, NEW kind \in Kinds, Request(g, kind) PROVE FALSE
  <2>1. g # h BY <1>1, <1>3 DEF Request
  <2>2. handler'[h] = handler[h] BY <1>3, <2>1 DEF Request, Inv, TypeOK
  <2> QED BY <1>1, <2>2
<1>4. ASSUME NEW r \in Runtimes, Work(r) PROVE FALSE
  <2>1. CASE Boot(r) BY <1>1, <2>1 DEF Boot, requestVars
  <2>2. CASE \E st, ok : Answer(r, st, ok)
    <3>1. handler'[h].step = handler[h].step BY <2>2 DEF Answer, Inv, TypeOK
    <3> QED BY <1>1, <3>1
  <2>3. Load(r) \/ Start(r) \/ Stop(r) => \E st, ok : Answer(r, st, ok)
    BY Zenon DEF Load, Start, Stop
  <2> QED BY <1>4, <2>1, <2>2, <2>3 DEF Work
<1>5. ASSUME NEW r \in Runtimes, Crash(r) PROVE FALSE BY <1>1, <1>5 DEF Crash
<1>6. CASE Watch \/ WatchStop BY <1>1, <1>6 DEF Watch, WatchStop, requestVars
<1>7. CASE Restart BY <1>1, <1>7 DEF Restart, Idle
<1> QED BY <1>2, <1>3, <1>4, <1>5, <1>6, <1>7 DEF Next, Run

\* A stop that is answered leaves nothing moving that moved when it came, as long as every
\* living runtime is the one the agent tracks: by the acknowledgement of the right command,
\* or by the end of the process, whatever other requests did in between.
THEOREM StopIsHeld == Spec => StopHolds
<1>1. Inv /\ [Next]_vars =>
        [\A h \in Handlers : handler[h].kind \in Stops /\ Answers(h) /\ ~lost => moved[h] = {}]_vars
  <2> SUFFICES ASSUME Inv, Next, NEW h \in Handlers, handler[h].kind \in Stops, Answers(h), ~lost
               PROVE  moved[h] = {}
    OBVIOUS
  <2>1. Fits(handler[h].kind, handler[h].step) BY DEF Inv, KindOK
  <2>2. CASE Accept(h) BY <2>1, <2>2 DEF Accept, At, Fits, Stops
  <2>3. CASE Zero(h)
    <3>1. handler[h].kind = "pstop"
      <4>1. Go(h, IF handler[h].kind = "estop" THEN "alive" ELSE "ok") BY <2>3 DEF Zero
      <4>2. handler[h].kind # "estop"
        BY <4>1, GoOn DEF Inv, Answers, Steps
      <4> QED BY <4>2 DEF Stops
    <3> QED BY <2>3, <3>1 DEF Zero, Inv, StopOK, At
  <2>4. CASE NotRunning(h)
    <3>1. \A r \in moved[h] : r \in Runtimes /\ proc[r].st = "moving" BY DEF Inv, MovedOK
    <3>2. \A r \in Runtimes : proc[r].st = "moving" => r = tracked BY DEF Inv, TrackOK, Live, Up
    <3> QED BY <2>4, <3>1, <3>2 DEF NotRunning, SeemsDead, Up
  <2>5. CASE Ack(h) /\ lastOp.ok BY <2>5 DEF Ack, Inv, AckOK, Waiting, Quiet
  <2>6. CASE Forget(h) BY <2>6 DEF Forget, Inv, StopOK
  <2> QED BY <2>2, <2>3, <2>4, <2>5, <2>6, AnswersBy
<1> QED BY <1>1, InvHolds, PTL DEF StopHolds, Spec

\* A load or a start that is reported done was executed, whatever other requests wrote over
\* the command file and whichever runtimes came and went, also across restarts of the agent,
\* which begin the numbers anew: only a request that gets the very number that the agent before
\* left in the command file or the state file may be told of another one's execution.
THEOREM AnswersAreOwn == Spec => AnswerIsOwn
<1>1. Inv /\ [Next]_vars =>
        [\A h \in Handlers :
           /\ handler[h].kind \in {"load", "start"} /\ Answers(h)
           /\ handler[h].seq \notin stale
           => handler[h].done]_vars
  <2> SUFFICES ASSUME Inv, Next, NEW h \in Handlers, handler[h].kind \in {"load", "start"}, Answers(h),
                      handler[h].seq \notin stale
               PROVE  handler[h].done
    OBVIOUS
  <2>1. Fits(handler[h].kind, handler[h].step) BY DEF Inv, KindOK
  <2>2. CASE Accept(h) \/ Zero(h) \/ NotRunning(h) \/ Forget(h)
    BY <2>1, <2>2 DEF Accept, Zero, NotRunning, Forget, At, Fits, Stops
  <2>3. CASE Ack(h) /\ lastOp.ok BY <2>3 DEF Ack, Inv, AckOK, Waiting
  <2> QED BY <2>2, <2>3, AnswersBy
<1> QED BY <1>1, InvHolds, PTL DEF AnswerIsOwn, Spec

\* A command that was in the file before a runtime was spawned never makes it move: the new
\* process has no model, and a load that follows takes the old start's place in the file.
THEOREM StaleStartsFail == Spec => NoStaleStart
<1>1. Inv /\ [Next]_vars =>
        [\A r \in Runtimes :
           proc[r].st # "moving" /\ proc'[r].st = "moving" => r \in file.by]_vars
  <2> SUFFICES ASSUME Inv, Next, NEW r \in Runtimes, proc[r].st # "moving", proc'[r].st = "moving"
               PROVE  r \in file.by
    OBVIOUS
  <2>1. proc \in [Runtimes -> ProcType] BY ProcTyped DEF Inv
  <2>2. ASSUME NEW h \in Handlers, Handle(h) PROVE FALSE
    <3>1. CASE proc' = proc BY <3>1
    <3>2. CASE \E q \in Runtimes : Spawn(h, q)
      <4>1. PICK q \in Runtimes : proc' = [proc EXCEPT ![q].st = "boot"] BY <3>2 DEF Spawn
      <4> QED BY <2>1, <4>1
    <3>3. CASE WaitFails(h) \/ Kill(h)
      <4>1. \/ proc' = [proc EXCEPT ![tracked] = Dead]
            \/ proc' = [q \in Runtimes |-> IF q = tracked THEN Dead ELSE proc[q]]
        BY <3>3 DEF WaitFails, Kill
      <4> QED BY <2>1, <4>1 DEF Dead
    <3>4. proc' = proc \/ (\E q \in Runtimes : Spawn(h, q)) \/ WaitFails(h) \/ Kill(h)
      BY <2>2 DEF Handle, Acquire, Accept, Refuse, Zero, NotRunning, Running, Unpublish, Ensure,
                  SpawnFails, WaitReady, WaitRaises, Write, WriteFails, Ack, AckFails, Forget,
                  procVars
    <3> QED BY <3>1, <3>2, <3>3, <3>4
  <2>3. ASSUME NEW q \in Runtimes, NEW st, NEW ok, Answer(q, st, ok)
        PROVE  q = r /\ st = "moving"
    BY <2>1, <2>3 DEF Answer
  <2>4. ASSUME NEW q \in Runtimes, Work(q) PROVE r \in file.by
    <3>1. CASE Boot(q) BY <2>1, <3>1 DEF Boot
    <3>2. CASE Load(q)
      <4>1. ~Answer(q, "ready", TRUE)
        <5> SUFFICES ASSUME Answer(q, "ready", TRUE) PROVE "ready" = "moving" OBVIOUS
        <5> QED BY <2>3
      <4>2. ~Answer(q, "idle", FALSE)
        <5> SUFFICES ASSUME Answer(q, "idle", FALSE) PROVE "idle" = "moving" OBVIOUS
        <5> QED BY <2>3
      <4>3. proc[q].st = "moving" /\ Answer(q, "moving", FALSE) BY <3>2, <4>1, <4>2 DEF Load
      <4>4. q = r BY <2>3, <4>3
      <4> QED BY <4>3, <4>4
    <3>3. CASE Stop(q)
      <4>1. Answer(q, IF proc[q].st = "moving" THEN "idle" ELSE proc[q].st, TRUE)
        BY <3>3 DEF Stop
      <4>2. q = r /\ (IF proc[q].st = "moving" THEN "idle" ELSE proc[q].st) = "moving"
        BY <2>3, <4>1
      <4> QED BY <4>2
    <3>4. CASE Start(q)
      <4>1. file.op = "start" /\ proc[q].st \in Up BY <3>4 DEF Start, Command
      <4>2. proc[q].st # "idle" /\ q = r BY <2>3, <3>4 DEF Start
      <4>3. proc[r].st = "ready" BY <4>1, <4>2 DEF Up
      <4> QED BY <4>1, <4>3 DEF Inv, FileOK
    <3> QED BY <2>4, <3>1, <3>2, <3>3, <3>4 DEF Work
  <2>5. ASSUME NEW h \in Handlers, NEW kind \in Kinds, Request(h, kind) PROVE FALSE
    BY <2>5 DEF Request, procVars
  <2>6. ASSUME NEW q \in Runtimes, Crash(q) PROVE FALSE
    BY <2>1, <2>6 DEF Crash, Dead
  <2>7. CASE Watch \/ WatchStop BY <2>7 DEF Watch, WatchStop, procVars
  <2>8. CASE Restart BY <2>8 DEF Restart, Dead
  <2> QED BY <2>2, <2>4, <2>5, <2>6, <2>7, <2>8 DEF Next, Run
<1> QED BY <1>1, InvHolds, PTL DEF NoStaleStart, Spec

----
\* Why a busy agent comes to rest: two measures that its own steps use up. They are what
\* makes the fairness of Run enough.

\* How many steps a request may still take.
Height(kind, step) ==
  CASE step = "zero" -> (IF kind = "estop" THEN 9 ELSE 1)
    [] step \in {"alive", "unpublish"} -> 8
    [] step = "ensure" -> 7
    [] step = "wait" -> 6
    [] step = "write" -> 5
    [] step = "ack" -> 4
    [] step = "kill" -> 3
    [] step \in {"forget", "lock"} -> 2
    [] step = "handshake" -> 1
    [] OTHER -> 0

Heights == [h \in Handlers |-> Height(handler[h].kind, handler[h].step)]

\* What the watchdog, at place 0, and each runtime have left to do while the requests rest.
Window == IF watchdog THEN 1 ELSE IF active THEN 2 ELSE 0

Backlog(r) ==
  CASE proc[r].st = "boot" -> 2
    [] proc[r].st \in Up /\ Text # proc[r].seen -> 1
    [] OTHER -> 0

Chores == [r \in Runtimes \cup {0} |-> IF r = 0 THEN Window ELSE Backlog(r)]

\* Lower somewhere, higher nowhere.
Below(new, old) == new # old /\ \A x \in DOMAIN old : new[x] <= old[x]

LEMMA HeightType == \A kind, step : Height(kind, step) \in 0..9
  BY DEF Height

LEMMA ChoresType == Chores \in [Runtimes \cup {0} -> 0..2]
<1>1. Window \in 0..2 /\ \A r \in Runtimes : Backlog(r) \in 0..2 BY DEF Window, Backlog
<1> QED BY <1>1 DEF Chores

\* A thread that gets lower lowers them all.
LEMMA OneLower ==
  ASSUME NEW h \in Handlers,
         Height(handler'[h].kind, handler'[h].step) < Height(handler[h].kind, handler[h].step),
         \A g \in Handlers : g # h => handler'[g] = handler[g]
  PROVE  Below(Heights', Heights)
<1>1. Heights'[h] < Heights[h] BY DEF Heights
<1>2. \A g \in Handlers : Heights'[g] \in 0..9 /\ Heights[g] \in 0..9 BY HeightType DEF Heights
<1>3. \A g \in Handlers : g # h => Heights'[g] = Heights[g] BY DEF Heights
<1>4. Heights' # Heights BY <1>1, <1>2
<1>5. \A g \in Handlers : Heights'[g] <= Heights[g]
  <2> SUFFICES ASSUME NEW g \in Handlers PROVE Heights'[g] <= Heights[g] OBVIOUS
  <2>1. Heights'[g] \in 0..9 /\ Heights[g] \in 0..9 /\ (g # h => Heights'[g] = Heights[g])
    BY <1>2, <1>3
  <2> QED BY <1>1, <2>1
<1> QED BY <1>4, <1>5 DEF Below, Heights

\* Every step of a thread leads down: no request goes round in a circle, whatever fails.
LEMMA HandleDescends ==
  ASSUME Inv, NEW h \in Handlers, Handle(h) PROVE Below(Heights', Heights)
<1> DEFINE kind == handler[h].kind
           from == handler[h].step
<1>1. handler \in [Handlers -> HandlerType] BY DEF Inv, TypeOK, HandlerType
<1>2. ASSUME NEW step \in Steps, Go(h, step), Height(kind, step) < Height(kind, from)
      PROVE  Below(Heights', Heights)
  <2>1. /\ handler'[h].step = step
        /\ step \notin Ended => handler'[h].kind = kind
        /\ \A g \in Handlers : g # h => handler'[g] = handler[g]
    BY <1>2, GoOn DEF Inv
  <2>2. step \in Ended => \A any : Height(any, step) = 0 BY DEF Height, Ended
  <2>3. Height(handler'[h].kind, step) = Height(kind, step) BY <2>1, <2>2
  <2> QED BY <1>2, <2>1, <2>3, OneLower
<1>3. CASE Write(h)
  <2>1. /\ handler'[h].step = "ack" /\ from = "write"
        /\ \A g \in Handlers : g # h => handler'[g] = handler[g]
    BY <1>1, <1>3 DEF Write, At
  <2> QED BY <2>1, OneLower DEF Height
<1>4. CASE Acquire(h)
  BY <1>2, <1>4 DEF Acquire, At, Steps, Height
<1>5. CASE Accept(h) \/ Refuse(h)
  BY <1>2, <1>5 DEF Accept, Refuse, At, Steps, Ended, Height
<1>6. CASE Zero(h)
  BY <1>2, <1>6 DEF Zero, At, Steps, Ended, Height
<1>7. CASE NotRunning(h) \/ Running(h) \/ Unpublish(h)
  BY <1>2, <1>7 DEF NotRunning, Running, Unpublish, At, Steps, Ended, Height
<1>8. CASE Ensure(h) \/ WaitReady(h) \/ WaitRaises(h) \/ Kill(h) \/ (\E r \in Runtimes : Spawn(h, r))
  BY <1>2, <1>8 DEF Ensure, WaitReady, WaitRaises, Kill, Spawn, At, Steps, Ended, Height
<1>9. CASE SpawnFails(h) \/ WaitFails(h) \/ WriteFails(h) \/ AckFails(h) \/ (Ack(h) /\ ~lastOp.ok)
  <2>1. Go(h, Failed(h)) /\ from \in {"ensure", "wait", "write", "ack"}
    BY <1>9 DEF SpawnFails, WaitFails, WriteFails, AckFails, Ack, At
  <2>2. Failed(h) \in {"kill", "error"} BY DEF Failed
  <2> QED BY <1>2, <2>1, <2>2 DEF Steps, Ended, Height
<1>10. CASE Forget(h) \/ (Ack(h) /\ lastOp.ok)
  <2>1. Go(h, Succeeded(h)) /\ from \in {"forget", "ack"} BY <1>10 DEF Forget, Ack, At
  <2>2. Succeeded(h) = IF kind = "pstop" THEN "zero" ELSE "ok" BY DEF Succeeded
  <2> QED BY <1>2, <2>1, <2>2 DEF Steps, Ended, Height
<1> QED BY <1>3, <1>4, <1>5, <1>6, <1>7, <1>8, <1>9, <1>10 DEF Handle

\* A chore done lowers them all.
LEMMA OneChore ==
  ASSUME NEW q \in Runtimes \cup {0}, Chores'[q] < Chores[q],
         \A r \in Runtimes \cup {0} : r # q => Chores'[r] = Chores[r]
  PROVE  Below(Chores', Chores)
<1>1. \A r \in Runtimes \cup {0} : Chores[r] \in 0..2 /\ Chores'[r] \in 0..2
  BY ChoresType, BoundsAssumption DEF Chores, Window, Backlog
<1>2. Chores' # Chores BY <1>1
<1>3. \A r \in Runtimes \cup {0} : Chores'[r] <= Chores[r]
  <2> SUFFICES ASSUME NEW r \in Runtimes \cup {0} PROVE Chores'[r] <= Chores[r] OBVIOUS
  <2>1. Chores'[r] \in 0..2 /\ Chores[r] \in 0..2 /\ (r # q => Chores'[r] = Chores[r]) BY <1>1
  <2> QED BY <2>1
<1> QED BY <1>2, <1>3, ChoresType DEF Below

\* The watchdog closes a window in two steps, and opens none.
LEMMA WatchTires ==
  ASSUME Inv, Watch \/ WatchStop PROVE Heights' = Heights /\ Below(Chores', Chores)
<1>1. UNCHANGED <<handler, proc, file>>
  BY DEF Watch, WatchStop, requestVars, procVars, fileVars
<1>2. active \in BOOLEAN /\ watchdog \in BOOLEAN BY DEF Inv, TypeOK
<1>3. Window' < Window BY <1>2 DEF Watch, WatchStop, DriveStop, Window
<1>4. Heights' = Heights BY <1>1 DEF Heights
<1>5. \A r \in Runtimes : Backlog(r)' = Backlog(r) BY <1>1 DEF Backlog, Text
<1>6. Chores'[0] < Chores[0] BY <1>3 DEF Chores
<1>7. \A r \in Runtimes \cup {0} : r # 0 => Chores'[r] = Chores[r] BY <1>5 DEF Chores
<1> QED BY <1>4, <1>6, <1>7, OneChore

\* A runtime comes up once, and reads a command once.
LEMMA WorkTires ==
  ASSUME Inv, NEW q \in Runtimes, Work(q) PROVE Heights' = Heights /\ Below(Chores', Chores)
<1>1. /\ handler \in [Handlers -> HandlerType]
      /\ proc \in [Runtimes -> ProcType]
      /\ q # 0
  BY ProcTyped DEF Inv, TypeOK, HandlerType, Runtimes
<1>2. CASE Boot(q)
  <2>1. UNCHANGED <<handler, active, watchdog, file>> /\ proc[q].st = "boot"
    BY <1>2 DEF Boot, requestVars, driveVars
  <2>2. proc'[q].st = "idle" /\ \A r \in Runtimes : r # q => proc'[r] = proc[r]
    BY <1>1, <1>2 DEF Boot
  <2>3. Backlog(q)' < Backlog(q) BY <2>1, <2>2 DEF Backlog, Text, Up
  <2>4. \A r \in Runtimes : r # q => Backlog(r)' = Backlog(r) BY <2>1, <2>2 DEF Backlog, Text
  <2>5. Window' = Window BY <2>1 DEF Window
  <2>6. Chores'[q] < Chores[q] BY <1>1, <2>3 DEF Chores
  <2>7. \A r \in Runtimes \cup {0} : r # q => Chores'[r] = Chores[r] BY <2>4, <2>5 DEF Chores
  <2>8. Heights' = Heights BY <2>1 DEF Heights
  <2> QED BY <2>6, <2>7, <2>8, OneChore
<1>3. ASSUME NEW st \in Up, NEW ok \in BOOLEAN, Answer(q, st, ok),
             proc[q].st \in Up, Text # proc[q].seen
      PROVE  Heights' = Heights /\ Below(Chores', Chores)
  <2>1. UNCHANGED <<active, watchdog, file>> BY <1>3 DEF Answer, driveVars
  <2>2. /\ proc'[q].st = st /\ proc'[q].seen = Text
        /\ \A r \in Runtimes : r # q => proc'[r] = proc[r]
    BY <1>1, <1>3 DEF Answer
  <2>3. \A h \in Handlers : handler'[h].kind = handler[h].kind /\ handler'[h].step = handler[h].step
    BY <1>1, <1>3 DEF Answer, HandlerType
  <2>4. Backlog(q)' < Backlog(q) BY <1>3, <2>1, <2>2 DEF Backlog, Text, Up
  <2>5. \A r \in Runtimes : r # q => Backlog(r)' = Backlog(r) BY <2>1, <2>2 DEF Backlog, Text
  <2>6. Window' = Window BY <2>1 DEF Window
  <2>7. Chores'[q] < Chores[q] BY <1>1, <2>4 DEF Chores
  <2>8. \A r \in Runtimes \cup {0} : r # q => Chores'[r] = Chores[r] BY <2>5, <2>6 DEF Chores
  <2>9. Heights' = Heights BY <2>3 DEF Heights
  <2> QED BY <2>7, <2>8, <2>9, OneChore
<1>4. CASE Load(q) \/ Start(q) \/ Stop(q)
  <2>1. proc[q].st \in Up /\ Text # proc[q].seen BY <1>4 DEF Load, Start, Stop, Command
  <2>2. \E st \in Up, ok \in BOOLEAN : Answer(q, st, ok)
    BY <1>4, <2>1 DEF Load, Start, Stop, Up
  <2> QED BY <1>3, <2>1, <2>2
<1> QED BY <1>2, <1>4 DEF Work

\* The agent's own steps run out. Each of them lowers what the requests have ahead of them,
\* or leaves that alone and lowers what the watchdog and the runtimes have to do; both are
\* tuples of small natural numbers, so without new requests only finitely many steps follow,
\* and a step that can be taken is taken: the waits of _policy_send and
\* _start_policy_runtime have deadlines, and policy_stop goes on to terminate, never back.
THEOREM StepsRunOut ==
  Spec => [][Run => \/ Below(Heights', Heights)
                    \/ Heights' = Heights /\ Below(Chores', Chores)]_vars
<1>1. Inv /\ Run => \/ Below(Heights', Heights)
                    \/ Heights' = Heights /\ Below(Chores', Chores)
  BY HandleDescends, WatchTires, WorkTires DEF Run
<1> QED BY <1>1, InvHolds, PTL DEF Spec
====
