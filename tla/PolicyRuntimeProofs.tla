---- MODULE PolicyRuntimeProofs ----
\* Theorems about PolicyRuntime for every number of sessions.
EXTENDS PolicyRuntime, TLAPS

----
\* The inductive invariant.

\* A session is open exactly in the running state, and reported when it is closed.
SessionOK ==
  /\ session = 0 => ~stopped /\ ~emitted
  /\ state = "running" => session # 0 /\ ~emitted
  /\ state # "running" /\ session # 0 => emitted

\* The loops: none of a session to come; the running session's has not seen a flag that is
\* clear, and a loop that published since the flag was set does not publish again.
LoopOK ==
  /\ \A s \in Sessions : s > session => loop[s] = "none"
  /\ ops = "spawn" => session # 0 /\ loop[session] = "none"
  /\ state = "running" /\ ~flag =>
       ops = "spawn" \/ loop[session] \in {"top", "sense", "publish", "raise"}
  /\ flag => \A s \in Sessions :
       \/ late[s] = 0
       \/ late[s] = 1 /\ loop[s] \notin {"sense", "publish"}

\* Only a live loop moves the robot, and only over a bound topic.
CmdOK == MovingIsAttended /\ (~bound => cmd = "zero")

Inv == TypeOK /\ SessionOK /\ LoopOK /\ CmdOK /\ ReadyHasModel

----
\* The parts that several actions share.

LEMMA ZeroRange == 0 \in 0..MaxSessions /\ \A s \in 1..MaxSessions : s \in 0..MaxSessions /\ s # 0
BY SessionsAssumption

LEMMA InvInit == Init => Inv
<1> SUFFICES ASSUME Init PROVE Inv OBVIOUS
<1>1. TypeOK
  <2>1. <<>> \in Seq(Sessions) /\ 0 \in Nat OBVIOUS
  <2>2. flag \in BOOLEAN /\ bound \in BOOLEAN BY Zenon DEF Init
  <2> QED BY <2>1, <2>2, ZeroRange DEF Init, TypeOK, OpsSteps, TermSteps, LoopSteps
<1>2. SessionOK /\ LoopOK /\ CmdOK /\ ReadyHasModel
  BY DEF Init, SessionOK, LoopOK, CmdOK, MovingIsAttended, ReadyHasModel
<1> QED BY <1>1, <1>2 DEF Inv

\* The locked part of a stop or a fault closes the session.
LEMMA Closed ==
  ASSUME TypeOK, SessionOK, CloseSession, state' # "running"
  PROVE  /\ session' \in 0..MaxSessions /\ stopped' \in BOOLEAN /\ emitted' \in BOOLEAN
         /\ terminal' \in Seq(Sessions)
         /\ SessionOK'
<1>1. session # 0 => session \in Sessions BY SessionsAssumption DEF TypeOK, Sessions
<1>2. terminal' \in Seq(Sessions) BY <1>1 DEF CloseSession, TypeOK
<1>3. stopped' \in BOOLEAN /\ emitted' \in BOOLEAN BY Zenon DEF CloseSession
<1>4. session' = session /\ (session # 0 => emitted') /\ (session = 0 => stopped' = stopped /\ emitted' = emitted)
  BY DEF CloseSession, TypeOK
<1> QED BY <1>2, <1>3, <1>4 DEF SessionOK, TypeOK

\* Setting the flag keeps the count of late commands below two.
LEMMA FlagSet ==
  ASSUME TypeOK, LoopOK, RaiseFlag
  PROVE  /\ flag' = TRUE /\ late' \in [Sessions -> Nat]
         /\ \A s \in Sessions :
              \/ late'[s] = 0
              \/ flag /\ late'[s] = 1 /\ loop[s] \notin {"sense", "publish"}
BY DEF TypeOK, LoopOK, RaiseFlag

\* One step of a loop.
LEMMA LoopMoves ==
  ASSUME TypeOK, NEW s \in Sessions, NEW from \in LoopSteps, NEW to \in LoopSteps, Step(s, from, to)
  PROVE  /\ loop' \in [Sessions -> LoopSteps]
         /\ loop[s] = from /\ loop'[s] = to
         /\ \A r \in Sessions : r # s => loop'[r] = loop[r]
BY DEF TypeOK, Step

----
\* The thread of the command file.

LEMMA OpsKeepsInv ==
  ASSUME Inv, Ops
  PROVE  Inv'
<1> USE DEF Inv, sessionVars
<1>s. Served \subseteq OpsSteps /\ "spawn" \notin Served /\ "loading" \in OpsSteps /\ "zero" \in OpsSteps /\ "spawn" \in OpsSteps
  BY DEF Served, OpsSteps
<1>1. CASE BeginLoad
  <2>1. TypeOK' BY <1>1, <1>s DEF BeginLoad, TypeOK
  <2>2. SessionOK' /\ LoopOK' /\ CmdOK' /\ ReadyHasModel'
    BY <1>1 DEF BeginLoad, SessionOK, LoopOK, CmdOK, MovingIsAttended, Live, ReadyHasModel
  <2> QED BY <2>1, <2>2
<1>2. CASE EndLoad
  <2>1. TypeOK' BY <1>2, <1>s DEF EndLoad, TypeOK
  <2>2. SessionOK' /\ LoopOK' /\ CmdOK' /\ ReadyHasModel'
    BY <1>2, <1>s DEF EndLoad, SessionOK, LoopOK, CmdOK, MovingIsAttended, Live, ReadyHasModel
  <2> QED BY <2>1, <2>2
<1>3. CASE FailLoad
  <2>1. TypeOK' BY <1>3, <1>s DEF FailLoad, TypeOK
  <2>2. SessionOK' /\ LoopOK' /\ CmdOK' /\ ReadyHasModel'
    BY <1>3, <1>s DEF FailLoad, SessionOK, LoopOK, CmdOK, MovingIsAttended, Live, ReadyHasModel
  <2> QED BY <2>1, <2>2
<1>4. CASE Start
  <2>0. session \in Nat /\ session + 1 \in Sessions /\ session + 1 \in 0..MaxSessions
    BY <1>4, SessionsAssumption DEF Start, TypeOK, Sessions
  <2>1. TypeOK' BY <1>4, <2>0, <1>s DEF Start, TypeOK
  <2>2. LoopOK'
    <3>1. \A s \in Sessions : s \in Nat BY DEF Sessions
    <3> QED BY <1>4, <2>0, <3>1 DEF Start, LoopOK
  <2>3. SessionOK' /\ CmdOK' /\ ReadyHasModel'
    BY <1>4, <2>0 DEF Start, SessionOK, CmdOK, MovingIsAttended, Live, ReadyHasModel
  <2> QED BY <2>1, <2>2, <2>3
<1>5. CASE Spawn
  <2>0. session \in Sessions /\ session \in Nat
    BY <1>5, SessionsAssumption DEF Spawn, LoopOK, TypeOK, Sessions
  <2>1. /\ loop' \in [Sessions -> LoopSteps] /\ loop'[session] = "top"
        /\ \A r \in Sessions : r # session => loop'[r] = loop[r]
    BY <1>5, <2>0 DEF Spawn, TypeOK, LoopSteps
  <2>2. TypeOK' BY <1>5, <2>1, <1>s DEF Spawn, TypeOK
  <2>3. LoopOK'
    <3>1. \A s \in Sessions : s \in Nat BY DEF Sessions
    <3> QED BY <1>5, <2>0, <2>1, <3>1, <1>s DEF Spawn, LoopOK
  <2>4. CmdOK' BY <1>5, <2>0, <2>1 DEF Spawn, CmdOK, MovingIsAttended, Live
  <2>5. SessionOK' /\ ReadyHasModel' BY <1>5 DEF Spawn, SessionOK, ReadyHasModel
  <2> QED BY <2>2, <2>3, <2>4, <2>5
<1>6. CASE Stop
  <2>1. state' # "running" /\ state' \in {"idle", "ready", "running", "fault"}
        /\ (state' = "ready" => state = "ready") /\ RaiseFlag /\ CloseSession
    BY <1>6 DEF Stop, StopLocked, TypeOK
  <2>2. TypeOK' BY <1>6, <2>1, <1>s, Closed, FlagSet DEF Stop, TypeOK
  <2>3. LoopOK' BY <1>6, <2>1, FlagSet DEF Stop, LoopOK, CloseSession
  <2>4. SessionOK' BY <2>1, Closed
  <2>5. CmdOK' /\ ReadyHasModel' BY <1>6, <2>1 DEF Stop, CmdOK, MovingIsAttended, Live, ReadyHasModel
  <2> QED BY <2>2, <2>3, <2>4, <2>5
<1>7. CASE StopZero
  <2>1. TypeOK' BY <1>7, <1>s DEF StopZero, TypeOK, Publish
  <2>2. SessionOK' /\ LoopOK' /\ CmdOK' /\ ReadyHasModel'
    BY <1>7, <1>s DEF StopZero, Publish, SessionOK, LoopOK, CmdOK, MovingIsAttended, Live, ReadyHasModel
  <2> QED BY <2>1, <2>2
<1>8. CASE Reset
  <2>1. TypeOK' BY <1>8, <1>s DEF Reset, TypeOK
  <2>2. SessionOK' /\ LoopOK' /\ CmdOK' /\ ReadyHasModel'
    BY <1>8, <1>s DEF Reset, SessionOK, LoopOK, CmdOK, MovingIsAttended, Live, ReadyHasModel
  <2> QED BY <2>1, <2>2
<1> QED BY <1>1, <1>2, <1>3, <1>4, <1>5, <1>6, <1>7, <1>8 DEF Ops

----
\* The control loops.

\* A step that changes only its loop and the topic.
LEMMA QuietStep ==
  ASSUME Inv, NEW s \in Sessions, NEW from \in LoopSteps \ {"none"}, NEW to \in LoopSteps,
         Step(s, from, to),
         UNCHANGED <<state, model, flag, sessionVars, ops, term, bound, late, alive>>,
         (cmd' = cmd /\ to # "done") \/ Publish("zero"),
         \/ to \in {"top", "raise"} /\ from \in {"top", "sense", "publish", "raise"}
         \/ to \in {"sense", "publish"} /\ (from = "sense" \/ ~flag)
         \/ to = "leave" /\ flag
         \/ to = "done" /\ from \in {"zero", "leave"}
  PROVE  Inv'
<1> USE DEF Inv, sessionVars
<1>1. /\ loop' \in [Sessions -> LoopSteps] /\ loop[s] = from /\ loop'[s] = to
      /\ \A r \in Sessions : r # s => loop'[r] = loop[r]
  BY LoopMoves
<1>2. cmd' = cmd \/ cmd' = "zero" BY DEF Publish, CmdOK
<1>3. TypeOK' BY <1>1, <1>2 DEF TypeOK
<1>4. s \in Nat /\ s <= session /\ session \in Nat
  BY <1>1, SessionsAssumption DEF LoopOK, TypeOK, Sessions
<1>5. LoopOK'
  <2>1. \A r \in Sessions : r > session' => loop'[r] = "none" BY <1>1, <1>4 DEF LoopOK
  <2>2. ops' = "spawn" => session' # 0 /\ loop'[session'] = "none"
    <3>1. session # 0 => session \in Sessions BY <1>4, SessionsAssumption DEF TypeOK, Sessions
    <3> QED BY <1>1, <3>1 DEF LoopOK
  <2>3. state' = "running" /\ ~flag' =>
          ops' = "spawn" \/ loop'[session'] \in {"top", "sense", "publish", "raise"}
    <3>1. session # 0 => session \in Sessions BY <1>4, SessionsAssumption DEF TypeOK, Sessions
    <3>2. state = "running" => session # 0 BY DEF SessionOK
    <3> QED BY <1>1, <3>1, <3>2 DEF LoopOK
  <2>4. flag' => \A r \in Sessions :
          late'[r] = 0 \/ (late'[r] = 1 /\ loop'[r] \notin {"sense", "publish"})
    <3>1. late' = late /\ flag' = flag OBVIOUS
    <3>2. ASSUME flag, NEW r \in Sessions, late[r] # 0
          PROVE  late[r] = 1 /\ loop'[r] \notin {"sense", "publish"}
      <4>1. late[r] = 1 /\ loop[r] \notin {"sense", "publish"} BY <3>2 DEF LoopOK
      <4> QED BY <1>1, <3>2, <4>1
    <3> QED BY <3>1, <3>2
  <2> QED BY <2>1, <2>2, <2>3, <2>4 DEF LoopOK
<1>6. CmdOK'
  <2>1. CASE cmd' = "zero" BY <2>1 DEF CmdOK, MovingIsAttended
  <2>2. CASE cmd' = cmd /\ to # "done"
    <3>1. to # "none" OBVIOUS
    <3> QED BY <1>1, <2>2, <3>1 DEF CmdOK, MovingIsAttended, Live
  <2> QED BY <2>1, <2>2 DEF Publish, CmdOK
<1>7. SessionOK' /\ ReadyHasModel' BY DEF SessionOK, ReadyHasModel
<1> QED BY <1>3, <1>5, <1>6, <1>7

LEMMA LoopKeepsInv ==
  ASSUME Inv, NEW s \in Sessions, Loop(s)
  PROVE  Inv'
<1> USE DEF sessionVars
<1>0. \A x \in {"top", "sense", "publish", "raise", "flag", "zero", "leave", "done"} : x \in LoopSteps \ {"none"}
  BY DEF LoopSteps
<1>1. CASE Top(s)
  <2>1. CASE flag BY <1>0, <1>1, <2>1, QuietStep DEF Top
  <2>2. CASE ~flag BY <1>0, <1>1, <2>2, QuietStep DEF Top
  <2> QED BY <2>1, <2>2
<1>2. CASE Stale(s)
  <2>1. PICK to \in {"top", "raise"} : Step(s, "sense", to) BY <1>2 DEF Stale
  <2> QED BY <1>0, <1>2, <2>1, QuietStep DEF Stale
<1>3. CASE Infer(s)
  <2>1. PICK to \in {"publish", "raise"} : Step(s, "sense", to) BY <1>3 DEF Infer
  <2> QED BY <1>0, <1>3, <2>1, QuietStep DEF Infer
<1>4. CASE FaultZero(s) BY <1>0, <1>4, QuietStep DEF FaultZero
<1>5. CASE Leave(s) BY <1>0, <1>5, QuietStep DEF Leave
<1>6. CASE Move(s)
  <2> USE DEF Inv
  <2>1. PICK to \in {"top", "raise"} : Step(s, "publish", to) BY <1>6 DEF Move
  <2>2. /\ loop' \in [Sessions -> LoopSteps] /\ loop[s] = "publish" /\ loop'[s] = to
        /\ \A r \in Sessions : r # s => loop'[r] = loop[r]
    BY <1>0, <2>1, LoopMoves
  <2>3. /\ late' \in [Sessions -> Nat] /\ (flag => late'[s] = late[s] + 1)
        /\ \A r \in Sessions : r # s => late'[r] = late[r]
    BY <1>6 DEF Move, TypeOK
  <2>4. cmd' = "move" \/ cmd' = cmd BY <1>6 DEF Move, Publish
  <2>5. TypeOK' BY <1>6, <2>2, <2>3, <2>4 DEF Move, TypeOK
  <2>6. s \in Nat /\ s <= session /\ session \in Nat
    BY <2>2, SessionsAssumption DEF LoopOK, TypeOK, Sessions
  <2>7. LoopOK'
    <3>1. session # 0 => session \in Sessions BY <2>6, SessionsAssumption DEF TypeOK, Sessions
    <3>2. state = "running" => session # 0 BY DEF SessionOK
    <3>3. flag => late'[s] = 1 BY <2>2, <2>3 DEF LoopOK
    <3>4. \A r \in Sessions : r > session' => loop'[r] = "none"
      BY <1>6, <2>2, <2>6 DEF Move, LoopOK
    <3>5. ops' = "spawn" => session' # 0 /\ loop'[session'] = "none"
      BY <1>6, <2>2, <3>1 DEF Move, LoopOK
    <3>6. state' = "running" /\ ~flag' =>
            ops' = "spawn" \/ loop'[session'] \in {"top", "sense", "publish", "raise"}
      BY <1>6, <2>2, <3>1, <3>2 DEF Move, LoopOK
    <3>7. flag' => \A r \in Sessions :
            late'[r] = 0 \/ (late'[r] = 1 /\ loop'[r] \notin {"sense", "publish"})
      <4> SUFFICES ASSUME flag, NEW r \in Sessions
                   PROVE  late'[r] = 0 \/ (late'[r] = 1 /\ loop'[r] \notin {"sense", "publish"})
        BY <1>6 DEF Move
      <4>1. CASE r = s BY <2>2, <3>3, <4>1
      <4>2. CASE r # s
        <5>1. late[r] = 0 \/ (late[r] = 1 /\ loop[r] \notin {"sense", "publish"}) BY DEF LoopOK
        <5>2. late'[r] = late[r] /\ loop'[r] = loop[r] BY <2>2, <2>3, <4>2
        <5> QED BY <5>1, <5>2
      <4> QED BY <4>1, <4>2
    <3> QED BY <3>4, <3>5, <3>6, <3>7 DEF LoopOK
  <2>8. CmdOK' BY <1>6, <2>2 DEF Move, Publish, CmdOK, MovingIsAttended, Live
  <2>9. SessionOK' /\ ReadyHasModel' BY <1>6 DEF Move, SessionOK, ReadyHasModel
  <2> QED BY <2>5, <2>7, <2>8, <2>9
<1>7. CASE Fault(s)
  <2> USE DEF Inv
  <2>2. /\ loop' \in [Sessions -> LoopSteps] /\ loop[s] = "raise" /\ loop'[s] = "flag"
        /\ \A r \in Sessions : r # s => loop'[r] = loop[r]
    BY <1>0, <1>7, LoopMoves DEF Fault
  <2>3. state' = "fault" /\ CloseSession /\ session' = session BY <1>7 DEF Fault, CloseSession
  <2>4. TypeOK' BY <1>7, <2>2, <2>3, Closed DEF Fault, TypeOK
  <2>5. SessionOK' BY <2>3, Closed
  <2>6. s \in Nat /\ s <= session /\ session \in Nat
    BY <2>2, SessionsAssumption DEF LoopOK, TypeOK, Sessions
  <2>7. LoopOK'
    <3>1. session # 0 => session \in Sessions BY <2>6, SessionsAssumption DEF TypeOK, Sessions
    <3> QED BY <1>7, <2>2, <2>3, <2>6, <3>1 DEF Fault, LoopOK
  <2>8. CmdOK' /\ ReadyHasModel'
    BY <1>7, <2>2, <2>3 DEF Fault, CmdOK, MovingIsAttended, Live, ReadyHasModel
  <2> QED BY <2>4, <2>5, <2>7, <2>8
<1>8. CASE FaultFlag(s)
  <2> USE DEF Inv
  <2>2. /\ loop' \in [Sessions -> LoopSteps] /\ loop[s] = "flag" /\ loop'[s] = "zero"
        /\ \A r \in Sessions : r # s => loop'[r] = loop[r]
    BY <1>0, <1>8, LoopMoves DEF FaultFlag
  <2>3. RaiseFlag BY <1>8 DEF FaultFlag
  <2>4. TypeOK' BY <1>8, <2>2, <2>3, FlagSet DEF FaultFlag, TypeOK
  <2>6. s \in Nat /\ s <= session /\ session \in Nat
    BY <2>2, SessionsAssumption DEF LoopOK, TypeOK, Sessions
  <2>7. LoopOK'
    <3>1. session # 0 => session \in Sessions BY <2>6, SessionsAssumption DEF TypeOK, Sessions
    <3> QED BY <1>8, <2>2, <2>3, <2>6, <3>1, FlagSet DEF FaultFlag, LoopOK
  <2>8. SessionOK' /\ CmdOK' /\ ReadyHasModel'
    BY <1>8, <2>2 DEF FaultFlag, SessionOK, CmdOK, MovingIsAttended, Live, ReadyHasModel
  <2> QED BY <2>4, <2>7, <2>8
<1> QED BY <1>1, <1>2, <1>3, <1>4, <1>5, <1>6, <1>7, <1>8 DEF Loop

----
\* SIGTERM and the end of the process.

LEMMA SignalKeepsInv ==
  ASSUME Inv, Sigterm \/ TermStop \/ TermZero \/ Exit
  PROVE  Inv'
<1> USE DEF Inv, sessionVars, threads
<1>s. {"stop", "zero", "done"} \subseteq TermSteps BY DEF TermSteps
<1>1. CASE TermStop
  <2>1. state' # "running" /\ state' \in {"idle", "ready", "running", "fault"}
        /\ (state' = "ready" => state = "ready") /\ RaiseFlag /\ CloseSession
    BY <1>1 DEF TermStop, StopLocked, TypeOK
  <2>2. TypeOK' BY <1>1, <2>1, <1>s, Closed, FlagSet DEF TermStop, TypeOK
  <2>3. LoopOK' BY <1>1, <2>1, FlagSet DEF TermStop, LoopOK, CloseSession
  <2>4. SessionOK' BY <2>1, Closed
  <2>5. CmdOK' /\ ReadyHasModel' BY <1>1, <2>1 DEF TermStop, CmdOK, MovingIsAttended, Live, ReadyHasModel
  <2> QED BY <2>2, <2>3, <2>4, <2>5
<1>2. CASE Sigterm \/ TermZero \/ Exit
  <2>1. /\ UNCHANGED <<state, model, flag, sessionVars, ops, loop, bound, late>>
        /\ cmd' = cmd \/ cmd' = "zero"
    BY <1>2 DEF Sigterm, TermZero, Exit, Publish
  <2>2. TypeOK' BY <1>2, <1>s, <2>1 DEF Sigterm, TermZero, Exit, TypeOK
  <2>3. SessionOK' /\ LoopOK' /\ CmdOK' /\ ReadyHasModel'
    BY <2>1 DEF SessionOK, LoopOK, CmdOK, MovingIsAttended, Live, ReadyHasModel
  <2> QED BY <2>2, <2>3
<1> QED BY <1>1, <1>2

LEMMA InvNext == Inv /\ [Next]_vars => Inv'
<1> SUFFICES ASSUME Inv, [Next]_vars PROVE Inv' OBVIOUS
<1>1. CASE Next BY <1>1, OpsKeepsInv, LoopKeepsInv, SignalKeepsInv DEF Next
<1>2. CASE UNCHANGED vars
  BY <1>2 DEF vars, Inv, TypeOK, SessionOK, LoopOK, CmdOK, MovingIsAttended, Live, ReadyHasModel
<1> QED BY <1>1, <1>2

LEMMA AlwaysInv == Spec => []Inv
BY InvInit, InvNext, PTL DEF Spec

----
\* The theorems.

\* Every reachable state is well typed.
THEOREM RuntimeTypeCorrect == Spec => []TypeOK
<1>1. Inv => TypeOK BY DEF Inv
<1> QED BY <1>1, AlwaysInv, PTL

\* Whatever loops of old sessions are still there, the robot moves only while one of them
\* will still publish a zero.
THEOREM MovementIsAttended == Spec => []MovingIsAttended
<1>1. Inv => MovingIsAttended BY DEF Inv, CmdOK
<1> QED BY <1>1, AlwaysInv, PTL

\* The loop of the running session is its own.
THEOREM SessionHasLoop == Spec => []RunningIsAttended
<1>1. Inv => RunningIsAttended
  <2> SUFFICES ASSUME Inv, state = "running", ~flag, ops # "spawn"
               PROVE  \E s \in Sessions : Live(s)
    BY DEF RunningIsAttended
  <2>1. session \in Sessions BY SessionsAssumption DEF Inv, SessionOK, TypeOK, Sessions
  <2> QED BY <2>1 DEF Inv, LoopOK, Live
<1> QED BY <1>1, AlwaysInv, PTL

\* A stop is obeyed within one iteration of every loop.
THEOREM StopIsObeyed == Spec => []OneCommandAfterStop
<1>1. Inv => OneCommandAfterStop BY DEF Inv, LoopOK, OneCommandAfterStop, TypeOK
<1> QED BY <1>1, AlwaysInv, PTL

\* No motion without a model.
THEOREM ModelBeforeMotion == Spec => []ReadyHasModel
<1>1. Inv => ReadyHasModel BY DEF Inv
<1> QED BY <1>1, AlwaysInv, PTL

\* A fault is left by a reset or a load only.
THEOREM FaultStays == Spec => FaultIsSticky
<1>1. Next /\ state = "fault" /\ state' # "fault" => Reset \/ BeginLoad
  <2> SUFFICES ASSUME Next, state = "fault", state' # "fault" PROVE Reset \/ BeginLoad OBVIOUS
  <2> USE DEF sessionVars
  <2>1. ASSUME Ops PROVE Reset \/ BeginLoad
    BY <2>1 DEF Ops, EndLoad, FailLoad, Start, Spawn, Stop, StopLocked, StopZero
  <2>2. ASSUME NEW s \in Sessions, Loop(s) PROVE FALSE
    BY <2>2 DEF Loop, Top, Stale, Infer, Move, Fault, FaultFlag, FaultZero, Leave
  <2>3. ASSUME Sigterm \/ TermStop \/ TermZero \/ Exit PROVE FALSE
    BY <2>3 DEF Sigterm, TermStop, StopLocked, TermZero, Exit
  <2> QED BY <2>1, <2>2, <2>3 DEF Next
<1>2. [Next]_vars => [state = "fault" /\ state' # "fault" => Reset \/ BeginLoad]_vars BY <1>1
<1> QED BY <1>2, PTL DEF Spec, FaultIsSticky

\* A step of the sessions, or none.
LEMMA MotionStep ==
  ASSUME Inv, [Next]_vars
  PROVE  [Motion!Next]_(Motion!vars)
<1> USE DEF Motion!vars, sessionVars, threads
<1>1. CASE UNCHANGED vars BY <1>1 DEF vars
<1>c. ASSUME CloseSession, state' # "running" PROVE [Motion!Next]_(Motion!vars)
  <2>1. CASE state = "running"
    <3>1. Motion!Close BY <1>c, <2>1 DEF Motion!Close, CloseSession, Inv, SessionOK
    <3> QED BY <3>1 DEF Motion!Next
  <2>2. CASE state # "running"
    BY <1>c, <2>2 DEF CloseSession, Inv, SessionOK
  <2> QED BY <2>1, <2>2
<1>2. ASSUME Ops PROVE [Motion!Next]_(Motion!vars)
  <2>1. CASE Start BY <2>1 DEF Start, Motion!Next, Motion!Open
  <2>2. CASE Stop BY <2>2, <1>c DEF Stop, StopLocked
  <2>3. CASE BeginLoad \/ EndLoad \/ FailLoad \/ Spawn \/ StopZero \/ Reset
    BY <2>3 DEF BeginLoad, EndLoad, FailLoad, Spawn, StopZero, Reset
  <2> QED BY <1>2, <2>1, <2>2, <2>3 DEF Ops
<1>3. ASSUME NEW s \in Sessions, Loop(s) PROVE [Motion!Next]_(Motion!vars)
  <2>1. CASE Fault(s) BY <2>1, <1>c DEF Fault
  <2>2. CASE ~Fault(s)
    BY <1>3, <2>2 DEF Loop, Top, Stale, Infer, Move, FaultFlag, FaultZero, Leave
  <2> QED BY <2>1, <2>2
<1>4. ASSUME Sigterm \/ TermStop \/ TermZero \/ Exit PROVE [Motion!Next]_(Motion!vars)
  <2>1. CASE TermStop BY <2>1, <1>c DEF TermStop, StopLocked
  <2>2. CASE Sigterm \/ TermZero \/ Exit BY <2>2 DEF Sigterm, TermZero, Exit
  <2> QED BY <1>4, <2>1, <2>2
<1> QED BY <1>1, <1>2, <1>3, <1>4 DEF Next

\* The runtime implements MotionSession: each session is closed and reported once, in
\* order, whichever of the threads closes it.
THEOREM SessionsImplemented == Spec => SessionsReportedOnce
<1>1. Init => Motion!Init BY DEF Init, Motion!Init
<1>2. Inv /\ [Next]_vars => [Motion!Next]_(Motion!vars) BY MotionStep
<1> QED BY <1>1, <1>2, AlwaysInv, PTL DEF Spec, SessionsReportedOnce, Motion!Spec

----
\* Why a stopped robot comes to rest, as far as it is safety. The other part is
\* MovementIsAttended: when no loop is left, the last command is a zero.

\* How many steps a control loop may still take once the flag is set.
StepsLeft(step) ==
  CASE step = "sense" -> 5
    [] step = "publish" -> 4
    [] step = "raise" -> 3
    [] step \in {"top", "flag"} -> 2
    [] step \in {"zero", "leave"} -> 1
    [] OTHER -> 0

\* A loop that begins, or goes on for more than its present round, finds the flag clear.
Winds(s) ==
  /\ Loop(s) => StepsLeft(loop'[s]) < StepsLeft(loop[s])
  /\ StepsLeft(loop'[s]) > StepsLeft(loop[s]) => ops = "spawn" /\ s = session

LEMMA StepsLeftIsNat == \A step : StepsLeft(step) \in Nat
BY DEF StepsLeft

\* A step of one loop, with the flag set.
LEMMA LoopWinds ==
  ASSUME TypeOK, flag, NEW s \in Sessions, Loop(s)
  PROVE  /\ StepsLeft(loop'[s]) < StepsLeft(loop[s])
         /\ \A r \in Sessions : r # s => loop'[r] = loop[r]
<1>1. ASSUME NEW from, NEW to, Step(s, from, to)
      PROVE  /\ loop[s] = from /\ loop'[s] = to
             /\ \A r \in Sessions : r # s => loop'[r] = loop[r]
  BY <1>1 DEF Step, TypeOK
<1>2. CASE Top(s)
  <2>1. Step(s, "top", "leave") BY <1>2 DEF Top
  <2> QED BY <1>1, <2>1 DEF StepsLeft
<1>3. CASE Stale(s)
  <2>1. PICK to \in {"top", "raise"} : Step(s, "sense", to) BY <1>3 DEF Stale
  <2> QED BY <1>1, <2>1 DEF StepsLeft
<1>4. CASE Infer(s)
  <2>1. PICK to \in {"publish", "raise"} : Step(s, "sense", to) BY <1>4 DEF Infer
  <2> QED BY <1>1, <2>1 DEF StepsLeft
<1>5. CASE Move(s)
  <2>1. PICK to \in {"top", "raise"} : Step(s, "publish", to) BY <1>5 DEF Move
  <2> QED BY <1>1, <2>1 DEF StepsLeft
<1>6. CASE Fault(s)
  <2>1. Step(s, "raise", "flag") BY <1>6 DEF Fault
  <2> QED BY <1>1, <2>1 DEF StepsLeft
<1>7. CASE FaultFlag(s)
  <2>1. Step(s, "flag", "zero") BY <1>7 DEF FaultFlag
  <2> QED BY <1>1, <2>1 DEF StepsLeft
<1>8. CASE FaultZero(s) \/ Leave(s)
  <2>1. Step(s, "zero", "done") \/ Step(s, "leave", "done") BY <1>8 DEF FaultZero, Leave
  <2> QED BY <1>1, <2>1 DEF StepsLeft
<1> QED BY <1>2, <1>3, <1>4, <1>5, <1>6, <1>7, <1>8 DEF Loop

\* While the flag is set, whoever set it, every step of a control loop brings it nearer to
\* its end, after at most five of them, and no other loop begins than the one that start()
\* is about to spawn. With fair threads this is what ends all loops (StopQuiets).
THEOREM LoopsRunOut == Spec => [][flag => \A s \in Sessions : Winds(s)]_vars
<1>1. ASSUME Inv, Next, flag, NEW s \in Sessions PROVE Winds(s)
  <2>1. TypeOK BY <1>1 DEF Inv
  <2>2. CASE \E r \in Sessions : Loop(r)
    <3>1. PICK r \in Sessions : Loop(r) BY <2>2
    <3>2. CASE Loop(s) BY <1>1, <2>1, <3>2, LoopWinds, StepsLeftIsNat DEF Winds
    <3>3. CASE ~Loop(s)
      <4>1. loop'[s] = loop[s] BY <1>1, <2>1, <3>1, <3>3, LoopWinds
      <4> QED BY <3>3, <4>1, StepsLeftIsNat DEF Winds
    <3> QED BY <3>2, <3>3
  <2>3. CASE ~(\E r \in Sessions : Loop(r)) /\ loop' = loop
    BY <2>3, StepsLeftIsNat DEF Winds
  <2>4. CASE ~(\E r \in Sessions : Loop(r)) /\ Spawn
    <3>1. ops = "spawn" /\ \A r \in Sessions : r # session => loop'[r] = loop[r]
      BY <2>1, <2>4 DEF Spawn, TypeOK
    <3> QED BY <2>4, <3>1, StepsLeftIsNat DEF Winds
  <2>5. BeginLoad \/ EndLoad \/ FailLoad \/ Start \/ Stop \/ StopZero \/ Reset => loop' = loop
    BY DEF BeginLoad, EndLoad, FailLoad, Start, Stop, StopZero, Reset
  <2>6. Sigterm \/ TermStop \/ TermZero \/ Exit => loop' = loop
    BY DEF Sigterm, TermStop, TermZero, Exit, threads
  <2> QED BY <1>1, <2>2, <2>3, <2>4, <2>5, <2>6 DEF Next, Ops
<1>2. Inv /\ [Next]_vars => [flag => \A s \in Sessions : Winds(s)]_vars BY <1>1
<1> QED BY <1>2, AlwaysInv, PTL DEF Spec
====
