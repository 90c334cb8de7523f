---- MODULE TelemetryUploaderProofs ----
\* Theorems about TelemetryUploader for every batch size and every length of the spool.
EXTENDS TelemetryUploader, TLAPS

----
\* The runtime's steps.

RuntimeStep ==
  \/ StartSession \/ BeginSample \/ KillRuntime \/ Tick
  \/ \E w \in Writers : EndSession(w) \/ AppendLine(w) \/ Lose(w)

\* What the spool holds stays there.
Grows == Len(spool) <= Len(spool') /\ \A p \in 1..Len(spool) : spool'[p] = spool[p]

LEMMA SpoolType ==
  ASSUME TypeOK
  PROVE  /\ Len(spool) \in Nat /\ DOMAIN spool = 1..Len(spool)
         /\ \A p \in 1..Len(spool) : spool[p] \in Line
BY DEF TypeOK

\* The runtime appends lines, keeps its types and leaves the uploader alone.
LEMMA RuntimeStepGrows ==
  ASSUME TypeOK, RuntimeStep
  PROVE  TypeOK' /\ Grows /\ UNCHANGED uploadVars
<1> USE DEF uploadVars
<1>0. /\ NoLine \in Line \cup {NoLine} /\ StartLine \in Line /\ Bad \in Line /\ RowNow \in Line
      /\ 0 \in 0..MaxT
  BY SizesAssumption DEF TypeOK, Line, NoLine, StartLine, Bad, RowNow
<1> DEFINE Pending == [Writers -> Line \cup {NoLine}]
<1>p. ASSUME NEW w \in Writers, NEW l \in Line \cup {NoLine}
      PROVE  [pending EXCEPT ![w] = l] \in Pending
  BY DEF TypeOK
<1>e. "ops" \in Writers /\ "loop" \in Writers BY DEF Writers
<1>1. CASE StartSession
  <2>1. pending' \in Pending BY <1>1, <1>0, <1>p, <1>e DEF StartSession
  <2> QED BY <1>1, <1>0, <2>1, SpoolType DEF StartSession, TypeOK, Grows
<1>2. CASE BeginSample
  <2>1. pending' \in Pending BY <1>2, <1>0, <1>p, <1>e DEF BeginSample
  <2> QED BY <1>2, <2>1, SpoolType DEF BeginSample, TypeOK, Grows
<1>3. CASE KillRuntime
  <2>1. pending' \in Pending BY <1>3 DEF KillRuntime
  <2>2. torn' \in BOOLEAN BY <1>3 DEF KillRuntime, TypeOK
  <2>3. running' \in BOOLEAN BY <1>3, Zenon DEF KillRuntime
  <2>4. UNCHANGED <<spool, uploadVars>> /\ clock' \in 0..MaxT BY <1>3, <1>0 DEF KillRuntime
  <2> QED BY <2>1, <2>2, <2>3, <2>4, SpoolType DEF TypeOK, Grows
<1>4. CASE Tick
  <2>1. clock' \in 0..MaxT BY <1>4, SizesAssumption DEF Tick, TypeOK
  <2> QED BY <1>4, <2>1, SpoolType DEF Tick, TypeOK, Grows
<1>5. ASSUME NEW w \in Writers, EndSession(w) PROVE TypeOK' /\ Grows /\ UNCHANGED uploadVars
  <2>1. pending' \in Pending BY <1>5, <1>0, <1>p DEF EndSession
  <2>2. running' \in BOOLEAN BY <1>5, Zenon DEF EndSession
  <2>3. UNCHANGED <<spool, torn, uploadVars>> /\ clock' \in 0..MaxT BY <1>5, <1>0 DEF EndSession
  <2> QED BY <2>1, <2>2, <2>3, SpoolType DEF TypeOK, Grows
<1>6. ASSUME NEW w \in Writers, Lose(w) PROVE TypeOK' /\ Grows /\ UNCHANGED uploadVars
  <2>1. pending' \in Pending BY <1>6, <1>p DEF Lose
  <2>2. torn' \in BOOLEAN BY <1>6 DEF Lose, TypeOK
  <2> QED BY <1>6, <2>1, <2>2, SpoolType DEF Lose, TypeOK, Grows
<1>7. ASSUME NEW w \in Writers, AppendLine(w) PROVE TypeOK' /\ Grows /\ UNCHANGED uploadVars
  <2>1. pending' \in Pending BY <1>7, <1>p DEF AppendLine
  <2>2. PICK l \in Line : spool' = Append(spool, l)
    <3>1. pending[w] \in Line BY <1>7 DEF AppendLine, TypeOK
    <3> QED BY <1>7, <1>0, <3>1 DEF AppendLine
  <2>3. spool' \in Seq(Line) /\ Len(spool') = Len(spool) + 1 /\ Grows
    BY <2>2, SpoolType DEF TypeOK, Grows
  <2>4. Len(spool') <= MaxLines BY <1>7, <2>3, SpoolType, SizesAssumption DEF AppendLine
  <2> QED BY <1>7, <2>1, <2>3, <2>4 DEF AppendLine, TypeOK
<1>8. CASE \E w \in Writers : EndSession(w) \/ AppendLine(w) \/ Lose(w)
  BY <1>5, <1>6, <1>7, <1>8, Zenon
<1> QED BY <1>1, <1>2, <1>3, <1>4, <1>8, Zenon DEF RuntimeStep

\* The rows of a chunk that ends inside the spool stay what they are.
LEMMA RowsKept ==
  ASSUME TypeOK, TypeOK', Grows, NEW c, c.seq \in Nat, c.end \in Nat, c.end <= Len(spool)
  PROVE  Rows(c)' = Rows(c)
<1>1. /\ Len(spool) \in Nat /\ DOMAIN spool = 1..Len(spool)
      /\ Len(spool') \in Nat /\ DOMAIN spool' = 1..Len(spool')
  BY DEF TypeOK
<1>2. \A p \in 1..Len(spool) : p \in 1..Len(spool') /\ spool'[p] = spool[p]
  BY <1>1 DEF Grows
<1>3. \A p \in 1..Len(spool') : p <= c.end => p \in 1..Len(spool)
  BY <1>1
<1> QED BY <1>1, <1>2, <1>3 DEF Rows

\* Appending to the spool disturbs nothing the uploader or the platform rely on.
LEMMA GrowthKeeps ==
  ASSUME TypeOK, TypeOK', UploadOK, Grows, UNCHANGED uploadVars
  PROVE  UploadOK' /\ (CheckpointIsStored => CheckpointIsStored')
<1> USE DEF uploadVars
<1>1. /\ Len(spool) \in Nat /\ Len(spool') \in Nat /\ Len(spool) <= Len(spool')
      /\ ckpt \in Nat /\ call.end \in Nat
  BY SizesAssumption DEF TypeOK, Grows
<1>2. \A c \in Chunk : c.seq \in Nat /\ c.end \in Nat BY SizesAssumption DEF Chunk
<1>3. \A c \in Chunk : c.end <= Len(spool) => Rows(c)' = Rows(c)
  BY <1>2, RowsKept
<1>4. \A r \in stored : r \in Chunk /\ r.end <= Len(spool) /\ Rows(r)' = Rows(r)
  BY <1>3 DEF UploadOK, ChunksOK, TypeOK
<1>5. CallOK'
  <2> DEFINE c == [seq |-> ckpt, end |-> call.end]
  <2>1. Rows(c)' = Rows(c)
    BY <1>1, RowsKept DEF UploadOK, CallOK
  <2> QED BY <1>1, <1>4, <2>1 DEF UploadOK, CallOK
<1>6. RequestsOK'
  BY <1>1, <1>2 DEF UploadOK, RequestsOK, TypeOK
<1>7. ChunksOK'
  BY <1>1, <1>2, <1>4 DEF UploadOK, ChunksOK, TypeOK
<1>8. CheckpointIsStored => CheckpointIsStored'
  <2>1. Rows(Passed)' = Rows(Passed)
    BY <1>1, RowsKept DEF Passed, UploadOK
  <2>2. Copied' = Copied BY <1>4 DEF Copied
  <2> QED BY <2>1, <2>2 DEF CheckpointIsStored
<1> QED BY <1>1, <1>5, <1>6, <1>7, <1>8 DEF UploadOK

----
\* The steps of the uploader and the platform leave the spool alone.

LEMMA BatchType ==
  ASSUME TypeOK, NEW c \in Batches(ckpt)
  PROVE  /\ c \in Chunk /\ c.seq = ckpt /\ ckpt < c.end /\ c.end <= Len(spool)
         /\ c = [seq |-> ckpt, end |-> c.end]
BY DEF Batches, Chunk

UploaderStep == Boot \/ Post \/ Timeout \/ Backoff \/ Save \/ Crash

LEMMA UploaderStepType ==
  ASSUME TypeOK, UploaderStep
  PROVE  TypeOK' /\ UNCHANGED <<spool, stored>>
<1> USE DEF runtimeVars, Call
<1>0. /\ ckpt \in 0..MaxLines /\ call.end \in 0..MaxLines /\ 0 \in 0..MaxLines
      /\ inflight \subseteq Chunk
  BY SizesAssumption DEF TypeOK
<1>1. CASE Boot BY <1>1, <1>0 DEF Boot, TypeOK
<1>2. CASE Post
  <2>1. PICK c \in Batches(ckpt) : call' = Call("post", c.end) /\ inflight' = inflight \cup {c}
    BY <1>2 DEF Post
  <2>2. c \in Chunk /\ c.end \in 0..MaxLines BY BatchType DEF Chunk
  <2> QED BY <1>2, <1>0, <2>1, <2>2 DEF Post, TypeOK
<1>3. CASE Timeout BY <1>3, <1>0 DEF Timeout, TypeOK
<1>4. CASE Backoff BY <1>4, <1>0 DEF Backoff, TypeOK
<1>5. CASE Save BY <1>5, <1>0 DEF Save, TypeOK
<1>6. CASE Crash BY <1>6, <1>0 DEF Crash, TypeOK
<1> QED BY <1>1, <1>2, <1>3, <1>4, <1>5, <1>6 DEF UploaderStep

LEMMA PlatformStepType ==
  ASSUME TypeOK, NEW c \in Chunk, Accept(c) \/ Refuse(c)
  PROVE  TypeOK' /\ UNCHANGED <<spool, ckpt>>
<1> USE DEF runtimeVars, Call
<1>1. call' \in [step : {"down", "read", "post", "refused", "save"}, end : 0..MaxLines]
  BY DEF Accept, Refuse, Answer, TypeOK, Chunk
<1>2. inflight' \subseteq Chunk /\ stored' \subseteq Chunk
  BY DEF Accept, Refuse, TypeOK
<1> QED BY <1>1, <1>2 DEF Accept, Refuse, TypeOK

LEMMA SameSpoolSameRows ==
  ASSUME UNCHANGED spool
  PROVE  \A c : Rows(c)' = Rows(c)
BY DEF Rows

LEMMA RowsRange ==
  ASSUME TypeOK, NEW c, c.seq \in Nat, c.end \in Nat
  PROVE  /\ \A p \in Rows(c) : p \in Nat /\ 1 <= p /\ c.seq < p /\ p <= c.end
         /\ Rows(c) \subseteq 1..c.end
BY SpoolType DEF Rows

\* A checkpoint only moves over rows that are stored.
LEMMA SaveKeeps ==
  ASSUME TypeOK, UploadOK, CheckpointIsStored, Save
  PROVE  UploadOK' /\ CheckpointIsStored'
<1> USE DEF runtimeVars, Call
<1>0. /\ ckpt \in Nat /\ call.end \in Nat /\ Len(spool) \in Nat
      /\ ckpt < call.end /\ call.end <= Len(spool)
  BY SizesAssumption DEF TypeOK, UploadOK, CallOK, Save
<1>1. /\ ckpt' = call.end /\ call' = Call("read", 0) /\ UNCHANGED <<spool, stored, inflight>>
  BY DEF Save
<1> DEFINE d == [seq |-> ckpt, end |-> call.end]
<1>2. PICK r \in stored : r.seq = ckpt /\ Rows(r) = Rows(d)
  BY DEF UploadOK, CallOK, Save
<1>3. \A c : Rows(c)' = Rows(c) BY <1>1, SameSpoolSameRows
<1>4. \A c \in Chunk : c.seq \in Nat /\ c.end \in Nat BY SizesAssumption DEF Chunk
<1>5. CallOK' BY <1>0, <1>1 DEF CallOK
<1>6. RequestsOK'
  <2> SUFFICES ASSUME NEW c \in inflight
               PROVE  /\ c.end <= Len(spool)
                      /\ c.seq < call.end /\ \E s \in stored : s.seq = c.seq
    BY <1>1 DEF RequestsOK
  <2> QED BY <1>0, <1>2, <1>4 DEF UploadOK, RequestsOK, TypeOK
<1>7. ChunksOK'
  <2>1. \A s \in stored : s.seq = ckpt => s = r
    BY <1>0, <1>2 DEF UploadOK, ChunksOK
  <2>2. Rows(d) \subseteq 1..call.end BY <1>0, RowsRange
  <2>3. ASSUME NEW s \in stored PROVE s.seq < call.end /\ Rows(s) \subseteq 1..call.end
    <3>1. s \in Chunk BY DEF TypeOK
    <3>2. CASE s.seq = ckpt BY <1>0, <1>2, <2>1, <2>2, <3>2
    <3>3. CASE s.seq < ckpt /\ Rows(s) \subseteq 1..ckpt BY <1>0, <1>4, <3>1, <3>3
    <3> QED BY <3>2, <3>3 DEF UploadOK, ChunksOK
  <2> QED BY <1>1, <1>3, <2>3 DEF UploadOK, ChunksOK
<1>8. CheckpointIsStored'
  <2> DEFINE all == [seq |-> 0, end |-> call.end]
  <2>1. \A p \in Rows(all) : p \in Rows(Passed) \/ p \in Rows(d)
    BY <1>0, SpoolType DEF Rows, Passed
  <2>2. \A p \in Rows(all) : p \in Copied BY <1>2, <2>1 DEF Copied, CheckpointIsStored
  <2>3. Copied' = Copied BY <1>1, <1>3 DEF Copied
  <2>4. Passed' = all BY <1>1 DEF Passed
  <2>5. Rows(Passed)' = Rows(all) BY <1>1, <2>4 DEF Rows
  <2> QED BY <2>2, <2>3, <2>5 DEF CheckpointIsStored
<1> QED BY <1>0, <1>1, <1>5, <1>6, <1>7, <1>8 DEF UploadOK

\* A request starts at the checkpoint and ends inside the spool.
LEMMA PostKeeps ==
  ASSUME TypeOK, UploadOK, CheckpointIsStored, Post
  PROVE  UploadOK' /\ CheckpointIsStored'
<1> USE DEF runtimeVars, Call
<1>1. PICK c \in Batches(ckpt) : call' = Call("post", c.end) /\ inflight' = inflight \cup {c}
  BY DEF Post
<1>2. c \in Chunk /\ c.seq = ckpt /\ ckpt < c.end /\ c.end <= Len(spool) BY BatchType
<1>3. UNCHANGED <<spool, stored, ckpt>> BY DEF Post
<1>4. \A d : Rows(d)' = Rows(d) BY <1>3, SameSpoolSameRows
<1>5. CallOK' BY <1>1, <1>2, <1>3 DEF CallOK
<1>6. RequestsOK' BY <1>1, <1>2, <1>3 DEF UploadOK, RequestsOK
<1>7. ChunksOK' BY <1>3, <1>4 DEF UploadOK, ChunksOK
<1>8. CheckpointIsStored' BY <1>3, <1>4 DEF CheckpointIsStored, Copied, Passed
<1> QED BY <1>3, <1>5, <1>6, <1>7, <1>8 DEF UploadOK

\* Giving up on a request, backing off, starting and crashing change nothing that lasts.
LEMMA ForgetKeeps ==
  ASSUME TypeOK, UploadOK, CheckpointIsStored, Boot \/ Timeout \/ Backoff \/ Crash
  PROVE  UploadOK' /\ CheckpointIsStored'
<1> USE DEF runtimeVars, Call
<1>1. /\ UNCHANGED <<spool, stored, ckpt>>
      /\ call'.step \in {"read", "down"} /\ call'.end = 0 /\ inflight' \subseteq inflight
  BY DEF Boot, Timeout, Backoff, Crash
<1>2. Len(spool) \in Nat BY SpoolType
<1>4. \A d : Rows(d)' = Rows(d) BY <1>1, SameSpoolSameRows
<1>5. CallOK' BY <1>1, <1>2 DEF CallOK
<1>6. RequestsOK' BY <1>1 DEF UploadOK, RequestsOK
<1>7. ChunksOK' BY <1>1, <1>4 DEF UploadOK, ChunksOK
<1>8. CheckpointIsStored' BY <1>1, <1>4 DEF CheckpointIsStored, Copied, Passed
<1> QED BY <1>1, <1>5, <1>6, <1>7, <1>8 DEF UploadOK

\* A chunk that is new to the platform starts at the checkpoint, after every other one.
LEMMA NewChunk ==
  ASSUME TypeOK, UploadOK, NEW c \in inflight, ~Known(c), ~Conflicts(c)
  PROVE  c.seq = ckpt /\ \A r \in stored : r.seq < ckpt /\ Rows(r) \subseteq 1..ckpt
<1>1. \A r \in stored : r.seq # c.seq BY DEF Known, Conflicts
<1>2. c.seq = ckpt BY <1>1 DEF UploadOK, RequestsOK
<1> QED BY <1>1, <1>2 DEF UploadOK, ChunksOK

\* What the platform keeps after a request: the chunks it had, and the new one.
LEMMA PlatformKeeps ==
  ASSUME TypeOK, UploadOK, CheckpointIsStored, NEW c \in Chunk, Accept(c) \/ Refuse(c)
  PROVE  UploadOK' /\ CheckpointIsStored'
<1> USE DEF runtimeVars, Call
<1>1. UNCHANGED <<spool, ckpt>> /\ c \in inflight /\ inflight' \subseteq inflight
  BY DEF Accept, Refuse
<1>2. stored' = stored \/ (~Known(c) /\ ~Conflicts(c) /\ stored' = stored \cup {c})
  BY DEF Accept, Refuse
<1>3. stored \subseteq stored' BY <1>2
<1>4. \A d : Rows(d)' = Rows(d) BY <1>1, SameSpoolSameRows
<1>5. /\ ckpt \in Nat /\ Len(spool) \in Nat /\ c.seq \in Nat /\ c.end \in Nat
      /\ c.end <= Len(spool)
  BY <1>1, SizesAssumption DEF TypeOK, Chunk, UploadOK, RequestsOK
<1>6. \A d \in Chunk : d.seq \in Nat BY SizesAssumption DEF Chunk
<1>7. RequestsOK' BY <1>1, <1>3 DEF UploadOK, RequestsOK
<1>8. ChunksOK'
  <2>1. CASE stored' = stored BY <1>1, <1>4, <2>1 DEF UploadOK, ChunksOK
  <2>2. CASE ~Known(c) /\ ~Conflicts(c) /\ stored' = stored \cup {c}
    <3>1. c.seq = ckpt /\ \A r \in stored : r.seq < ckpt /\ Rows(r) \subseteq 1..ckpt
      BY <1>1, <2>2, NewChunk
    <3> QED BY <1>1, <1>4, <1>5, <2>2, <3>1 DEF UploadOK, ChunksOK
  <2> QED BY <1>2, <2>1, <2>2
<1>9. CheckpointIsStored' BY <1>1, <1>3, <1>4 DEF CheckpointIsStored, Copied, Passed
<1>10. CallOK'
  <2>1. CASE UNCHANGED call BY <1>1, <1>3, <1>4, <2>1 DEF UploadOK, CallOK
  <2>2. CASE ~UNCHANGED call
    <3>1. /\ call = Call("post", c.end) /\ c.seq = ckpt /\ call'.end = c.end
          /\ call' = Call("save", c.end) \/ call' = Call("refused", c.end)
      BY <2>2 DEF Accept, Refuse, Answer
    <3>2. ckpt < c.end BY <3>1 DEF UploadOK, CallOK
    <3>3. c = [seq |-> ckpt, end |-> c.end] BY <3>1 DEF Chunk
    <3>4. call'.step = "save" => \E r \in stored' : r.seq = ckpt /\ Rows(r) = Rows(c)
      <4> SUFFICES ASSUME call'.step = "save"
                   PROVE  \E r \in stored' : r.seq = ckpt /\ Rows(r) = Rows(c)
        OBVIOUS
      <4>1. Accept(c) BY <2>2 DEF Refuse, Answer
      <4>2. CASE Known(c) BY <1>3, <3>1, <4>2 DEF Known
      <4>3. CASE ~Known(c) BY <3>1, <4>1, <4>3 DEF Accept
      <4> QED BY <4>2, <4>3
    <3> QED BY <1>1, <1>4, <1>5, <3>1, <3>2, <3>3, <3>4 DEF CallOK
  <2> QED BY <2>1, <2>2
<1> QED BY <1>1, <1>7, <1>8, <1>9, <1>10 DEF UploadOK

----
\* The inductive invariant.

Inv == TypeOK /\ UploadOK /\ CheckpointIsStored

LEMMA InvInit == Init => Inv
<1> SUFFICES ASSUME Init PROVE Inv OBVIOUS
<1>1. Len(spool) = 0 /\ DOMAIN spool = {} /\ spool \in Seq(Line) BY DEF Init
<1>2. TypeOK
  <2>1. torn \in BOOLEAN /\ running \in BOOLEAN BY Zenon DEF Init
  <2>2. pending \in [Writers -> Line \cup {NoLine}] BY DEF Init
  <2>3. /\ call \in [step : {"down", "read", "post", "refused", "save"}, end : 0..MaxLines]
        /\ ckpt \in 0..MaxLines /\ clock \in 0..MaxT
    BY SizesAssumption DEF Init, Call
  <2>4. Len(spool) <= MaxLines BY <1>1, SizesAssumption
  <2> QED BY <1>1, <2>1, <2>2, <2>3, <2>4 DEF Init, TypeOK
<1>3. UploadOK
  <2>1. call.end = 0 /\ call.step = "down" BY DEF Init, Call
  <2>2. ckpt = 0 /\ inflight = {} /\ stored = {} BY DEF Init
  <2> QED BY <1>1, <2>1, <2>2 DEF UploadOK, CallOK, RequestsOK, ChunksOK
<1>4. CheckpointIsStored BY <1>1 DEF CheckpointIsStored, Rows
<1> QED BY <1>2, <1>3, <1>4 DEF Inv

LEMMA InvNext == Inv /\ [Next]_vars => Inv'
<1> SUFFICES ASSUME Inv, [Next]_vars PROVE Inv' OBVIOUS
<1>0. TypeOK /\ UploadOK /\ CheckpointIsStored BY DEF Inv
<1>1. CASE RuntimeStep
  <2>1. TypeOK' /\ Grows /\ UNCHANGED uploadVars BY <1>0, <1>1, RuntimeStepGrows
  <2> QED BY <1>0, <2>1, GrowthKeeps DEF Inv
<1>2. CASE UploaderStep
  <2>1. TypeOK' BY <1>0, <1>2, UploaderStepType
  <2>2. UploadOK' /\ CheckpointIsStored'
    BY <1>0, <1>2, PostKeeps, SaveKeeps, ForgetKeeps DEF UploaderStep
  <2> QED BY <2>1, <2>2 DEF Inv
<1>3. ASSUME NEW c \in Chunk, Accept(c) \/ Refuse(c) PROVE Inv'
  BY <1>0, <1>3, PlatformStepType, PlatformKeeps DEF Inv
<1>4. CASE UNCHANGED vars
  <2>1. TypeOK' BY <1>0, <1>4 DEF vars, TypeOK
  <2>2. Grows /\ UNCHANGED uploadVars BY <1>0, <1>4, SpoolType DEF vars, Grows, uploadVars
  <2> QED BY <1>0, <2>1, <2>2, GrowthKeeps DEF Inv
<1> QED BY <1>1, <1>2, <1>3, <1>4 DEF Next, RuntimeStep, UploaderStep

LEMMA AlwaysInv == Spec => []Inv
BY InvInit, InvNext, PTL DEF Spec

----
\* The timeline check of the platform.

\* A row up to the end of a chunk that is stored, or new, belongs to one of them.
LEMMA RowsCovered ==
  ASSUME Inv, NEW c \in inflight, ~Known(c), ~Conflicts(c), NEW b \in stored \cup {c},
         NEW q \in Rows(b), NEW s \in 1..q, spool[s].kind # "bad"
  PROVE  \E m \in stored \cup {c} : s \in Rows(m)
<1>0. TypeOK /\ UploadOK /\ CheckpointIsStored BY DEF Inv
<1>1. b \in Chunk /\ b.seq \in Nat /\ b.end \in Nat /\ ckpt \in Nat
  BY <1>0, SizesAssumption DEF TypeOK, Chunk
<1>2. q \in DOMAIN spool /\ q \in Nat /\ q <= b.end BY <1>0, <1>1, RowsRange DEF Rows
<1>3. s \in DOMAIN spool BY <1>0, <1>2, SpoolType
<1>4. CASE b.seq < s BY <1>1, <1>2, <1>3, <1>4 DEF Rows
<1>5. CASE s <= b.seq
  <2>1. b.seq <= ckpt BY <1>0, <1>1, NewChunk DEF UploadOK, ChunksOK
  <2>2. s \in Rows(Passed) BY <1>1, <1>2, <1>3, <1>5, <2>1 DEF Rows, Passed
  <2> QED BY <1>0, <2>2 DEF CheckpointIsStored, Copied
<1> QED BY <1>1, <1>2, <1>4, <1>5

\* The chunks, the new one with them, lie one after the other.
LEMMA ChunksApart ==
  ASSUME Inv, NEW c \in inflight, ~Known(c), ~Conflicts(c),
         NEW a \in stored \cup {c}, NEW b \in stored \cup {c}, NEW p \in Rows(a), NEW q \in Rows(b)
  PROVE  /\ p \in Nat /\ q \in Nat
         /\ p < q => Before(a, p, b, q)
         /\ Before(a, p, b, q) => p < q
<1>0. TypeOK /\ UploadOK BY DEF Inv
<1>1. a \in Chunk /\ b \in Chunk BY <1>0 DEF TypeOK
<1>2. /\ a.seq \in Nat /\ a.end \in Nat /\ b.seq \in Nat /\ b.end \in Nat /\ ckpt \in Nat
  BY <1>0, <1>1, SizesAssumption DEF TypeOK, Chunk
<1>3. p \in Nat /\ q \in Nat /\ a.seq < p /\ b.seq < q BY <1>0, <1>2, RowsRange
<1>4. a = b \/ (a.seq < b.seq /\ Rows(a) \subseteq 1..b.seq)
            \/ (b.seq < a.seq /\ Rows(b) \subseteq 1..a.seq)
  <2>1. c.seq = ckpt /\ \A r \in stored : r.seq < ckpt /\ Rows(r) \subseteq 1..ckpt
    BY <1>0, NewChunk
  <2> QED BY <1>0, <2>1 DEF UploadOK, ChunksOK
<1>5. a = b \/ (a.seq < b.seq /\ p <= b.seq) \/ (b.seq < a.seq /\ q <= a.seq)
  BY <1>2, <1>4
<1> QED BY <1>2, <1>3, <1>5 DEF Before

\* So a spool in order passes the timeline check.
LEMMA OrderPasses ==
  ASSUME Inv, SpoolInOrder, NEW c \in inflight, ~Known(c), ~Conflicts(c)
  PROVE  TimelineOK(stored \cup {c})
<1> DEFINE R == stored \cup {c}
<1> SUFFICES ASSUME NEW a \in R, NEW b \in R, NEW p \in Rows(a), NEW q \in Rows(b),
                    Before(a, p, b, q), TimeGoesBack(p, q)
             PROVE  \E m \in R : \E s \in Rows(m) :
                      spool[s].kind = "start" /\ Before(a, p, m, s) /\ Before(m, s, b, q)
  BY DEF TimelineOK
<1>1. p \in Nat /\ q \in Nat /\ p < q BY ChunksApart
<1>2. p \in DOMAIN spool /\ q \in DOMAIN spool BY DEF Rows
<1>3. PICK s \in p..q : spool[s].kind = "start" BY <1>1, <1>2 DEF SpoolInOrder
<1>4. s # p /\ s # q BY <1>3 DEF TimeGoesBack
<1>5. s \in Nat /\ p < s /\ s < q BY <1>1, <1>3, <1>4
<1>6. s \in 1..q /\ spool[s].kind # "bad" BY <1>1, <1>3, <1>5
<1>7. PICK m \in R : s \in Rows(m) BY <1>6, RowsCovered
<1>8. Before(a, p, m, s) BY <1>5, <1>7, ChunksApart
<1>9. Before(m, s, b, q) BY <1>5, <1>7, ChunksApart
<1> QED BY <1>3, <1>7, <1>8, <1>9

\* A spool that is in order was so before its last line.
LEMMA OrderWasThere ==
  ASSUME TypeOK, TypeOK', Grows, SpoolInOrder'
  PROVE  SpoolInOrder
<1>1. /\ Len(spool) \in Nat /\ DOMAIN spool = 1..Len(spool)
      /\ Len(spool') \in Nat /\ DOMAIN spool' = 1..Len(spool')
  BY DEF TypeOK
<1>2. \A p \in DOMAIN spool : p \in DOMAIN spool' /\ spool'[p] = spool[p]
  BY <1>1 DEF Grows
<1> SUFFICES ASSUME NEW p \in DOMAIN spool, NEW q \in DOMAIN spool, p < q, TimeGoesBack(p, q)
             PROVE  \E s \in p..q : spool[s].kind = "start"
  BY DEF SpoolInOrder
<1>3. \E s \in p..q : spool'[s].kind = "start"
  BY <1>2 DEF SpoolInOrder, TimeGoesBack
<1>4. \A s \in p..q : s \in DOMAIN spool BY <1>1
<1> QED BY <1>2, <1>3, <1>4

LEMMA RefusalNext ==
  ASSUME Inv, RefusalHasCause, [Next]_vars
  PROVE  RefusalHasCause'
<1>0. TypeOK /\ UploadOK BY DEF Inv
<1>c. ckpt \in Nat /\ call.end \in Nat /\ call.end <= Len(spool)
  BY <1>0, SizesAssumption DEF TypeOK, UploadOK, CallOK
<1> DEFINE d == [seq |-> ckpt, end |-> call.end]
<1>k. ASSUME TypeOK', Grows, UNCHANGED uploadVars PROVE RefusalHasCause'
  <2>1. Rows(d)' = Rows(d) BY <1>0, <1>c, <1>k, RowsKept DEF uploadVars
  <2>2. \A r \in stored : r.seq \in Nat /\ r.end \in Nat /\ r.end <= Len(spool)
    BY <1>0, SizesAssumption DEF TypeOK, Chunk, UploadOK, ChunksOK
  <2>3. \A r \in stored : Rows(r)' = Rows(r) BY <1>0, <1>k, <2>2, RowsKept
  <2>4. SpoolInOrder' => SpoolInOrder BY <1>0, <1>k, OrderWasThere
  <2> QED BY <1>k, <2>1, <2>3, <2>4 DEF RefusalHasCause, uploadVars
<1>1. CASE RuntimeStep BY <1>0, <1>1, <1>k, RuntimeStepGrows
<1>2. CASE UploaderStep
  <2>1. call'.step # "refused"
    BY <1>2 DEF UploaderStep, Boot, Post, Timeout, Backoff, Save, Crash, Call
  <2> QED BY <2>1 DEF RefusalHasCause
<1>3. ASSUME NEW c \in Chunk, Accept(c) \/ Refuse(c) PROVE RefusalHasCause'
  <2>1. UNCHANGED <<spool, ckpt>> /\ stored \subseteq stored' /\ c \in inflight
    BY <1>3 DEF Accept, Refuse, runtimeVars
  <2>2. \A e : Rows(e)' = Rows(e) BY <2>1, SameSpoolSameRows
  <2>3. SpoolInOrder' = SpoolInOrder BY <2>1 DEF SpoolInOrder, TimeGoesBack
  <2>4. CASE UNCHANGED call BY <2>1, <2>2, <2>3, <2>4 DEF RefusalHasCause
  <2>5. CASE ~UNCHANGED call
    <3> SUFFICES ASSUME SpoolInOrder, call'.step = "refused"
                 PROVE  \E r \in stored : r.seq = ckpt /\ Rows(r) # Rows([seq |-> ckpt, end |-> call'.end])
      BY <2>1, <2>2, <2>3 DEF RefusalHasCause
    <3>1. Refuse(c) BY <1>3, <2>5 DEF Accept, Answer, Call
    <3>2. c.seq = ckpt /\ call'.end = c.end BY <2>5, <3>1 DEF Refuse, Answer, Call
    <3>3. c = [seq |-> ckpt, end |-> call'.end] BY <3>2 DEF Chunk
    <3>4. Conflicts(c) BY <2>1, <3>1, OrderPasses DEF Refuse
    <3> QED BY <3>2, <3>3, <3>4 DEF Conflicts
  <2> QED BY <2>4, <2>5
<1>4. CASE UNCHANGED vars
  <2>1. TypeOK' BY <1>0, <1>4 DEF vars, TypeOK
  <2>2. Grows /\ UNCHANGED uploadVars BY <1>0, <1>4, SpoolType DEF vars, Grows, uploadVars
  <2> QED BY <2>1, <2>2, <1>k
<1> QED BY <1>1, <1>2, <1>3, <1>4 DEF Next, RuntimeStep, UploaderStep

----
\* The refinement of SpoolCopy.

\* The platform and the checkpoint agree on what the spool begins with.
LEMMA CopiedSoFar ==
  ASSUME Inv, \A r \in stored : r.seq < ckpt /\ Rows(r) \subseteq 1..ckpt
  PROVE  Copied = Copying!Beginning(ckpt)
<1>0. TypeOK /\ UploadOK /\ CheckpointIsStored BY DEF Inv
<1>1. ckpt \in Nat /\ ckpt <= Len(spool) BY <1>0, SizesAssumption DEF TypeOK, UploadOK
<1>2. Rows(Passed) = Copying!Beginning(ckpt)
  BY <1>0, <1>1, SpoolType DEF Rows, Passed, Copying!Beginning
<1>3. Copied \subseteq Copying!Beginning(ckpt)
  <2> SUFFICES ASSUME NEW r \in stored, NEW p \in Rows(r) PROVE p \in Copying!Beginning(ckpt)
    BY DEF Copied
  <2>1. p \in 1..ckpt /\ spool[p].kind # "bad" BY DEF Rows
  <2> QED BY <2>1 DEF Copying!Beginning
<1> QED BY <1>0, <1>2, <1>3 DEF CheckpointIsStored

\* A chunk the platform stores, if it has rows, prolongs that beginning.
LEMMA StoringCopies ==
  ASSUME Inv, NEW c \in Chunk, Accept(c), stored' # stored
  PROVE  Copying!Copy \/ UNCHANGED Copied
<1>0. TypeOK /\ UploadOK BY DEF Inv
<1>1. /\ c \in inflight /\ ~Known(c) /\ ~Conflicts(c) /\ stored' = stored \cup {c}
      /\ UNCHANGED <<spool, ckpt>>
  BY DEF Accept, runtimeVars
<1>2. c.seq = ckpt /\ \A r \in stored : r.seq < ckpt /\ Rows(r) \subseteq 1..ckpt
  BY <1>0, <1>1, NewChunk
<1>3. Copied = Copying!Beginning(ckpt) BY <1>2, CopiedSoFar
<1>4. /\ ckpt \in Nat /\ c.end \in Nat /\ c.end <= Len(spool) /\ Len(spool) \in Nat
  BY <1>0, <1>1, SizesAssumption DEF TypeOK, Chunk, UploadOK, RequestsOK
<1>5. Copied' = Copied \cup Rows(c)
  <2>1. \A d : Rows(d)' = Rows(d) BY <1>1, SameSpoolSameRows
  <2> QED BY <1>1, <2>1 DEF Copied
<1>6. CASE c.end <= ckpt
  <2>1. Rows(c) = {} BY <1>2, <1>4, <1>6, SpoolType, <1>0 DEF Rows
  <2> QED BY <1>5, <2>1
<1>7. CASE ckpt < c.end
  <2>1. c.end \in 1..Len(spool) BY <1>4, <1>7
  <2>2. Copied \cup Rows(c) = Copying!Beginning(c.end)
    BY <1>0, <1>2, <1>3, <1>4, <1>7, SpoolType DEF Rows, Copying!Beginning
  <2>3. Copied \subseteq Copying!Beginning(c.end) BY <2>2
  <2> QED BY <1>1, <1>5, <2>1, <2>2, <2>3 DEF Copying!Copy
<1> QED BY <1>4, <1>6, <1>7

\* The runtime records: the other variables of SpoolCopy stay.
LEMMA RuntimeRecords ==
  ASSUME TypeOK, UploadOK, RuntimeStep
  PROVE  Copying!Record \/ UNCHANGED Copying!vars
<1>1. TypeOK' /\ Grows /\ UNCHANGED uploadVars BY RuntimeStepGrows
<1>2. UNCHANGED <<Copied, ckpt>>
  <2>1. \A r \in stored : r.seq \in Nat /\ r.end \in Nat /\ r.end <= Len(spool)
    BY SizesAssumption DEF TypeOK, Chunk, UploadOK, ChunksOK
  <2>2. \A r \in stored : Rows(r)' = Rows(r) BY <1>1, <2>1, RowsKept
  <2> QED BY <1>1, <2>2 DEF Copied, uploadVars
<1>3. spool' = spool \/ \E line \in Line : spool' = Append(spool, line)
  <2>1. ASSUME NEW w \in Writers, AppendLine(w)
        PROVE  \E line \in Line : spool' = Append(spool, line)
    <3>1. pending[w] \in Line BY <2>1 DEF AppendLine, TypeOK
    <3>2. Bad \in Line BY SizesAssumption DEF Bad, Line
    <3> QED BY <2>1, <3>1, <3>2 DEF AppendLine
  <2>2. StartSession \/ BeginSample \/ KillRuntime \/ Tick => spool' = spool
    BY DEF StartSession, BeginSample, KillRuntime, Tick
  <2>3. ASSUME NEW w \in Writers, EndSession(w) \/ Lose(w) PROVE spool' = spool
    BY <2>3 DEF EndSession, Lose
  <2> QED BY <2>1, <2>2, <2>3 DEF RuntimeStep
<1> QED BY <1>2, <1>3 DEF Copying!Record, Copying!vars

LEMMA CopyStep ==
  ASSUME Inv, Inv', [Next]_vars
  PROVE  [Copying!Next]_(Copying!vars)
<1>0. TypeOK /\ UploadOK BY DEF Inv
<1>1. CASE RuntimeStep BY <1>0, <1>1, RuntimeRecords DEF Copying!Next
<1>2. CASE UploaderStep
  <2>1. UNCHANGED <<spool, stored>> BY <1>0, <1>2, UploaderStepType
  <2>2. UNCHANGED Copied BY <2>1, SameSpoolSameRows DEF Copied
  <2>3. CASE Save
    <3>1. ckpt' = call.end BY <2>3 DEF Save
    <3>2. ckpt < ckpt' /\ ckpt' <= Len(spool) BY <1>0, <2>3, <3>1 DEF Save, UploadOK, CallOK
    <3>3. ckpt \in Nat /\ ckpt' \in Nat /\ Len(spool) \in Nat
      BY <1>0, <3>1, SizesAssumption DEF TypeOK
    <3>4. ckpt' \in 1..Len(spool) BY <3>2, <3>3
    <3>5. Copying!Beginning(ckpt') \subseteq Copied
      <4>1. Rows(Passed)' \subseteq Copied BY <2>2 DEF Inv, CheckpointIsStored
      <4>2. \A p \in Copying!Beginning(ckpt') : p \in Rows(Passed)'
        BY <2>1, <3>2, <3>3, <1>0, SpoolType DEF Rows, Passed, Copying!Beginning
      <4> QED BY <4>1, <4>2
    <3> QED BY <2>1, <2>2, <3>2, <3>4, <3>5 DEF Copying!Pass, Copying!Next
  <2>4. CASE ~Save
    <3>1. UNCHANGED ckpt BY <1>2, <2>4 DEF UploaderStep, Boot, Post, Timeout, Backoff, Crash
    <3> QED BY <2>1, <2>2, <3>1 DEF Copying!vars
  <2> QED BY <2>3, <2>4
<1>3. ASSUME NEW c \in Chunk, Accept(c) \/ Refuse(c) PROVE Copying!Next \/ UNCHANGED Copying!vars
  <2>1. UNCHANGED <<spool, ckpt>> BY <1>3 DEF Accept, Refuse, runtimeVars
  <2>2. CASE stored' = stored
    <3>1. UNCHANGED Copied BY <2>1, <2>2, SameSpoolSameRows DEF Copied
    <3> QED BY <2>1, <3>1 DEF Copying!vars
  <2>3. CASE stored' # stored
    <3>1. Accept(c) BY <1>3, <2>3 DEF Refuse
    <3> QED BY <2>1, <2>3, <3>1, StoringCopies DEF Copying!Next, Copying!vars
  <2> QED BY <2>2, <2>3
<1>4. CASE UNCHANGED vars
  <2>1. UNCHANGED <<spool, stored, ckpt>> BY <1>4 DEF vars
  <2> QED BY <2>1, SameSpoolSameRows DEF Copied, Copying!vars
<1> QED BY <1>1, <1>2, <1>3, <1>4 DEF Next, RuntimeStep, UploaderStep

----
\* The theorems.

\* Every reachable state is well typed: the spool never exceeds its size, a batch never
\* reaches beyond it.
THEOREM UploaderTypeCorrect == Spec => []TypeOK
<1>1. Inv => TypeOK BY DEF Inv
<1> QED BY <1>1, AlwaysInv, PTL

\* The checkpoint never passes a row the platform does not have.
THEOREM NothingSkipped == Spec => []CheckpointIsStored
<1>1. Inv => CheckpointIsStored BY DEF Inv
<1> QED BY <1>1, AlwaysInv, PTL

\* No row is stored in two chunks: chunks lie one after the other.
THEOREM NothingTwice == Spec => []StoredOnce
<1>1. Inv => StoredOnce
  <2> SUFFICES ASSUME Inv, NEW c \in stored, NEW d \in stored, NEW p \in Rows(c) \cap Rows(d),
                      c.seq < d.seq, Rows(c) \subseteq 1..d.seq
               PROVE  FALSE
    BY DEF Inv, UploadOK, ChunksOK, StoredOnce
  <2>1. d.seq \in Nat /\ d.end \in Nat BY SizesAssumption DEF Inv, TypeOK, Chunk
  <2>2. p <= d.seq /\ d.seq < p BY <2>1, RowsRange DEF Inv
  <2> QED BY <2>1, <2>2, RowsRange DEF Inv
<1> QED BY <1>1, AlwaysInv, PTL

\* The platform has a beginning of the spool: the rows before a chunk are behind the
\* checkpoint or in the chunk.
THEOREM NothingOvertakes == Spec => []CopyHasNoGaps
<1>1. Inv => CopyHasNoGaps
  <2> SUFFICES ASSUME Inv, NEW r \in stored, NEW p \in Rows(r),
                      NEW q \in Rows([seq |-> 0, end |-> p])
               PROVE  q \in Copied
    BY DEF CopyHasNoGaps, Copied
  <2>0. TypeOK /\ r \in Chunk /\ r.seq \in Nat /\ r.end \in Nat /\ ckpt \in Nat
    BY SizesAssumption DEF Inv, TypeOK, Chunk
  <2>1. p \in Nat /\ p <= r.end BY <2>0, RowsRange
  <2>2. q \in Nat /\ 1 <= q /\ q <= p /\ q \in DOMAIN spool /\ spool[q].kind # "bad"
    BY <2>0, <2>1, SpoolType DEF Rows
  <2>3. CASE r.seq < q
    <3>1. q \in Rows(r) BY <2>0, <2>1, <2>2, <2>3 DEF Rows
    <3> QED BY <3>1 DEF Copied
  <2>4. CASE q <= r.seq
    <3>1. r.seq <= ckpt BY <2>0 DEF Inv, UploadOK, ChunksOK
    <3>2. q \in Rows(Passed) BY <2>0, <2>2, <2>4, <3>1 DEF Rows, Passed
    <3> QED BY <3>2 DEF Inv, CheckpointIsStored
  <2> QED BY <2>0, <2>2, <2>3, <2>4
<1> QED BY <1>1, AlwaysInv, PTL

\* The timeline check refuses nothing of a spool in order: what is refused then is a
\* sequence number that is stored with other rows.
THEOREM RefusalsExplained == Spec => []RefusalHasCause
<1>1. Init => RefusalHasCause BY DEF Init, RefusalHasCause, Call
<1>2. Inv /\ RefusalHasCause /\ [Next]_vars => RefusalHasCause' BY RefusalNext
<1> QED BY <1>1, <1>2, AlwaysInv, PTL DEF Spec

\* The uploader and the platform implement SpoolCopy, whatever is lost, late, repeated or
\* killed: only a chunk at the checkpoint is ever stored, and it begins where the copy ends.
THEOREM CopyImplemented == Spec => ImplementsSpoolCopy
<1>1. Init => Copying!Init BY DEF Init, Copying!Init, Copied
<1>2. Inv /\ Inv' /\ [Next]_vars => [Copying!Next]_(Copying!vars) BY CopyStep
<1> QED BY <1>1, <1>2, AlwaysInv, PTL DEF Spec, ImplementsSpoolCopy, Copying!Spec
====
