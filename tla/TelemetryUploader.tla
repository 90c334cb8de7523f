---- MODULE TelemetryUploader ----
\* A board's telemetry on its way to the platform: the policy runtime appends lines to a
\* spool file, the uploader posts batches of them and keeps a checkpoint, and the platform
\* stores attested chunks. The runtime's two threads, the uploader, the network and
\* crashes of either process interleave. Lines are counted, not bytes.
EXTENDS Integers, FiniteSets, Sequences

CONSTANTS
  BatchSize,  \* RDK_BOARD_TELEMETRY_BATCH_SIZE
  MaxLines,   \* TELEMETRY_MAX_BYTES, in lines: a full spool takes no more
  MaxT        \* bound: the largest session time

ASSUME SizesAssumption == BatchSize \in Nat \ {0} /\ MaxLines \in Nat /\ MaxT \in Nat

VARIABLES
  spool,     \* the complete lines of the spool file
  torn,      \* whether an incomplete line follows them
  clock,     \* time since the session started (t of a line), 0 when none runs
  running,   \* whether a session's control loop runs
  pending,   \* the line each thread of the runtime is about to append
  ckpt,      \* the checkpoint file: how many lines are acknowledged
  call,      \* the uploader's loop; its offset is ckpt, and call.end while it saves
  inflight,  \* requests on their way to the platform
  stored     \* the chunks the platform has stored

runtimeVars == <<spool, torn, clock, running, pending>>
uploadVars == <<ckpt, call, inflight, stored>>
vars == <<spool, torn, clock, running, pending, ckpt, call, inflight, stored>>

Writers == {"ops", "loop"}   \* the thread of the command file, the control loop

Line == [kind : {"start", "row", "bad"}, t : 0..MaxT]
NoLine == [kind |-> "none", t |-> 0]
Bad == [kind |-> "bad", t |-> 0]
StartLine == [kind |-> "start", t |-> 0]
RowNow == [kind |-> "row", t |-> clock]

\* A chunk: the lines from sequence (the offset of its first byte) to its end.
Chunk == [seq : 0..MaxLines, end : 0..MaxLines]

Call(step, end) == [step |-> step, end |-> end]

Init ==
  /\ spool = <<>> /\ torn = FALSE
  /\ clock = 0 /\ running = FALSE
  /\ pending = [w \in Writers |-> NoLine]
  /\ ckpt = 0 /\ call = Call("down", 0)
  /\ inflight = {} /\ stored = {}

----
\* The policy runtime. A thread takes t, and opens the file only then: _append_event_record
\* and _append_telemetry hold no lock.

StartSession ==
  /\ ~running
  /\ pending["ops"] = NoLine
  /\ running' = TRUE
  /\ clock' = 0
  /\ pending' = [pending EXCEPT !["ops"] = StartLine]
  /\ UNCHANGED <<spool, torn, uploadVars>>

\* stop() on the command thread, _fault() on the loop.
EndSession(w) ==
  /\ running
  /\ pending["ops"] # StartLine
  /\ pending[w] = NoLine
  /\ running' = FALSE
  /\ clock' = 0
  /\ pending' = [pending EXCEPT ![w] = RowNow]
  /\ UNCHANGED <<spool, torn, uploadVars>>

\* The loop's thread is started after the session-started line.
BeginSample ==
  /\ running
  /\ pending["ops"] # StartLine
  /\ pending["loop"] = NoLine
  /\ pending' = [pending EXCEPT !["loop"] = RowNow]
  /\ UNCHANGED <<spool, torn, clock, running, uploadVars>>

\* A line that follows an incomplete one is read together with it.
AppendLine(w) ==
  /\ pending[w] # NoLine
  /\ Len(spool) < MaxLines
  /\ spool' = Append(spool, IF torn THEN Bad ELSE pending[w])
  /\ torn' = FALSE
  /\ pending' = [pending EXCEPT ![w] = NoLine]
  /\ UNCHANGED <<clock, running, uploadVars>>

\* The spool is full or the file system refuses the line, possibly after a part of it:
\* telemetry loss never blocks motion.
Lose(w) ==
  /\ pending[w] # NoLine
  /\ torn' \in {torn, TRUE}
  /\ pending' = [pending EXCEPT ![w] = NoLine]
  /\ UNCHANGED <<spool, clock, running, uploadVars>>

KillRuntime ==
  /\ running \/ pending # [w \in Writers |-> NoLine]
  /\ running' = FALSE
  /\ torn' \in {torn, torn \/ pending # [w \in Writers |-> NoLine]}
  /\ clock' = 0
  /\ pending' = [w \in Writers |-> NoLine]
  /\ UNCHANGED <<spool, uploadVars>>

Tick ==
  /\ running
  /\ clock < MaxT
  /\ clock' = clock + 1
  /\ UNCHANGED <<spool, torn, running, pending, uploadVars>>

----
\* The uploader.

\* The lines of a chunk that carry a sample or an event.
Rows(c) == {p \in DOMAIN spool : c.seq < p /\ p <= c.end /\ spool[p].kind # "bad"}

\* _read_batch goes on while the batch is not full and the next row is not older than the
\* ones before it.
Fits(c) ==
  /\ Cardinality(Rows([c EXCEPT !.end = @ - 1])) < BatchSize
  /\ \A p, q \in Rows(c) : p < q => spool[p].t <= spool[q].t

\* The chunk the next read at an offset yields; malformed lines are skipped, an incomplete
\* one is left for later.
Batches(seq) ==
  {c \in Chunk :
    /\ c.seq = seq /\ seq < c.end /\ c.end <= Len(spool)
    /\ \A e \in seq + 1..c.end : Fits([c EXCEPT !.end = e])
    /\ c.end = Len(spool) \/ ~Fits([c EXCEPT !.end = @ + 1])}

\* _offset
Boot ==
  /\ call.step = "down"
  /\ call' = Call("read", 0)
  /\ UNCHANGED <<runtimeVars, ckpt, inflight, stored>>

\* Mutant: only full batches are sent.
BadPost ==
  /\ call.step = "read"
  /\ \E c \in Batches(ckpt) :
       /\ Cardinality(Rows(c)) = BatchSize
       /\ call' = Call("post", c.end)
       /\ inflight' = inflight \cup {c}
  /\ UNCHANGED <<runtimeVars, ckpt, stored>>

\* Nothing is sent, and nothing skipped, while the batch holds no row.
Post ==
  /\ call.step = "read"
  /\ \E c \in Batches(ckpt) :
       /\ Rows(c) # {}
       /\ call' = Call("post", c.end)
       /\ inflight' = inflight \cup {c}
  /\ UNCHANGED <<runtimeVars, ckpt, stored>>

\* No answer within 15 s, or a broken connection: the request may still be on its way. The
\* batch is read again, from a spool that may have grown.
Timeout ==
  /\ call.step = "post"
  /\ call' = Call("read", 0)
  /\ inflight' \in {inflight, inflight \ {[seq |-> ckpt, end |-> call.end]}}
  /\ UNCHANGED <<runtimeVars, ckpt, stored>>

\* Mutant: a chunk that is refused is skipped.
BadBackoff ==
  /\ call.step = "refused"
  /\ call' = Call("save", call.end)
  /\ UNCHANGED <<runtimeVars, ckpt, inflight, stored>>

\* A refusal is printed, and the same offset tried again.
Backoff ==
  /\ call.step = "refused"
  /\ call' = Call("read", 0)
  /\ UNCHANGED <<runtimeVars, ckpt, inflight, stored>>

\* _save_offset replaces the file atomically.
Save ==
  /\ call.step = "save"
  /\ ckpt' = call.end
  /\ call' = Call("read", 0)
  /\ UNCHANGED <<runtimeVars, inflight, stored>>

\* Killed, or ended by a checkpoint that cannot be written; the service starts it again.
Crash ==
  /\ call.step # "down"
  /\ call' = Call("down", 0)
  /\ UNCHANGED <<runtimeVars, ckpt, inflight, stored>>

----
\* The platform (appendSim2RealTelemetryWithResult, for an attested upload).

\* The key is made of the offset and the rows.
Known(c) == \E r \in stored : r.seq = c.seq /\ Rows(r) = Rows(c)

\* A sequence number may not be used again with other content.
Conflicts(c) == \E r \in stored : r.seq = c.seq /\ Rows(r) # Rows(c)

\* Sample p of chunk c comes before sample q of chunk d in the replay.
Before(c, p, d, q) == c.seq < d.seq \/ (c = d /\ p < q)

TimeGoesBack(p, q) ==
  spool[p].kind = "row" /\ spool[q].kind = "row" /\ spool[q].t < spool[p].t

\* Mutant: a new session does not start the time again.
BadTimelineOK(chunks) ==
  \A c, d \in chunks : \A p \in Rows(c), q \in Rows(d) :
    Before(c, p, d, q) => ~TimeGoesBack(p, q)

\* assertTelemetryTimeline: time goes back only where a session starts.
TimelineOK(chunks) ==
  \A c, d \in chunks : \A p \in Rows(c), q \in Rows(d) :
    Before(c, p, d, q) /\ TimeGoesBack(p, q) =>
      \E m \in chunks : \E s \in Rows(m) :
        spool[s].kind = "start" /\ Before(c, p, m, s) /\ Before(m, s, d, q)

\* The answer reaches the uploader if it still waits for this request.
Answer(c, step) ==
  \/ UNCHANGED call
  \/ call = Call("post", c.end) /\ c.seq = ckpt /\ call' = Call(step, c.end)

Accept(c) ==
  /\ c \in inflight
  /\ inflight' = inflight \ {c}
  /\ IF Known(c) THEN UNCHANGED stored
     ELSE ~Conflicts(c) /\ TimelineOK(stored \cup {c}) /\ stored' = stored \cup {c}
  /\ Answer(c, "save")
  /\ UNCHANGED <<runtimeVars, ckpt>>

Refuse(c) ==
  /\ c \in inflight
  /\ inflight' = inflight \ {c}
  /\ ~Known(c)
  /\ Conflicts(c) \/ ~TimelineOK(stored \cup {c})
  /\ Answer(c, "refused")
  /\ UNCHANGED <<runtimeVars, ckpt, stored>>

----
Next ==
  \/ StartSession \/ BeginSample \/ KillRuntime \/ Tick
  \/ \E w \in Writers : EndSession(w) \/ AppendLine(w) \/ Lose(w)
  \/ Boot \/ Post \/ Timeout \/ Backoff \/ Save \/ Crash
  \/ \E c \in Chunk : Accept(c) \/ Refuse(c)

Spec == Init /\ [][Next]_vars

\* The uploader's loop goes on, systemd starts it again (Restart=always), and a request
\* that is repeated for ever is answered in time for ever.
Fairness ==
  /\ WF_vars(Boot) /\ WF_vars(Timeout) /\ WF_vars(Backoff)
  /\ SF_vars(Post) /\ SF_vars(Save)
  /\ SF_vars((\E c \in Chunk : Accept(c) \/ Refuse(c)) /\ call' # call)

FairSpec == Spec /\ Fairness

----
\* Properties.

\* Every variable keeps to its type.
TypeOK ==
  /\ spool \in Seq(Line) /\ Len(spool) <= MaxLines
  /\ torn \in BOOLEAN /\ running \in BOOLEAN
  /\ clock \in 0..MaxT
  /\ pending \in [Writers -> Line \cup {NoLine}]
  /\ ckpt \in 0..MaxLines
  /\ call \in [step : {"down", "read", "post", "refused", "save"}, end : 0..MaxLines]
  /\ inflight \subseteq Chunk /\ stored \subseteq Chunk

Copied == UNION {Rows(c) : c \in stored}

Passed == [seq |-> 0, end |-> ckpt]

\* "Replaying a chunk" after a lost answer or a lost checkpoint never stores a line twice,
\* although the batch that is read again may have grown.
StoredOnce == \A c, d \in stored : Rows(c) \cap Rows(d) # {} => c = d

\* "Advances a checkpoint only after the server acknowledges the chunk": every row the
\* checkpoint has passed is stored, whatever crashes or arrives late.
CheckpointIsStored == Rows(Passed) \subseteq Copied

\* What the platform has is at every moment a beginning of what the board recorded: no
\* chunk overtakes another, none is skipped.
CopyHasNoGaps ==
  \A p \in Copied : Rows([seq |-> 0, end |-> p]) \subseteq Copied

\* The copy on the platform, seen without batches and retries.
Copying == INSTANCE SpoolCopy WITH Lines <- Line, copied <- Copied

\* Whatever is lost, late, repeated or killed, the uploader and the platform implement
\* SpoolCopy: each chunk that is stored prolongs the beginning the platform has, in one
\* step, and the checkpoint moves over lines that are stored.
ImplementsSpoolCopy == Copying!Spec

\* Time goes back in the spool only where a session starts.
SpoolInOrder ==
  \A p, q \in DOMAIN spool :
    p < q /\ TimeGoesBack(p, q) => \E s \in p..q : spool[s].kind = "start"

\* The timeline check only refuses what the runtime's threads or a lost session-started
\* line have put out of order: of the checks of order and sequence, batches of a spool in order
\* fail none but the one for a sequence number that is stored with other rows.
RefusalHasCause ==
  SpoolInOrder /\ call.step = "refused" =>
    \E r \in stored : r.seq = ckpt /\ Rows(r) # Rows([seq |-> ckpt, end |-> call.end])

\* What holds between the checkpoint, the requests and the chunks, and makes the invariants
\* above inductive: requests start at the checkpoint or where a chunk is stored, and a
\* chunk's rows end before the next one starts.
CallOK ==
  /\ call.end <= Len(spool)
  /\ call.step \in {"post", "save", "refused"} => ckpt < call.end
  /\ call.step = "save" =>
       \E r \in stored : r.seq = ckpt /\ Rows(r) = Rows([seq |-> ckpt, end |-> call.end])

RequestsOK ==
  \A c \in inflight :
    /\ c.end <= Len(spool)
    /\ c.seq = ckpt \/ (c.seq < ckpt /\ \E r \in stored : r.seq = c.seq)

ChunksOK ==
  \A r \in stored :
    /\ r.end <= Len(spool)
    /\ r.seq = ckpt \/ (r.seq < ckpt /\ Rows(r) \subseteq 1..ckpt)
    /\ \A s \in stored : r = s \/ (r.seq < s.seq /\ Rows(r) \subseteq 1..s.seq)
                               \/ (s.seq < r.seq /\ Rows(s) \subseteq 1..r.seq)

UploadOK == ckpt <= Len(spool) /\ CallOK /\ RequestsOK /\ ChunksOK

\* Again and again the platform has every readable line of the spool, or the uploader is
\* told that it does not get it.
Drained ==
  []<>(Rows([seq |-> 0, end |-> MaxLines]) \subseteq Copied \/ call.step = "refused")

\* "Replaying a chunk is safe because the request carries an idempotency key derived from
\* its byte range and content": nothing of a spool in order is refused.
ReplayIsSafe == SpoolInOrder => call.step # "refused"
====
