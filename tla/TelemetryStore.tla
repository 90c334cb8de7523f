---- MODULE TelemetryStore ----
\* Telemetry chunks of one account: the append-only shard of each run, the index rows in
\* the ledger that commit its lines, the evaluation summary computed from them, and the
\* listing of a run, which reads both without joining the store's write chain.
EXTENDS Integers, FiniteSets

CONSTANTS
  Runs, Chunks, Keys,  \* run ids, chunk contents, Idempotency-Keys
  ChunkRun, ChunkSeq,  \* the run and the sequence number of a chunk
  ChunkDevice,         \* the board it comes from
  ChunkTime,           \* the timestamp of its samples
  Openers,             \* the chunks that begin with the start of a policy session
  Attested,            \* the chunks signed by the board agent
  Legacy,              \* ids of the rows written before the split, samples inline
  LegacyChunk,         \* their chunks
  MaxId,               \* bound on the records created
  RunQuota, OwnerQuota, RecordCap,  \* SIM2REAL_TELEMETRY_LIMITS, a chunk counting one
  NoKey, Nothing

Ids == 1..MaxId

\* A cleared telemetryRevision.
NoRevision == {0}

ASSUME ChunkAssumption ==
  /\ ChunkRun \in [Chunks -> Runs] /\ ChunkSeq \in [Chunks -> Nat]
  /\ ChunkTime \in [Chunks -> Nat] /\ Attested \subseteq Chunks /\ Openers \subseteq Chunks
ASSUME LegacyAssumption ==
  /\ MaxId \in Nat /\ Legacy \subseteq Ids /\ LegacyChunk \in [Legacy -> Chunks \ Attested]
  /\ \A i \in Ids, j \in Legacy : i < j => i \in Legacy
ASSUME LimitAssumption ==
  /\ RunQuota \in Nat /\ OwnerQuota \in Nat /\ RecordCap \in Nat
  /\ Cardinality(Legacy) <= RunQuota /\ RunQuota <= OwnerQuota /\ OwnerQuota <= RecordCap
ASSUME NullAssumption == NoKey \notin Keys /\ Nothing \notin Chunks \cup Runs

VARIABLES
  index,     \* ledger.telemetry
  shard,     \* the complete lines of <run>.jsonl
  torn,      \* <run>.jsonl ends in a part of a line
  revision,  \* run.telemetryRevision, set and cleared with run.evaluation: the ids it digests
  op,        \* the append inside the write chain
  nextId,    \* the record it creates next, in the order of receivedAt
  cutoff,    \* records up to here are older than the retention period
  reader,    \* a listing in flight
  acked      \* ids a client was told are stored

vars == <<index, shard, torn, revision, op, nextId, cutoff, reader, acked>>

\* A shard is a set of ids: lines are appended in the order of nextId. Nothing follows a
\* torn line: no append gets past the read of its run's shard.
Row == [id : Ids, chunk : Chunks, key : Keys \cup {NoKey}]

Idle == [step |-> "idle", chunk |-> Nothing, key |-> NoKey, id |-> 0, expired |-> {}]
Op == [step : {"idle", "line", "index", "prune"}, chunk : Chunks \cup {Nothing},
       key : Keys \cup {NoKey}, id : 0..MaxId, expired : SUBSET Ids]

NoListing == [step |-> "idle", run |-> Nothing, limit |-> 0, rows |-> {}, listing |-> {}]
Listing == [step : {"idle", "head", "again", "full", "done"}, run : Runs \cup {Nothing},
            limit : 0..RecordCap, rows : SUBSET Row, listing : SUBSET Row]

Init ==
  /\ index = {[id |-> i, chunk |-> LegacyChunk[i], key |-> NoKey] : i \in Legacy}
  /\ shard = [r \in Runs |-> {}]
  /\ torn = [r \in Runs |-> FALSE]
  /\ revision = [r \in Runs |-> NoRevision]
  /\ op = Idle
  /\ nextId = Cardinality(Legacy) + 1
  /\ cutoff = 0
  /\ reader = NoListing
  /\ acked = {}

----
\* The rows of a run, of the records in rows.
OfRun(rows, r) == {row \in rows : ChunkRun[row.chunk] = r}

IdsOf(rows) == {row.id : row \in rows}

\* committedTelemetryIds: the index decides which lines of a shard are visible.
CommittedIds(r) == IdsOf(OfRun(index, r))

\* loadRunTelemetry: the committed lines of the shard and the inline rows. It throws when
\* a line cannot be parsed.
Readable(r) == ~torn[r]
Visible(rows, r) == {row \in OfRun(rows, r) : row.id \in shard[r] \cup Legacy}

\* compareTelemetryRecords
Before(x, y) ==
  \/ ChunkSeq[x.chunk] < ChunkSeq[y.chunk]
  \/ ChunkSeq[x.chunk] = ChunkSeq[y.chunk] /\ x.id < y.id

\* The first n rows in replay order, and in the order of the file.
First(rows, n) == {x \in rows : Cardinality({y \in rows : Before(y, x)}) < n}
Head(rows, n) == {x \in rows : Cardinality({y \in rows : y.id < x.id}) < n}

\* expiredTelemetryIndexIds: rows with inline samples are kept.
Expired(r) == {i \in CommittedIds(r) \ Legacy : i <= cutoff}

\* Mutant: only the key is looked up.
BadKnown(c, k) == {row \in OfRun(index, ChunkRun[c]) : k # NoKey /\ row.key = k}

\* The sequence number is the identity of a chunk that a board has signed: one run may have
\* telemetry of several boards, each of which counts for itself.
SameSigned(c, d) ==
  /\ {c, d} \subseteq Attested
  /\ ChunkDevice[c] = ChunkDevice[d] /\ ChunkSeq[c] = ChunkSeq[d]

\* The rows an append replays instead of storing the chunk again: same key, else, for a
\* signed chunk, same sequence.
Known(c, k) ==
  LET sameKey == {row \in OfRun(index, ChunkRun[c]) : k # NoKey /\ row.key = k}
      sameSeq == {row \in OfRun(index, ChunkRun[c]) : SameSigned(c, row.chunk)} IN
  IF sameKey # {} THEN sameKey ELSE sameSeq

\* assertTelemetryTimeline: time does not go back, except where a session starts.
InOrder(rows) ==
  \A x, y \in rows :
    Before(x, y) /\ ChunkTime[x.chunk] > ChunkTime[y.chunk] =>
      \E z \in rows : z.chunk \in Openers /\ Before(x, z) /\ (z = y \/ Before(z, y))

\* Mutant: the expired rows of every run are left out of the count.
BadWithinQuota(r) ==
  LET kept == {row \in index : row.id \notin UNION {Expired(q) : q \in Runs}} IN
  /\ Cardinality(OfRun(kept, r)) + 1 <= RunQuota
  /\ Cardinality(kept) + 1 <= OwnerQuota
  /\ Cardinality(kept) < RecordCap

\* The quotas are taken over the committed rows of the account; only the expired rows of
\* the appended run, which the same append removes, are left out.
WithinQuota(r) ==
  LET kept == {row \in index : row.id \notin Expired(r)} IN
  /\ Cardinality(OfRun(kept, r)) + 1 <= RunQuota
  /\ Cardinality(kept) + 1 <= OwnerQuota
  /\ Cardinality(kept) < RecordCap

----
\* An append of a chunk that is known: answered as a duplicate, or refused as a conflict.
Replay(c, k) ==
  /\ op.step = "idle"
  /\ Readable(ChunkRun[c])
  /\ \E row \in Known(c, k) : row.chunk = c /\ acked' = acked \cup {row.id}
  /\ UNCHANGED <<index, shard, torn, revision, op, nextId, cutoff, reader>>

\* A new chunk passes the checks and the write of its line begins. The quota reads the
\* shard of every run of the account.
BeginAppend(c, k) ==
  LET r == ChunkRun[c]
      new == [id |-> nextId, chunk |-> c, key |-> k] IN
  /\ op.step = "idle"
  /\ nextId <= MaxId
  /\ Known(c, k) = {}
  /\ \A q \in {r} \cup {ChunkRun[row.chunk] : row \in index} : Readable(q)
  /\ InOrder({row \in OfRun(index, r) : row.id \notin Expired(r)} \cup {new})
  /\ WithinQuota(r)
  /\ op' = [step |-> "line", chunk |-> c, key |-> k, id |-> nextId, expired |-> Expired(r)]
  /\ nextId' = nextId + 1
  /\ torn' = [torn EXCEPT ![r] = TRUE]
  /\ UNCHANGED <<index, shard, revision, cutoff, reader, acked>>

\* Mutant: the client is answered before the index row is written.
BadFinishLine ==
  LET r == ChunkRun[op.chunk] IN
  /\ op.step = "line"
  /\ shard' = [shard EXCEPT ![r] = @ \cup {op.id}]
  /\ torn' = [torn EXCEPT ![r] = FALSE]
  /\ op' = [op EXCEPT !.step = "index"]
  /\ acked' = acked \cup {op.id}
  /\ UNCHANGED <<index, revision, nextId, cutoff, reader>>

\* appendTelemetryShard returns: the line is complete and synced.
FinishLine ==
  LET r == ChunkRun[op.chunk] IN
  /\ op.step = "line"
  /\ shard' = [shard EXCEPT ![r] = @ \cup {op.id}]
  /\ torn' = [torn EXCEPT ![r] = FALSE]
  /\ op' = [op EXCEPT !.step = "index"]
  /\ UNCHANGED <<index, revision, nextId, cutoff, reader, acked>>

\* Mutant: the evaluation of the run is not cleared.
BadCommitIndex ==
  /\ op.step = "index"
  /\ index' = {row \in index : row.id \notin op.expired}
                \cup {[id |-> op.id, chunk |-> op.chunk, key |-> op.key]}
  /\ \/ op.expired = {} /\ op' = Idle /\ acked' = acked \cup {op.id}
     \/ op.expired # {} /\ op' = [op EXCEPT !.step = "prune"] /\ acked' = acked
  /\ UNCHANGED <<shard, torn, revision, nextId, cutoff, reader>>

\* writeLedger: the index row commits the line, expired rows leave the index and the
\* evaluation of the run is cleared.
CommitIndex ==
  /\ op.step = "index"
  /\ index' = {row \in index : row.id \notin op.expired}
                \cup {[id |-> op.id, chunk |-> op.chunk, key |-> op.key]}
  /\ revision' = [revision EXCEPT ![ChunkRun[op.chunk]] = NoRevision]
  /\ \/ op.expired = {} /\ op' = Idle /\ acked' = acked \cup {op.id}
     \/ op.expired # {} /\ op' = [op EXCEPT !.step = "prune"] /\ acked' = acked
  /\ UNCHANGED <<shard, torn, nextId, cutoff, reader>>

\* Mutant: the rewrite takes the cutoff anew.
BadPruneShard ==
  /\ op.step = "prune"
  /\ shard' = [shard EXCEPT ![ChunkRun[op.chunk]] = {i \in @ : i > cutoff}]
  /\ op' = Idle
  /\ acked' = acked \cup {op.id}
  /\ UNCHANGED <<index, torn, revision, nextId, cutoff, reader>>

\* rewriteTelemetryShardWithout: one rename replaces the file.
PruneShard ==
  /\ op.step = "prune"
  /\ shard' = [shard EXCEPT ![ChunkRun[op.chunk]] = @ \ op.expired]
  /\ op' = Idle
  /\ acked' = acked \cup {op.id}
  /\ UNCHANGED <<index, torn, revision, nextId, cutoff, reader>>

\* A step of the append fails (disk full, lease lost): the client gets an error.
AppendFails ==
  /\ op.step # "idle"
  /\ op' = Idle
  /\ UNCHANGED <<index, shard, torn, revision, nextId, cutoff, reader, acked>>

\* The process is killed and restarted.
Crash ==
  /\ op # Idle \/ reader # NoListing
  /\ op' = Idle
  /\ reader' = NoListing
  /\ UNCHANGED <<index, shard, torn, revision, nextId, cutoff, acked>>

\* evaluateSim2RealRun: reads, computes and writes inside the write chain.
EvaluateRun(r) ==
  /\ op.step = "idle"
  /\ Readable(r)
  /\ revision' = [revision EXCEPT ![r] = IdsOf(Visible(index, r))]
  /\ UNCHANGED <<index, shard, torn, op, nextId, cutoff, reader, acked>>

\* Another record passes the retention period.
Age ==
  /\ cutoff + 1 < nextId
  /\ cutoff' = cutoff + 1
  /\ UNCHANGED <<index, shard, torn, revision, op, nextId, reader, acked>>

----
\* loadRunTelemetryBounded asks for limit + |inline rows| lines from the head.
HeadSize == reader.limit + Cardinality({row \in reader.rows : row.id \in Legacy})

\* The lines it gets, of those the snapshot of the index commits.
HeadRows == Head({row \in reader.rows : row.id \in shard[reader.run]}, HeadSize)

\* Mutant: the head of the file is trusted.
BadHeadCovers(head) == TRUE

\* headCoversIndexedTop
HeadCovers(head) == \A row \in First(reader.rows, HeadSize) : row.id \in Legacy \/ row \in head

\* listSim2RealTelemetry: the ledger first, then the shard, all of it only at the cap.
BeginList(r, n) ==
  /\ reader.step = "idle"
  /\ reader' = [step |-> IF n < RecordCap THEN "head" ELSE "full", run |-> r, limit |-> n, rows |-> OfRun(index, r), listing |-> {}]
  /\ UNCHANGED <<index, shard, torn, revision, op, nextId, cutoff, acked>>

\* The bounded read stops at its size; a short one meets the torn tail and throws.
ReadHead ==
  /\ reader.step = "head"
  /\ LET short == Cardinality(HeadRows) < HeadSize
         inline == {row \in reader.rows : row.id \in Legacy} IN
     \/ short /\ ~Readable(reader.run) /\ reader' = NoListing
     \/ ~short /\ ~HeadCovers(HeadRows) /\ reader' = [reader EXCEPT !.step = "again"]
     \/ /\ IF short THEN Readable(reader.run) ELSE HeadCovers(HeadRows)
        /\ reader' = [reader EXCEPT !.step = "done",
                                    !.listing = First(HeadRows \cup inline, reader.limit)]
  /\ UNCHANGED <<index, shard, torn, revision, op, nextId, cutoff, acked>>

\* The fall-back: loadRunTelemetry reads the ledger again ...
ReadLedgerAgain ==
  /\ reader.step = "again"
  /\ reader' = [reader EXCEPT !.step = "full", !.rows = OfRun(index, reader.run)]
  /\ UNCHANGED <<index, shard, torn, revision, op, nextId, cutoff, acked>>

\* ... and then the whole shard.
ReadFull ==
  /\ reader.step = "full"
  /\ \/ ~Readable(reader.run) /\ reader' = NoListing
     \/ /\ Readable(reader.run)
        /\ reader' = [reader EXCEPT !.step = "done",
                        !.listing = First(Visible(reader.rows, reader.run), reader.limit)]
  /\ UNCHANGED <<index, shard, torn, revision, op, nextId, cutoff, acked>>

EndList ==
  /\ reader.step = "done"
  /\ reader' = NoListing
  /\ UNCHANGED <<index, shard, torn, revision, op, nextId, cutoff, acked>>

Next ==
  \/ \E c \in Chunks, k \in Keys \cup {NoKey} : Replay(c, k) \/ BeginAppend(c, k)
  \/ FinishLine \/ CommitIndex \/ PruneShard \/ AppendFails \/ Crash \/ Age
  \/ \E r \in Runs : EvaluateRun(r) \/ \E n \in 1..RecordCap : BeginList(r, n)
  \/ ReadHead \/ ReadLedgerAgain \/ ReadFull \/ EndList

Spec == Init /\ [][Next]_vars

----
\* The state has the shape of the ledger and the shard files.
TypeOK ==
  /\ index \subseteq Row
  /\ shard \in [Runs -> SUBSET Ids]
  /\ torn \in [Runs -> BOOLEAN]
  /\ revision \in [Runs -> (SUBSET Ids) \cup {NoRevision}]
  /\ op \in Op
  /\ nextId \in 1..(MaxId + 1)
  /\ cutoff \in 0..MaxId
  /\ reader \in Listing
  /\ acked \subseteq Ids

\* No crash, failed step or prune leaves an index row whose samples are in no file: the
\* order of the shard append, the ledger write and the rewrite (lines 3419-3452).
IndexHasSamples ==
  \A row \in index : row.id \in Legacy \/ row.id \in shard[ChunkRun[row.chunk]]

\* A chunk a client was told is stored, as new or as a duplicate, stays indexed until it
\* is older than the retention period: an orphan line never counts as a stored chunk.
AcknowledgedKept ==
  \A i \in acked : i \in IdsOf(index) \/ (i \notin Legacy /\ i <= cutoff)

\* However often a client retries after a lost answer, a failed step or a crash, a run
\* holds one chunk per key, and one signed chunk per board and sequence number.
StoredOnce ==
  \A x, y \in index :
    /\ ChunkRun[x.chunk] = ChunkRun[y.chunk]
    /\ \/ x.key = y.key /\ x.key # NoKey
       \/ SameSigned(x.chunk, y.chunk)
    => x = y

\* The evaluation a run carries was computed from exactly its committed chunks: not from
\* an orphan line, nor from a set that has grown or been pruned since.
EvaluationFresh == \A r \in Runs : revision[r] \in {NoRevision, CommittedIds(r)}

\* The quotas hold for the index as it is, although each append leaves out of the count
\* the rows it is about to remove.
QuotasHold ==
  /\ \A r \in Runs : Cardinality(OfRun(index, r)) <= RunQuota
  /\ Cardinality(index) <= OwnerQuota
  /\ Cardinality(index) <= RecordCap

\* The chunks that are stored: committed by the index, their samples inline or on a complete
\* line. Whether a read gets to them is another matter: it throws when the run is torn.
Stored == {row \in index : row.id \in Legacy \cup shard[ChunkRun[row.chunk]]}

Log == INSTANCE ChunkLog WITH rows <- Stored, unreadable <- {r \in Runs : ~Readable(r)}

\* An append writes the shard, the ledger and the shard again, each may fail or be the last
\* before a crash, and clients retry: what is stored nevertheless changes as in ChunkLog, by
\* whole chunks, within the quotas, and never twice for one upload; and while a line is cut
\* short in a run, nothing of that run is acknowledged or evaluated and nothing that needs
\* its lines is stored.
ImplementsChunkLog == Log!Spec

\* A listing that ends is the head of the run in replay order: it has only rows that were
\* committed when it read the ledger and, of those still committed, none that comes before
\* one it has, or before its end, is missing; appends, prunes and crashes included.
ListingIsHead ==
  reader.step = "done" =>
    /\ reader.listing \subseteq reader.rows
    /\ \A y \in (reader.rows \cap index) \ reader.listing :
         /\ Cardinality(reader.listing) = reader.limit
         /\ \A x \in reader.listing : Before(x, y)
====
