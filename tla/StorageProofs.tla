---- MODULE StorageProofs ----
\* Theorems about the two modules of the storage directory: TelemetryStore, for every number
\* of runs, chunks, keys, legacy rows and records and for all quotas, and WriterLease, for
\* every number of processes, writes and hosts and every staleness time.
EXTENDS TelemetryStore, WriterLease, FiniteSetTheorems, TLAPS

----
\* TelemetryStore: the inductive invariant.

Run(row) == ChunkRun[row.chunk]

\* Record ids are handed out once, after those of the legacy rows.
IdsOK ==
  /\ IsFiniteSet(index)
  /\ \A x, y \in index : x.id = y.id => x = y
  /\ \A row \in index : row.id < nextId
  /\ \A i \in Legacy : i < nextId
  /\ op.step # "idle" => op.id < nextId /\ op.id \in Ids \ Legacy /\ op.chunk \in Chunks

\* What an append is going to remove has expired when it began, and is older than its record.
ExpiredOK ==
  op.step # "idle" => \A i \in op.expired : i \notin Legacy /\ i <= cutoff /\ i < op.id

\* The rows an append is going to keep leave room for its own.
RoomOK ==
  LET kept == {row \in index : row.id \notin op.expired} IN
  /\ Cardinality(OfRun(kept, ChunkRun[op.chunk])) + 1 <= RunQuota
  /\ Cardinality(kept) + 1 <= OwnerQuota
  /\ Cardinality(kept) < RecordCap

\* The checks an append has made still hold when it writes the ledger: the write chain
\* lets no other append, and nothing else that changes the index, in between.
CheckedOK ==
  op.step \in {"line", "index"} =>
    /\ \A row \in index : row.id < op.id
    /\ \A row \in index : row.id \in op.expired => Run(row) = ChunkRun[op.chunk]
    /\ Known(op.chunk, op.key) = {}
    /\ RoomOK

\* The line is in the shard when the ledger is written, and the ledger is written when the
\* shard is.
OrderOK ==
  /\ op.step = "index" => op.id \in shard[ChunkRun[op.chunk]]
  /\ op.step = "prune" =>
       /\ op.id \in IdsOf(index)
       /\ \A row \in index : Run(row) = ChunkRun[op.chunk] => row.id \notin op.expired

Inv ==
  /\ TypeOK /\ IdsOK /\ ExpiredOK /\ CheckedOK /\ OrderOK
  /\ IndexHasSamples /\ AcknowledgedKept /\ StoredOnce /\ EvaluationFresh /\ QuotasHold

----
\* The initial state.

\* The legacy rows have the first ids.
LEMMA LegacyFirst ==
  /\ IsFiniteSet(Legacy) /\ Cardinality(Legacy) \in 0..MaxId
  /\ \A i \in Legacy : i <= Cardinality(Legacy)
<1>1. IsFiniteSet(Ids) /\ Cardinality(Ids) = MaxId
  BY LegacyAssumption, FS_Interval DEF Ids
<1>2. IsFiniteSet(Legacy) /\ Cardinality(Legacy) \in Nat /\ Cardinality(Legacy) <= MaxId
  BY <1>1, LegacyAssumption, FS_Subset, FS_CardinalityType
<1>3. ASSUME NEW i \in Legacy PROVE i <= Cardinality(Legacy)
  <2>1. i \in Nat /\ i >= 1 BY LegacyAssumption DEF Ids
  <2>2. 1..i \subseteq Legacy BY <2>1, LegacyAssumption DEF Ids
  <2>3. Cardinality(1..i) <= Cardinality(Legacy) BY <1>2, <2>2, FS_Subset
  <2>4. Cardinality(1..i) = i BY <2>1, FS_Interval
  <2> QED BY <2>3, <2>4
<1> QED BY <1>2, <1>3, LegacyAssumption

\* No append runs.
LEMMA IdleOp == Idle.step = "idle" /\ Idle \in Op
<1>1. 0 \in 0..MaxId /\ {} \in SUBSET Ids BY LegacyAssumption
<1> QED BY <1>1 DEF Idle, Op

\* Inv holds of the rows written before the split.
LEMMA InvInit == Init => Inv
<1> SUFFICES ASSUME Init PROVE Inv OBVIOUS
<1> DEFINE legacyRow(i) == [id |-> i, chunk |-> LegacyChunk[i], key |-> NoKey]
           f == [i \in Legacy |-> legacyRow(i)]
<1>1. index = {legacyRow(i) : i \in Legacy} BY DEF Init
<1>2. \A i \in Legacy : legacyRow(i) \in Row /\ legacyRow(i).id = i /\ legacyRow(i).key = NoKey
                        /\ legacyRow(i).chunk \notin Attested
  BY LegacyAssumption DEF Row
<1>3. f \in Surjection(Legacy, index) BY <1>1 DEF Surjection
<1>4. IsFiniteSet(index) /\ Cardinality(index) <= Cardinality(Legacy)
      /\ Cardinality(index) \in Nat
  BY <1>3, LegacyFirst, FS_Surjection, FS_CardinalityType
<1>5. index \subseteq Row /\ \A row \in index : row.id \in Legacy /\ row.key = NoKey
                             /\ row.chunk \notin Attested /\ row = legacyRow(row.id)
  BY <1>1, <1>2
<1> HIDE DEF f, legacyRow
<1>6. op.step = "idle" /\ op \in Op BY IdleOp DEF Init
<1>7. reader \in Listing /\ reader.step = "idle"
  BY LimitAssumption DEF Init, NoListing, Listing
<1>8. TypeOK
  <2>1. nextId \in 1..(MaxId + 1) /\ cutoff \in 0..MaxId
    BY LegacyFirst, LegacyAssumption DEF Init
  <2> QED BY <1>5, <1>6, <1>7, <2>1 DEF Init, TypeOK
<1>9. IdsOK
  <2>1. \A i \in Legacy : i < nextId BY LegacyFirst, LegacyAssumption DEF Init, Ids
  <2> QED BY <1>4, <1>5, <1>6, <2>1 DEF IdsOK
<1>10. ExpiredOK /\ CheckedOK /\ OrderOK BY <1>6 DEF ExpiredOK, CheckedOK, OrderOK
<1>11. IndexHasSamples /\ StoredOnce BY <1>5 DEF IndexHasSamples, StoredOnce, SameSigned
<1>12. AcknowledgedKept /\ EvaluationFresh BY DEF Init, AcknowledgedKept, EvaluationFresh
<1>13. QuotasHold
  <2>1. ASSUME NEW r \in Runs PROVE Cardinality(OfRun(index, r)) <= RunQuota
    <3>1. OfRun(index, r) \subseteq index BY DEF OfRun
    <3>2. Cardinality(OfRun(index, r)) <= Cardinality(index) /\ Cardinality(OfRun(index, r)) \in Nat
      BY <1>4, <3>1, FS_Subset, FS_CardinalityType
    <3> QED BY <1>4, <3>2, LegacyFirst, LimitAssumption
  <2> QED BY <1>4, <2>1, LegacyFirst, LimitAssumption DEF QuotasHold
<1> QED BY <1>8, <1>9, <1>10, <1>11, <1>12, <1>13 DEF Inv

----
\* The steps of an append.

\* A replayed chunk is indexed, so it may be acknowledged.
LEMMA ReplayStep ==
  ASSUME Inv, NEW c \in Chunks, NEW k \in Keys \cup {NoKey}, Replay(c, k) PROVE Inv'
<1>1. PICK row \in index : acked' = acked \cup {row.id}
  BY DEF Replay, Known, OfRun
<1>2. UNCHANGED <<index, shard, torn, revision, op, nextId, cutoff, reader>> BY DEF Replay
<1>3. row.id \in Ids /\ row.id \in IdsOf(index) BY DEF Inv, TypeOK, Row, IdsOf
<1>4. TypeOK' BY <1>1, <1>2, <1>3 DEF Inv, TypeOK
<1>5. AcknowledgedKept' BY <1>1, <1>2, <1>3 DEF Inv, AcknowledgedKept, IdsOf
<1>6. IdsOK' /\ ExpiredOK' BY <1>2 DEF Inv, IdsOK, ExpiredOK
<1>7. CheckedOK' BY <1>2 DEF Inv, CheckedOK, RoomOK, Known, OfRun, Run
<1>8. OrderOK' /\ IndexHasSamples' /\ StoredOnce'
  BY <1>2 DEF Inv, OrderOK, IndexHasSamples, StoredOnce, IdsOf, Run
<1>9. EvaluationFresh' /\ QuotasHold'
  BY <1>2 DEF Inv, EvaluationFresh, QuotasHold, CommittedIds, OfRun, IdsOf
<1> QED BY <1>4, <1>5, <1>6, <1>7, <1>8, <1>9 DEF Inv

\* What BeginAppend has checked is what CheckedOK remembers.
LEMMA BeginAppendStep ==
  ASSUME Inv, NEW c \in Chunks, NEW k \in Keys \cup {NoKey}, BeginAppend(c, k) PROVE Inv'
<1> DEFINE r == ChunkRun[c]
<1>1. /\ op.step = "idle" /\ nextId <= MaxId /\ Known(c, k) = {} /\ WithinQuota(r)
      /\ op' = [step |-> "line", chunk |-> c, key |-> k, id |-> nextId, expired |-> Expired(r)]
      /\ nextId' = nextId + 1
      /\ UNCHANGED <<index, shard, revision, cutoff, reader, acked>>
  BY DEF BeginAppend
<1>2. r \in Runs /\ nextId \in Ids
  BY <1>1, ChunkAssumption, LegacyAssumption DEF Inv, TypeOK, Ids
<1>3. \A i \in Expired(r) : /\ i \in Ids \ Legacy /\ i <= cutoff /\ i < nextId
                            /\ \E row \in index : row.id = i /\ Run(row) = r
  BY DEF Expired, CommittedIds, OfRun, IdsOf, Run, Inv, IdsOK, TypeOK, Row
<1>4. /\ op'.step = "line" /\ op'.chunk = c /\ op'.key = k
      /\ op'.id = nextId /\ op'.expired = Expired(r)
  BY <1>1
<1>5. TypeOK'
  <2>1. op' \in Op
    <3>1. Expired(r) \in SUBSET Ids BY <1>3
    <3> QED BY <1>1, <1>2, <3>1 DEF Op, Ids
  <2>2. nextId' \in 1..(MaxId + 1) BY <1>1, LegacyAssumption DEF Inv, TypeOK
  <2>3. torn' \in [Runs -> BOOLEAN] BY DEF BeginAppend, Inv, TypeOK
  <2> QED BY <1>1, <2>1, <2>2, <2>3 DEF Inv, TypeOK
<1>6. IdsOK'
  <2>1. nextId \in Nat /\ \A row \in index : row.id \in Nat
    BY LegacyAssumption DEF Inv, TypeOK, Row, Ids
  <2>2. nextId \notin Legacy BY <2>1 DEF Inv, IdsOK
  <2>3. \A i \in Legacy : i < nextId' BY <1>1, <2>1, LegacyAssumption DEF Inv, IdsOK, Ids
  <2> QED BY <1>1, <1>2, <1>4, <2>1, <2>2, <2>3 DEF Inv, IdsOK
<1>7. ExpiredOK' BY <1>1, <1>3, <1>4 DEF ExpiredOK
<1>8. CheckedOK'
  <2>1. \A row \in index : row.id < nextId /\ (row.id \in Expired(r) => Run(row) = r)
    <3> TAKE row \in index
    <3>1. row.id < nextId /\ row.id \in Nat /\ nextId \in Nat
      BY LegacyAssumption DEF Inv, IdsOK, TypeOK, Row, Ids
    <3>2. row.id \in Expired(r) => Run(row) = r
      BY <1>3 DEF Inv, IdsOK
    <3> QED BY <3>1, <3>2
  <2>2. RoomOK' BY <1>1, <1>4 DEF RoomOK, WithinQuota, OfRun
  <2>3. Known(op.chunk, op.key)' = {} BY <1>1, <1>4 DEF Known, OfRun
  <2> QED BY <1>1, <1>4, <2>1, <2>2, <2>3 DEF CheckedOK, Run
<1>9. OrderOK' BY <1>4 DEF OrderOK
<1>10. IndexHasSamples' /\ StoredOnce' /\ AcknowledgedKept'
  BY <1>1 DEF Inv, IndexHasSamples, StoredOnce, AcknowledgedKept, IdsOf
<1>11. EvaluationFresh' /\ QuotasHold'
  BY <1>1 DEF Inv, EvaluationFresh, QuotasHold, CommittedIds, OfRun, IdsOf
<1> QED BY <1>5, <1>6, <1>7, <1>8, <1>9, <1>10, <1>11 DEF Inv

\* The line is now in the shard.
LEMMA FinishLineStep == ASSUME Inv, FinishLine PROVE Inv'
<1> DEFINE r == ChunkRun[op.chunk]
<1>1. /\ op.step = "line" /\ op' = [op EXCEPT !.step = "index"]
      /\ shard' = [shard EXCEPT ![r] = @ \cup {op.id}]
      /\ UNCHANGED <<index, revision, nextId, cutoff, reader, acked>>
  BY DEF FinishLine
<1>2. /\ op \in Op /\ op.chunk \in Chunks /\ op.id \in Ids /\ r \in Runs
      /\ shard \in [Runs -> SUBSET Ids]
  BY <1>1, ChunkAssumption DEF Inv, TypeOK, IdsOK
<1>3. /\ op' \in Op /\ op'.step = "index" /\ op'.id = op.id /\ op'.chunk = op.chunk
      /\ op'.key = op.key /\ op'.expired = op.expired
  BY <1>1, <1>2 DEF Op
<1>4. /\ shard' \in [Runs -> SUBSET Ids] /\ op.id \in shard'[r]
      /\ \A q \in Runs : shard[q] \subseteq shard'[q]
  BY <1>1, <1>2
<1>5. TypeOK'
  <2>1. torn' \in [Runs -> BOOLEAN] BY DEF FinishLine, Inv, TypeOK
  <2> QED BY <1>1, <1>3, <1>4, <2>1 DEF Inv, TypeOK
<1>6. IdsOK' /\ ExpiredOK' BY <1>1, <1>3 DEF Inv, IdsOK, ExpiredOK
<1>7. CheckedOK'
  <2>1. Known(op.chunk, op.key)' = Known(op.chunk, op.key) BY <1>1, <1>3 DEF Known, OfRun
  <2>2. RoomOK' <=> RoomOK BY <1>1, <1>3 DEF RoomOK, OfRun
  <2> QED BY <1>1, <1>3, <2>1, <2>2 DEF Inv, CheckedOK, Run
<1>8. OrderOK' BY <1>3, <1>4 DEF OrderOK
<1>9. IndexHasSamples'
  <2>1. \A row \in index : Run(row) \in Runs BY ChunkAssumption DEF Inv, TypeOK, Row, Run
  <2> QED BY <1>1, <1>4, <2>1 DEF Inv, IndexHasSamples, Run
<1>10. StoredOnce' /\ AcknowledgedKept' BY <1>1 DEF Inv, StoredOnce, AcknowledgedKept, IdsOf
<1>11. EvaluationFresh' /\ QuotasHold'
  BY <1>1 DEF Inv, EvaluationFresh, QuotasHold, CommittedIds, OfRun, IdsOf
<1> QED BY <1>5, <1>6, <1>7, <1>8, <1>9, <1>10, <1>11 DEF Inv

\* Adding one element makes a finite set at most one larger.
LEMMA OneMore ==
  ASSUME NEW S, IsFiniteSet(S), NEW x
  PROVE /\ IsFiniteSet(S \cup {x}) /\ Cardinality(S) \in Nat /\ Cardinality(S \cup {x}) \in Nat
        /\ Cardinality(S \cup {x}) <= Cardinality(S) + 1
<1>1. IsFiniteSet(S \cup {x}) BY FS_AddElement
<1>2. Cardinality(S) \in Nat /\ Cardinality(S \cup {x}) \in Nat BY <1>1, FS_CardinalityType
<1>3. Cardinality(S \cup {x}) = Cardinality(S) \/ Cardinality(S \cup {x}) = Cardinality(S) + 1
  BY FS_AddElement
<1> QED BY <1>1, <1>2, <1>3

\* The ledger write commits the line and drops the expired rows.
LEMMA CommitIndexStep == ASSUME Inv, CommitIndex PROVE Inv'
<1> DEFINE r == ChunkRun[op.chunk]
           new == [id |-> op.id, chunk |-> op.chunk, key |-> op.key]
           kept == {row \in index : row.id \notin op.expired}
<1>1. /\ op.step = "index" /\ index' = kept \cup {new}
      /\ revision' = [revision EXCEPT ![r] = NoRevision]
      /\ UNCHANGED <<shard, torn, nextId, cutoff, reader>>
  BY DEF CommitIndex
<1>2. /\ op \in Op /\ op.chunk \in Chunks /\ op.id \in Ids \ Legacy /\ r \in Runs
      /\ op.key \in Keys \cup {NoKey} /\ op.expired \subseteq Ids /\ op.id < nextId
  BY <1>1, ChunkAssumption DEF Inv, TypeOK, IdsOK, Op
<1>3. new \in Row /\ new.id = op.id /\ new.chunk = op.chunk /\ new.key = op.key
  BY <1>2 DEF Row
<1>4. kept \subseteq index /\ \A row \in kept : row.id \notin op.expired /\ row.id # op.id
  <2>1. \A row \in index : row.id < op.id /\ row.id \in Nat /\ op.id \in Nat
    BY <1>1, <1>2, LegacyAssumption DEF Inv, CheckedOK, TypeOK, Row, Ids
  <2> QED BY <2>1
<1>5. \A i \in op.expired : i \notin Legacy /\ i <= cutoff /\ i # op.id
  BY <1>1, <1>2 DEF Inv, ExpiredOK, Ids
<1>6. Known(op.chunk, op.key) = {} /\ RoomOK BY <1>1 DEF Inv, CheckedOK
<1>7. op.id \in shard[r] BY <1>1 DEF Inv, OrderOK
<1>8. \A row \in index \ kept : Run(row) = r BY <1>1 DEF Inv, CheckedOK
<1>9. \/ op' = Idle /\ acked' = acked \cup {op.id}
      \/ op' = [op EXCEPT !.step = "prune"] /\ acked' = acked
  BY DEF CommitIndex
<1>10. \/ op'.step = "idle"
       \/ /\ op'.step = "prune" /\ op'.id = op.id /\ op'.chunk = op.chunk
          /\ op'.expired = op.expired
  BY <1>2, <1>9, IdleOp DEF Op
<1>11. new \in index' /\ index' = kept \cup {new} BY <1>1
<1> HIDE DEF new, kept, r
<1>12. TypeOK'
  <2>1. op' \in Op BY <1>2, <1>9, IdleOp DEF Op
  <2>2. revision' \in [Runs -> (SUBSET Ids) \cup {NoRevision}]
    BY <1>1, <1>2 DEF Inv, TypeOK
  <2>3. index' \subseteq Row BY <1>3, <1>4, <1>11 DEF Inv, TypeOK
  <2>4. acked' \subseteq Ids BY <1>2, <1>9 DEF Inv, TypeOK
  <2> QED BY <1>1, <2>1, <2>2, <2>3, <2>4 DEF Inv, TypeOK
<1>13. IsFiniteSet(kept) BY <1>4, FS_Subset DEF Inv, IdsOK
<1>14. IdsOK'
  <2>1. IsFiniteSet(index') BY <1>11, <1>13, FS_AddElement
  <2>2. \A x, y \in index' : x.id = y.id => x = y
    BY <1>3, <1>4, <1>11 DEF Inv, IdsOK
  <2>3. \A row \in index' : row.id < nextId' BY <1>1, <1>2, <1>3, <1>4, <1>11 DEF Inv, IdsOK
  <2>4. \A i \in Legacy : i < nextId' BY <1>1 DEF Inv, IdsOK
  <2>5. op'.step # "idle" => op'.id < nextId' /\ op'.id \in Ids \ Legacy /\ op'.chunk \in Chunks
    BY <1>1, <1>2, <1>10
  <2> QED BY <2>1, <2>2, <2>3, <2>4, <2>5 DEF IdsOK
<1>15. ExpiredOK' BY <1>1, <1>10 DEF Inv, ExpiredOK
<1>16. CheckedOK' BY <1>10 DEF CheckedOK
<1>17. OrderOK'
  <2>1. op.id \in IdsOf(index)' BY <1>3, <1>11 DEF IdsOf
  <2>2. \A row \in index' : row.id \notin op.expired BY <1>3, <1>4, <1>5, <1>11
  <2> QED BY <1>10, <2>1, <2>2 DEF OrderOK
<1>18. IndexHasSamples'
  BY <1>1, <1>3, <1>4, <1>7, <1>11 DEF Inv, IndexHasSamples, r
<1>19. AcknowledgedKept'
  <2>1. op.id \in IdsOf(index)' BY <1>3, <1>11 DEF IdsOf
  <2>2. ASSUME NEW i \in IdsOf(index), i \notin op.expired PROVE i \in IdsOf(index)'
    BY <1>11, <2>2 DEF IdsOf, kept
  <2> QED BY <1>1, <1>5, <1>9, <2>1, <2>2 DEF Inv, AcknowledgedKept
<1>20. StoredOnce'
  <2>1. ASSUME NEW x \in index, ChunkRun[x.chunk] = r
        PROVE /\ ~ (x.key = op.key /\ op.key # NoKey)
              /\ ~ SameSigned(op.chunk, x.chunk)
    BY <1>6, <2>1 DEF Known, OfRun, r
  <2>2. \A x, y \in index' : x \in index \/ x = new BY <1>4, <1>11
  <2>3. ASSUME NEW x \in index', NEW y \in index', ChunkRun[x.chunk] = ChunkRun[y.chunk],
               \/ x.key = y.key /\ x.key # NoKey
               \/ SameSigned(x.chunk, y.chunk)
        PROVE x = y
    <3>1. CASE x \in index /\ y \in index BY <2>3, <3>1 DEF Inv, StoredOnce
    <3>2. CASE x \in index /\ y = new BY <1>3, <2>1, <2>3, <3>2 DEF r, SameSigned
    <3>3. CASE x = new /\ y \in index BY <1>3, <2>1, <2>3, <3>3 DEF r
    <3> QED BY <2>2, <3>1, <3>2, <3>3
  <2> QED BY <2>3 DEF StoredOnce
<1>21. EvaluationFresh'
  <2>1. ASSUME NEW q \in Runs, q # r PROVE CommittedIds(q)' = CommittedIds(q)
    <3>1. OfRun(index, q)' = OfRun(index, q)
      BY <1>3, <1>4, <1>8, <1>11, <2>1 DEF OfRun, Run, r
    <3> QED BY <3>1 DEF CommittedIds, IdsOf
  <2>2. \A q \in Runs : revision'[q] = IF q = r THEN NoRevision ELSE revision[q]
    BY <1>1, <1>2 DEF Inv, TypeOK
  <2> QED BY <2>1, <2>2 DEF Inv, EvaluationFresh
<1>22. QuotasHold'
  <2>1. Cardinality(index') <= Cardinality(kept) + 1
    BY <1>11, <1>13, OneMore
  <2>2. Cardinality(kept) + 1 <= OwnerQuota /\ Cardinality(kept) < RecordCap
        /\ Cardinality(OfRun(kept, r)) + 1 <= RunQuota
    BY <1>6 DEF RoomOK, kept, r
  <2>3. IsFiniteSet(index') /\ Cardinality(kept) \in Nat /\ Cardinality(index') \in Nat
    BY <1>13, <1>14, FS_CardinalityType DEF IdsOK
  <2>4. ASSUME NEW q \in Runs PROVE Cardinality(OfRun(index, q)') <= RunQuota
    <3>1. CASE q = r
      <4>1. OfRun(index, q)' = OfRun(kept, r) \cup {new}
        BY <1>3, <1>11, <3>1 DEF OfRun, r
      <4>2. IsFiniteSet(OfRun(kept, r)) BY <1>13, FS_Subset DEF OfRun
      <4>3. /\ Cardinality(OfRun(kept, r) \cup {new}) <= Cardinality(OfRun(kept, r)) + 1
            /\ Cardinality(OfRun(kept, r)) \in Nat
            /\ Cardinality(OfRun(kept, r) \cup {new}) \in Nat
        BY <4>2, OneMore
      <4> QED BY <2>2, <4>1, <4>3, LimitAssumption
    <3>2. CASE q # r
      <4>1. OfRun(index, q)' = OfRun(index, q)
        BY <1>3, <1>4, <1>8, <1>11, <3>2 DEF OfRun, Run, r
      <4> QED BY <4>1 DEF Inv, QuotasHold
    <3> QED BY <3>1, <3>2
  <2> QED BY <2>1, <2>2, <2>3, <2>4, LimitAssumption DEF QuotasHold
<1> QED BY <1>12, <1>14, <1>15, <1>16, <1>17, <1>18, <1>19, <1>20, <1>21, <1>22 DEF Inv

\* The rewrite removes only lines the index no longer has.
LEMMA PruneShardStep == ASSUME Inv, PruneShard PROVE Inv'
<1> DEFINE r == ChunkRun[op.chunk]
<1>1. /\ op.step = "prune" /\ op' = Idle /\ acked' = acked \cup {op.id}
      /\ shard' = [shard EXCEPT ![r] = @ \ op.expired]
      /\ UNCHANGED <<index, torn, revision, nextId, cutoff, reader>>
  BY DEF PruneShard
<1>2. op.id \in Ids /\ op'.step = "idle" /\ op' \in Op BY <1>1, IdleOp DEF Inv, IdsOK
<1>3. TypeOK' BY <1>1, <1>2 DEF Inv, TypeOK
<1>4. IdsOK' BY <1>1, <1>2 DEF Inv, IdsOK
<1>5. ExpiredOK' /\ CheckedOK' /\ OrderOK' BY <1>2 DEF ExpiredOK, CheckedOK, OrderOK
<1>6. IndexHasSamples'
  <2>1. \A row \in index : ChunkRun[row.chunk] = r => row.id \notin op.expired
    BY <1>1 DEF Inv, OrderOK, Run
  <2>2. \A row \in index : ChunkRun[row.chunk] \in Runs
    BY ChunkAssumption DEF Inv, TypeOK, Row
  <2>3. \A q \in Runs : shard'[q] = IF q = r THEN shard[q] \ op.expired ELSE shard[q]
    BY <1>1 DEF Inv, TypeOK
  <2> QED BY <1>1, <2>1, <2>2, <2>3 DEF Inv, IndexHasSamples
<1>7. AcknowledgedKept'
  <2>1. op.id \in IdsOf(index) BY <1>1 DEF Inv, OrderOK
  <2> QED BY <1>1, <2>1 DEF Inv, AcknowledgedKept, IdsOf
<1>8. StoredOnce' BY <1>1 DEF Inv, StoredOnce
<1>9. EvaluationFresh' /\ QuotasHold'
  BY <1>1 DEF Inv, EvaluationFresh, QuotasHold, CommittedIds, OfRun, IdsOf
<1> QED BY <1>3, <1>4, <1>5, <1>6, <1>7, <1>8, <1>9 DEF Inv

\* A failed step and a crash only forget the append, and a crash the listing.
LEMMA ForgetStep == ASSUME Inv, AppendFails \/ Crash PROVE Inv'
<1>1. op' = Idle /\ UNCHANGED <<index, shard, torn, revision, nextId, cutoff, acked>>
      /\ (reader' = reader \/ reader' = NoListing)
  BY DEF AppendFails, Crash
<1>2. op'.step = "idle" /\ op' \in Op BY <1>1, IdleOp
<1>3. reader' \in Listing
  BY <1>1, LimitAssumption DEF Inv, TypeOK, NoListing, Listing
<1>4. TypeOK' BY <1>1, <1>2, <1>3 DEF Inv, TypeOK
<1>5. IdsOK' BY <1>1, <1>2 DEF Inv, IdsOK
<1>6. ExpiredOK' /\ CheckedOK' /\ OrderOK' BY <1>2 DEF ExpiredOK, CheckedOK, OrderOK
<1>7. IndexHasSamples' /\ AcknowledgedKept' /\ StoredOnce'
  BY <1>1 DEF Inv, IndexHasSamples, AcknowledgedKept, StoredOnce, IdsOf
<1>8. EvaluationFresh' /\ QuotasHold'
  BY <1>1 DEF Inv, EvaluationFresh, QuotasHold, CommittedIds, OfRun, IdsOf
<1> QED BY <1>4, <1>5, <1>6, <1>7, <1>8 DEF Inv

----
\* The other steps.

\* All committed rows are visible, so the evaluation digests them all.
LEMMA EvaluateRunStep == ASSUME Inv, NEW r \in Runs, EvaluateRun(r) PROVE Inv'
<1>1. revision' = [revision EXCEPT ![r] = IdsOf(Visible(index, r))]
      /\ UNCHANGED <<index, shard, torn, op, nextId, cutoff, reader, acked>>
  BY DEF EvaluateRun
<1>2. Visible(index, r) = OfRun(index, r)
  BY DEF Visible, OfRun, Inv, IndexHasSamples
<1>3. IdsOf(Visible(index, r)) = CommittedIds(r) BY <1>2 DEF CommittedIds
<1>4. CommittedIds(r) \in SUBSET Ids BY DEF CommittedIds, IdsOf, OfRun, Inv, TypeOK, Row
<1>5. TypeOK' BY <1>1, <1>3, <1>4 DEF Inv, TypeOK
<1>6. IdsOK' /\ ExpiredOK' /\ OrderOK' /\ IndexHasSamples' /\ AcknowledgedKept' /\ StoredOnce'
  BY <1>1 DEF Inv, IdsOK, ExpiredOK, OrderOK, IndexHasSamples, AcknowledgedKept, StoredOnce,
              IdsOf, Run
<1>7. CheckedOK' BY <1>1 DEF Inv, CheckedOK, RoomOK, Known, OfRun, Run
<1>8. EvaluationFresh'
  <2>1. \A q \in Runs : CommittedIds(q)' = CommittedIds(q)
    BY <1>1 DEF CommittedIds, IdsOf, OfRun
  <2>2. \A q \in Runs : revision'[q] = IF q = r THEN CommittedIds(r) ELSE revision[q]
    BY <1>1, <1>3 DEF Inv, TypeOK
  <2> QED BY <2>1, <2>2 DEF Inv, EvaluationFresh
<1>9. QuotasHold' BY <1>1 DEF Inv, QuotasHold, OfRun
<1> QED BY <1>5, <1>6, <1>7, <1>8, <1>9 DEF Inv

\* A later cutoff only lets more records expire.
LEMMA AgeStep == ASSUME Inv, Age PROVE Inv'
<1>1. cutoff + 1 < nextId /\ cutoff' = cutoff + 1
      /\ UNCHANGED <<index, shard, torn, revision, op, nextId, reader, acked>>
  BY DEF Age
<1>2. cutoff \in Nat /\ cutoff' \in 0..MaxId
  BY <1>1, LegacyAssumption DEF Inv, TypeOK
<1>3. TypeOK' BY <1>1, <1>2 DEF Inv, TypeOK
<1>4. ExpiredOK'
  <2>1. op.expired \subseteq Ids BY DEF Inv, TypeOK, Op
  <2> QED BY <1>1, <1>2, <2>1 DEF Inv, ExpiredOK, Ids
<1>5. IdsOK' /\ OrderOK' /\ IndexHasSamples' /\ StoredOnce'
  BY <1>1 DEF Inv, IdsOK, OrderOK, IndexHasSamples, StoredOnce, IdsOf, Run
<1>6. AcknowledgedKept'
  <2>1. acked \subseteq Ids BY DEF Inv, TypeOK
  <2> QED BY <1>1, <1>2, <2>1 DEF Inv, AcknowledgedKept, IdsOf, Ids
<1>7. CheckedOK' BY <1>1 DEF Inv, CheckedOK, RoomOK, Known, OfRun, Run
<1>8. EvaluationFresh' /\ QuotasHold'
  BY <1>1 DEF Inv, EvaluationFresh, QuotasHold, CommittedIds, OfRun, IdsOf
<1> QED BY <1>3, <1>4, <1>5, <1>6, <1>7, <1>8 DEF Inv

\* A listing writes nothing but its own state.
LEMMA ListStep ==
  ASSUME Inv, (\E r \in Runs, n \in 1..RecordCap : BeginList(r, n)) \/ ReadHead
              \/ ReadLedgerAgain \/ ReadFull \/ EndList \/ UNCHANGED vars
  PROVE Inv'
<1>1. UNCHANGED <<index, shard, torn, revision, op, nextId, cutoff, acked>>
  BY DEF BeginList, ReadHead, ReadLedgerAgain, ReadFull, EndList, vars
<1>2. reader \in Listing /\ index \subseteq Row BY DEF Inv, TypeOK
<1>3. NoListing \in Listing BY LimitAssumption DEF NoListing, Listing
<1>4. ASSUME NEW rows \in SUBSET Row, NEW r PROVE OfRun(rows, r) \in SUBSET Row
  BY DEF OfRun
<1>5. ASSUME NEW rows \in SUBSET Row, NEW n PROVE First(rows, n) \in SUBSET Row
  BY DEF First
<1>6. reader' \in Listing
  <2>1. ASSUME NEW r \in Runs, NEW n \in 1..RecordCap, BeginList(r, n) PROVE reader' \in Listing
    <3>1. OfRun(index, r) \in SUBSET Row BY <1>2, <1>4
    <3>2. n \in 0..RecordCap BY LimitAssumption
    <3> QED BY <2>1, <3>1, <3>2 DEF BeginList, Listing
  <2>2. CASE ReadHead
    <3> DEFINE inline == {row \in reader.rows : row.id \in Legacy}
               listed == First(HeadRows \cup inline, reader.limit)
    <3>1. HeadRows \cup inline \in SUBSET Row BY <1>2 DEF HeadRows, Head, Listing
    <3>2. listed \in SUBSET Row BY <1>5, <3>1
    <3>3. \/ reader' = NoListing
          \/ reader' = [reader EXCEPT !.step = "again"]
          \/ reader' = [reader EXCEPT !.step = "done", !.listing = listed]
      BY <2>2 DEF ReadHead
    <3> HIDE DEF listed
    <3> QED BY <1>2, <1>3, <3>2, <3>3 DEF Listing
  <2>3. CASE ReadLedgerAgain
    <3>1. OfRun(index, reader.run) \in SUBSET Row BY <1>2, <1>4
    <3> QED BY <1>2, <2>3, <3>1 DEF ReadLedgerAgain, Listing
  <2>4. CASE ReadFull
    <3> DEFINE listed == First(Visible(reader.rows, reader.run), reader.limit)
    <3>1. Visible(reader.rows, reader.run) \in SUBSET Row
      BY <1>2 DEF Visible, OfRun, Listing
    <3>2. listed \in SUBSET Row BY <1>5, <3>1
    <3>3. \/ reader' = NoListing
          \/ reader' = [reader EXCEPT !.step = "done", !.listing = listed]
      BY <2>4 DEF ReadFull
    <3> HIDE DEF listed
    <3> QED BY <1>2, <1>3, <3>2, <3>3 DEF Listing
  <2>5. CASE EndList BY <1>3, <2>5 DEF EndList
  <2>6. CASE UNCHANGED vars BY <1>2, <2>6 DEF vars
  <2> QED BY <2>1, <2>2, <2>3, <2>4, <2>5, <2>6
<1>7. TypeOK' BY <1>1, <1>6 DEF Inv, TypeOK
<1>8. IdsOK' /\ ExpiredOK' /\ OrderOK' /\ IndexHasSamples' /\ AcknowledgedKept' /\ StoredOnce'
  BY <1>1 DEF Inv, IdsOK, ExpiredOK, OrderOK, IndexHasSamples, AcknowledgedKept, StoredOnce,
              IdsOf, Run
<1>9. CheckedOK' BY <1>1 DEF Inv, CheckedOK, RoomOK, Known, OfRun, Run
<1>10. EvaluationFresh' /\ QuotasHold'
  BY <1>1 DEF Inv, EvaluationFresh, QuotasHold, CommittedIds, OfRun, IdsOf
<1> QED BY <1>7, <1>8, <1>9, <1>10 DEF Inv

\* Every step keeps Inv.
LEMMA InvNext == Inv /\ [Next]_vars => Inv'
<1> SUFFICES ASSUME Inv, [Next]_vars PROVE Inv' OBVIOUS
<1>1. ASSUME NEW c \in Chunks, NEW k \in Keys \cup {NoKey}, Replay(c, k) PROVE Inv'
  BY <1>1, ReplayStep
<1>2. ASSUME NEW c \in Chunks, NEW k \in Keys \cup {NoKey}, BeginAppend(c, k) PROVE Inv'
  BY <1>2, BeginAppendStep
<1>3. CASE FinishLine BY <1>3, FinishLineStep
<1>4. CASE CommitIndex BY <1>4, CommitIndexStep
<1>5. CASE PruneShard BY <1>5, PruneShardStep
<1>6. CASE AppendFails \/ Crash BY <1>6, ForgetStep
<1>7. CASE Age BY <1>7, AgeStep
<1>8. ASSUME NEW r \in Runs, EvaluateRun(r) PROVE Inv' BY <1>8, EvaluateRunStep
<1>9. CASE (\E r \in Runs, n \in 1..RecordCap : BeginList(r, n)) \/ ReadHead
           \/ ReadLedgerAgain \/ ReadFull \/ EndList \/ UNCHANGED vars
  BY <1>9, ListStep
<1> QED BY <1>1, <1>2, <1>3, <1>4, <1>5, <1>6, <1>7, <1>8, <1>9 DEF Next

----
\* TelemetryStore: the theorems on appends.

\* Inv holds in every state: an append keeps what it has checked until it writes the ledger.
THEOREM AlwaysInv == Spec => []Inv
<1> QED BY InvInit, InvNext, PTL DEF Spec

\* The state keeps its shape: addSim2RealTelemetry and the listings write nothing else.
THEOREM StoreTypeCorrect == Spec => []TypeOK
<1>1. Inv => TypeOK BY DEF Inv
<1> QED BY <1>1, AlwaysInv, PTL

\* No index row without samples, whatever step fails or crash comes: the shard is written
\* before the ledger, and rewritten after it, without the rows the ledger has left out.
THEOREM IndexedSamplesExist == Spec => []IndexHasSamples
<1>1. Inv => IndexHasSamples BY DEF Inv
<1> QED BY <1>1, AlwaysInv, PTL

\* A chunk reported as stored stays indexed until it is older than the retention period.
THEOREM AcknowledgedStays == Spec => []AcknowledgedKept
<1>1. Inv => AcknowledgedKept BY DEF Inv
<1> QED BY <1>1, AlwaysInv, PTL

\* A run holds one chunk per Idempotency-Key and one signed chunk per board and sequence
\* number.
THEOREM RetriesStoreOnce == Spec => []StoredOnce
<1>1. Inv => StoredOnce BY DEF Inv
<1> QED BY <1>1, AlwaysInv, PTL

\* The evaluation a run carries digests exactly its committed chunks.
THEOREM EvaluationStaysFresh == Spec => []EvaluationFresh
<1>1. Inv => EvaluationFresh BY DEF Inv
<1> QED BY <1>1, AlwaysInv, PTL

\* The quotas of a run and of the account hold for the index as it is.
THEOREM QuotasAreKept == Spec => []QuotasHold
<1>1. Inv => QuotasHold BY DEF Inv
<1> QED BY <1>1, AlwaysInv, PTL
----
\* TelemetryStore implements ChunkLog.

LEMMA SameCardinality == \A S : Log!Cardinality(S) = Cardinality(S)
BY DEF Log!Cardinality, Cardinality

\* A run is torn only by the line that is being written to it, or has been torn since before
\* the append that runs found the runs it needs whole.
TornOK ==
  op.step # "idle" =>
    \A q \in {ChunkRun[op.chunk]} \cup {Run(row) : row \in index} :
      torn[q] => op.step = "line" /\ q = ChunkRun[op.chunk]

\* Every step keeps TornOK.
LEMMA TornNext == ASSUME Inv, TornOK, [Next]_vars PROVE TornOK'
<1>1. ASSUME NEW c \in Chunks, NEW k \in Keys \cup {NoKey}, BeginAppend(c, k) PROVE TornOK'
  <2>1. /\ \A q \in {ChunkRun[c]} \cup {ChunkRun[row.chunk] : row \in index} : ~torn[q]
        /\ op'.step = "line" /\ op'.chunk = c /\ index' = index
        /\ torn' = [torn EXCEPT ![ChunkRun[c]] = TRUE]
    BY <1>1 DEF BeginAppend, Readable
  <2>2. \A q \in {ChunkRun[c]} \cup {Run(row) : row \in index} : torn'[q] => q = ChunkRun[c]
    BY <2>1 DEF Run
  <2> QED BY <2>1, <2>2 DEF TornOK, Run
<1>2. CASE FinishLine
  <2>1. /\ op.step = "line" /\ op' = [op EXCEPT !.step = "index"] /\ index' = index
        /\ torn' = [torn EXCEPT ![ChunkRun[op.chunk]] = FALSE]
    BY <1>2 DEF FinishLine
  <2>2. op'.step = "index" /\ op'.chunk = op.chunk
    BY <2>1 DEF Inv, TypeOK, Op
  <2>3. ChunkRun[op.chunk] \in Runs /\ torn \in [Runs -> BOOLEAN]
    BY <2>1, ChunkAssumption DEF Inv, TypeOK, IdsOK
  <2>4. \A q \in {ChunkRun[op.chunk]} \cup {Run(row) : row \in index} : ~torn'[q]
    BY <2>1, <2>3 DEF TornOK
  <2> QED BY <2>1, <2>2, <2>4 DEF TornOK, Run
<1>3. CASE CommitIndex
  <2>1. /\ op.step = "index" /\ torn' = torn
        /\ \A row \in index' : row \in index \/ row.chunk = op.chunk
        /\ op' = Idle \/ op' = [op EXCEPT !.step = "prune"]
    BY <1>3 DEF CommitIndex
  <2>2. op'.step = "idle" \/ op'.chunk = op.chunk
    BY <2>1, IdleOp DEF Inv, TypeOK, Op
  <2>3. ~torn[ChunkRun[op.chunk]] /\ \A row \in index : ~torn[Run(row)]
    BY <2>1 DEF TornOK
  <2> QED BY <2>1, <2>2, <2>3 DEF TornOK, Run
<1>4. CASE PruneShard \/ AppendFails \/ Crash
  BY <1>4, IdleOp DEF PruneShard, AppendFails, Crash, TornOK
<1>5. ASSUME UNCHANGED <<index, torn, op>> PROVE TornOK'
  BY <1>5 DEF TornOK, Run
<1>6. ASSUME NEW c \in Chunks, NEW k \in Keys \cup {NoKey}, Replay(c, k) PROVE TornOK'
  BY <1>5, <1>6 DEF Replay
<1>7. CASE (\E r \in Runs : EvaluateRun(r)) \/ Age
  BY <1>5, <1>7 DEF EvaluateRun, Age
<1>8. CASE (\E r \in Runs, n \in 1..RecordCap : BeginList(r, n)) \/ ReadHead
            \/ ReadLedgerAgain \/ ReadFull \/ EndList \/ UNCHANGED vars
  BY <1>5, <1>8 DEF BeginList, ReadHead, ReadLedgerAgain, ReadFull, EndList, vars
<1> QED BY <1>1, <1>2, <1>3, <1>4, <1>6, <1>7, <1>8 DEF Next

\* What is committed is stored whole.
LEMMA StoredIsIndex == ASSUME Inv PROVE Stored = index
BY DEF Stored, Inv, IndexHasSamples

\* Rows that share a key, or a board's sequence number, are known to the append.
LEMMA TwinsAreKnown ==
  ASSUME NEW c, NEW k, Known(c, k) = {}, NEW row \in index, NEW new,
         new.chunk = c, new.key = k
  PROVE  ~Log!Twins(row, new)
BY DEF Known, SameSigned, OfRun, Log!Twins

\* The ledger write stores the chunk.
LEMMA CommitStores == ASSUME Inv, Inv', TornOK, CommitIndex PROVE Log!Next
<1> DEFINE new == [id |-> op.id, chunk |-> op.chunk, key |-> op.key]
           kept == {row \in index : row.id \notin op.expired}
<1>1. /\ op.step = "index" /\ index' = kept \cup {new} /\ UNCHANGED cutoff
      /\ revision' = [revision EXCEPT ![ChunkRun[op.chunk]] = NoRevision]
      /\ acked' \in {acked, acked \cup {op.id}}
  BY DEF CommitIndex
<1>2. new \in Row /\ new.id = op.id /\ new.chunk = op.chunk /\ new.key = op.key
  BY <1>1 DEF Inv, TypeOK, IdsOK, Op, Row
<1>3. \A row \in index : row.id < new.id /\ row.id \in Nat /\ new.id \in Nat
  BY <1>1, <1>2, LegacyAssumption DEF Inv, CheckedOK, TypeOK, Row, Ids
<1>4. \A row \in index : ~Log!Twins(row, new)
  BY <1>1, <1>2, TwinsAreKnown DEF Inv, CheckedOK
<1>5. \A row \in index \ index' :
        row.id \notin Legacy /\ row.id <= cutoff /\ ChunkRun[row.chunk] = ChunkRun[new.chunk]
  BY <1>1, <1>2 DEF Inv, ExpiredOK, CheckedOK, Run
<1>6. Stored = index /\ Stored' = index'
  BY DEF Stored, Inv, IndexHasSamples
<1>7. Stored' \ Stored = {new}
  <2>1. new \notin index BY <1>3
  <2> QED BY <1>1, <1>6, <2>1
<1>8. Log!Fits'
  <2>1. \A r \in Runs : Log!OfRun(r)' = OfRun(index, r)' BY <1>6 DEF OfRun, Log!OfRun
  <2>2. /\ \A r \in Runs : Cardinality(OfRun(index, r)') <= RunQuota
        /\ Cardinality(index') <= OwnerQuota /\ Cardinality(index') <= RecordCap
    BY DEF Inv, QuotasHold
  <2>3. ASSUME NEW r \in Runs PROVE Cardinality(Log!OfRun(r)') <= RunQuota
    BY <2>1, <2>2
  <2>4. Cardinality(Stored') <= OwnerQuota /\ Cardinality(Stored') <= RecordCap
    BY <1>6, <2>2
  <2> QED BY <2>3, <2>4, SameCardinality DEF Log!Fits
<1>9. /\ \A row \in index \cup {new} : ~torn[ChunkRun[row.chunk]]
      /\ torn' = torn
  BY <1>1, <1>2 DEF TornOK, Run, CommitIndex
<1>10. Log!Store(new)
  BY <1>1, <1>2, <1>3, <1>4, <1>5, <1>6, <1>7, <1>8, <1>9 DEF Log!Store, Readable
<1> QED BY <1>2, <1>7, <1>10 DEF Log!Next

\* A line begins, and ends.
LEMMA LineCuts ==
  ASSUME NEW r \in Runs, NEW b \in BOOLEAN, TypeOK, torn' = [torn EXCEPT ![r] = b],
         Stored' = Stored, UNCHANGED <<revision, acked, cutoff>>
  PROVE  Log!Cut(r)
<1> DEFINE old == {q \in Runs : ~Readable(q)}
           new == {q \in Runs : ~Readable(q)'}
<1>1. \A q \in Runs : torn'[q] = IF q = r THEN b ELSE torn[q] BY DEF TypeOK
<1>2. CASE b = TRUE
  <2>1. new = old \cup {r} BY <1>1, <1>2 DEF Readable
  <2> QED BY <2>1 DEF Log!Cut
<1>3. CASE b = FALSE
  <2>1. new = old \ {r} BY <1>1, <1>3 DEF Readable
  <2> QED BY <2>1 DEF Log!Cut
<1> QED BY <1>2, <1>3

\* Every other step is another step of ChunkLog, or changes nothing it speaks of.
LEMMA LogStep == ASSUME Inv, Inv', TornOK, [Next]_vars PROVE [Log!Next]_(Log!vars)
<1>1. Stored = index /\ Stored' = index'
  BY DEF Stored, Inv, IndexHasSamples
<1>2. ASSUME NEW c \in Chunks, NEW k \in Keys \cup {NoKey}, Replay(c, k) PROVE Log!Acknowledge
  <2>1. PICK row \in index : acked' = acked \cup {row.id} /\ ChunkRun[row.chunk] = ChunkRun[c]
    BY <1>2 DEF Replay, Known, OfRun
  <2>2. Readable(ChunkRun[c]) /\ UNCHANGED <<torn, revision, cutoff, index>>
    BY <1>2 DEF Replay
  <2> QED BY <1>1, <2>1, <2>2 DEF Log!Acknowledge, Readable
<1>3. CASE PruneShard
  <2>1. PICK row \in index : row.id = op.id
    BY <1>3 DEF PruneShard, Inv, OrderOK, IdsOf
  <2>2. ~torn[ChunkRun[row.chunk]] BY <1>3, <2>1 DEF PruneShard, TornOK, Run
  <2> QED BY <1>1, <1>3, <2>1, <2>2 DEF PruneShard, Readable, Log!Acknowledge, Log!Next
<1>4. ASSUME NEW r \in Runs, EvaluateRun(r) PROVE Log!Evaluate(r)
  <2>1. Visible(index, r) = OfRun(index, r)
    BY DEF Visible, OfRun, Inv, IndexHasSamples
  <2> QED BY <1>1, <1>4, <2>1
          DEF EvaluateRun, OfRun, IdsOf, Readable, Log!Evaluate, Log!OfRun
<1>5. CASE Age BY <1>1, <1>5 DEF Age, Readable, Log!Age, Log!Next
<1>6. CASE CommitIndex BY <1>6, CommitStores
<1>7. ASSUME UNCHANGED <<index, torn, revision, acked, cutoff>> PROVE UNCHANGED Log!vars
  BY <1>1, <1>7 DEF Log!vars, Readable
<1>8. ASSUME NEW c \in Chunks, NEW k \in Keys \cup {NoKey}, BeginAppend(c, k)
      PROVE  \E r \in Runs : Log!Cut(r)
  <2>1. ChunkRun[c] \in Runs BY ChunkAssumption
  <2> QED BY <1>1, <1>8, <2>1, LineCuts DEF BeginAppend, Inv
<1>9. CASE AppendFails \/ Crash
  BY <1>7, <1>9 DEF AppendFails, Crash
<1>11. CASE FinishLine
  <2>1. ChunkRun[op.chunk] \in Runs
    BY <1>11, ChunkAssumption DEF FinishLine, Inv, IdsOK
  <2>2. Log!Cut(ChunkRun[op.chunk])
    BY <1>1, <1>11, <2>1, LineCuts DEF FinishLine, Inv
  <2> QED BY <2>1, <2>2 DEF Log!Next
<1>10. CASE (\E r \in Runs, n \in 1..RecordCap : BeginList(r, n)) \/ ReadHead
            \/ ReadLedgerAgain \/ ReadFull \/ EndList \/ UNCHANGED vars
  BY <1>7, <1>10 DEF BeginList, ReadHead, ReadLedgerAgain, ReadFull, EndList, vars
<1> QED
  BY <1>2, <1>3, <1>4, <1>5, <1>6, <1>8, <1>9, <1>10, <1>11 DEF Next, Log!Next

\* Appends of three writes, with failures, crashes and retries between them, change what
\* is stored as ChunkLog does in single steps, and acknowledge or digest nothing of a run whose
\* last line is cut short.
THEOREM ChunksImplemented == Spec => ImplementsChunkLog
<1>1. Init /\ Inv => Log!Init
  <2> SUFFICES ASSUME Init, Inv PROVE Log!Init OBVIOUS
  <2>1. Stored = index BY StoredIsIndex
  <2>2. \A row \in index : row \in Row /\ row.id \in Legacy
    BY DEF Init, Inv, TypeOK
  <2>3. {q \in Runs : ~Readable(q)} = {} BY DEF Init, Readable
  <2> QED BY <2>1, <2>2, <2>3 DEF Init, Log!Init
<1>2. Init => TornOK BY IdleOp DEF Init, TornOK
<1>3. Inv /\ TornOK /\ [Next]_vars => TornOK' BY TornNext
<1>4. Inv /\ Inv' /\ TornOK /\ [Next]_vars => [Log!Next]_(Log!vars) BY LogStep
<1> QED BY <1>1, <1>2, <1>3, <1>4, AlwaysInv, PTL DEF Spec, ImplementsChunkLog, Log!Spec

----
\* TelemetryStore: the listings.

\* The first elements of an order. below[x] holds the elements of S before x.

LEMMA FirstElements ==
  ASSUME NEW S, IsFiniteSet(S), NEW n \in Nat, NEW below \in [S -> SUBSET S],
         \A x \in S : x \notin below[x],
         \A x, y \in S : x # y => x \in below[y] \/ y \in below[x],
         \A x, y \in S : x \in below[y] => below[x] \subseteq below[y],
         NEW F, F = {x \in S : Cardinality(below[x]) < n}
  PROVE  /\ IsFiniteSet(F) /\ Cardinality(F) \in Nat /\ Cardinality(F) <= n
         /\ \A y \in S \ F : Cardinality(F) = n /\ \A x \in F : x \in below[y]
<1> DEFINE rank(x) == Cardinality(below[x])
           card == Cardinality(S)
<1>1. \A x \in S : IsFiniteSet(below[x]) /\ rank(x) \in Nat
  BY FS_Subset, FS_CardinalityType
<1>2. card \in Nat BY FS_CardinalityType
<1>3. ASSUME NEW x \in S PROVE rank(x) <= card - 1
  <2>1. below[x] \in SUBSET (S \ {x}) OBVIOUS
  <2>2. IsFiniteSet(S \ {x}) /\ Cardinality(S \ {x}) = card - 1 BY FS_RemoveElement
  <2>3. rank(x) <= Cardinality(S \ {x}) BY <2>1, <2>2, FS_Subset
  <2> QED BY <2>2, <2>3
<1>4. ASSUME NEW x \in S, NEW y \in S, x \in below[y] PROVE rank(x) < rank(y)
  <2>1. below[x] \in SUBSET below[y] /\ below[x] # below[y] BY <1>4
  <2>2. rank(x) <= rank(y) /\ rank(x) # rank(y) BY <1>1, <2>1, FS_Subset
  <2> QED BY <1>1, <2>2
<1>5. \A x, y \in S : x # y => rank(x) # rank(y)
  <2> SUFFICES ASSUME NEW x \in S, NEW y \in S, x # y PROVE rank(x) # rank(y) OBVIOUS
  <2>1. rank(x) \in Nat /\ rank(y) \in Nat BY <1>1
  <2>2. rank(x) < rank(y) \/ rank(y) < rank(x) BY <1>4
  <2> QED BY <2>1, <2>2
<1> HIDE DEF rank, card
<1>6. F \subseteq S /\ (\A x \in S : x \in F <=> rank(x) < n) BY DEF rank
<1>7. IsFiniteSet(F) /\ Cardinality(F) \in Nat BY <1>6, FS_Subset, FS_CardinalityType
<1>8. Cardinality(F) <= n
  <2> DEFINE f == [x \in F |-> rank(x)]
  <2>1. \A x \in F : rank(x) \in 0..(n - 1) BY <1>1, <1>6 DEF rank
  <2>2. f \in Injection(F, 0..(n - 1))
    BY <1>5, <1>6, <2>1, Zenon DEF Injection, IsInjective
  <2>3. IsFiniteSet(0..(n - 1)) /\ Cardinality(0..(n - 1)) = n BY FS_Interval
  <2>4. Cardinality(F) <= Cardinality(0..(n - 1)) BY <2>2, <2>3, FS_Injection
  <2> QED BY <2>3, <2>4
<1>9. ASSUME NEW y \in S \ F PROVE Cardinality(F) = n /\ \A x \in F : x \in below[y]
  <2>1. rank(y) >= n /\ rank(y) \in Nat BY <1>1, <1>6 DEF rank
  <2>2. ASSUME NEW x \in F PROVE x \in below[y]
    <3>1. rank(x) < n /\ rank(x) \in Nat BY <1>1, <1>6 DEF rank
    <3>2. ~ (y \in below[x]) BY <1>4, <1>6, <2>1, <3>1
    <3> QED BY <1>6, <3>2
  <2>3. Cardinality(F) >= n
    <3> DEFINE T == S \ F
               f == [x \in T |-> rank(x)]
    <3>1. IsFiniteSet(T) /\ Cardinality(T) = card - Cardinality(F)
      <4>1. S \cap F = F BY <1>6
      <4> QED BY <4>1, FS_Difference DEF card
    <3>2. \A x \in T : rank(x) \in n..(card - 1)
      <4> TAKE x \in T
      <4>1. rank(x) \in Nat /\ rank(x) <= card - 1 /\ ~ (rank(x) < n) BY <1>1, <1>3, <1>6 DEF rank
      <4> QED BY <1>2, <4>1
    <3>3. f \in Injection(T, n..(card - 1))
      <4>1. f \in [T -> n..(card - 1)] BY <3>2
      <4>2. \A u, v \in T : f[u] = f[v] => u = v BY <1>5
      <4> QED BY <4>1, <4>2 DEF Injection, IsInjective
    <3>4. n <= card - 1 BY <1>2, <1>3, <2>1
    <3>5. IsFiniteSet(n..(card - 1)) /\ Cardinality(n..(card - 1)) = card - n
      BY <1>2, <3>4, FS_Interval
    <3>6. Cardinality(T) <= Cardinality(n..(card - 1)) BY <3>3, <3>5, FS_Injection
    <3> QED BY <1>2, <1>7, <3>1, <3>5, <3>6
  <2> QED BY <1>7, <1>8, <2>2, <2>3
<1> QED BY <1>7, <1>8, <1>9

\* Rows with different ids.
Distinct(rows) == \A x, y \in rows : x.id = y.id => x = y

\* Replay order is total on rows with different ids, so First picks its head.
LEMMA FirstRows ==
  ASSUME NEW rows \in SUBSET Row, IsFiniteSet(rows), Distinct(rows), NEW n \in Nat
  PROVE  /\ First(rows, n) \subseteq rows
         /\ Cardinality(First(rows, n)) \in Nat /\ Cardinality(First(rows, n)) <= n
         /\ \A y \in rows \ First(rows, n) :
              Cardinality(First(rows, n)) = n /\ \A x \in First(rows, n) : Before(x, y)
<1> DEFINE below == [x \in rows |-> {y \in rows : Before(y, x)}]
<1>1. below \in [rows -> SUBSET rows] OBVIOUS
<1>2. \A x \in rows : ChunkSeq[x.chunk] \in Nat /\ x.id \in Nat
  BY ChunkAssumption DEF Row, Ids
<1>3. \A x \in rows : ~Before(x, x) BY <1>2 DEF Before
<1>4. \A x, y \in rows : x # y => Before(x, y) \/ Before(y, x)
  BY <1>2 DEF Before, Distinct
<1>5. \A x, y, z \in rows : Before(x, y) /\ Before(y, z) => Before(x, z)
  BY <1>2 DEF Before
<1>6. \A x, y \in rows : x \in below[y] <=> Before(x, y) OBVIOUS
<1>8. \A x, y \in rows : x \in below[y] => below[x] \subseteq below[y] BY <1>5
<1> DEFINE top == First(rows, n)
<1>9. top = {x \in rows : Cardinality(below[x]) < n} BY DEF First
<1>10. top \subseteq rows BY DEF First
<1> HIDE DEF below, top
<1>11. \A x \in rows : x \notin below[x] BY <1>3, <1>6
<1>12. \A x, y \in rows : x # y => x \in below[y] \/ y \in below[x] BY <1>4, <1>6
<1>13. /\ IsFiniteSet(top) /\ Cardinality(top) \in Nat /\ Cardinality(top) <= n
       /\ \A y \in rows \ top : Cardinality(top) = n /\ \A x \in top : x \in below[y]
  BY <1>1, <1>11, <1>12, <1>8, <1>9, FirstElements
<1> QED BY <1>6, <1>10, <1>13 DEF top

\* A bounded read that gets fewer lines than it asked for got them all.
LEMMA HeadOfFile ==
  ASSUME NEW rows \in SUBSET Row, IsFiniteSet(rows), Distinct(rows), NEW n \in Nat,
         Cardinality(Head(rows, n)) < n
  PROVE  Head(rows, n) = rows
<1> DEFINE below == [x \in rows |-> {y \in rows : y.id < x.id}]
<1>1. below \in [rows -> SUBSET rows] OBVIOUS
<1>2. \A x \in rows : x.id \in Nat BY DEF Row, Ids
<1>3. \A x \in rows : x \notin below[x] BY <1>2
<1>4. \A x, y \in rows : x # y => x \in below[y] \/ y \in below[x] BY <1>2 DEF Distinct
<1>5. \A x, y \in rows : x \in below[y] => below[x] \subseteq below[y] BY <1>2
<1> DEFINE H == Head(rows, n)
<1>6. H = {x \in rows : Cardinality(below[x]) < n} BY DEF Head
<1>7. H \subseteq rows BY DEF Head
<1> HIDE DEF below, H
<1>8. /\ IsFiniteSet(H) /\ Cardinality(H) \in Nat /\ Cardinality(H) <= n
      /\ \A y \in rows \ H : Cardinality(H) = n /\ \A x \in H : x \in below[y]
  BY <1>1, <1>3, <1>4, <1>5, <1>6, FirstElements
<1>9. Cardinality(H) < n BY DEF H
<1> QED BY <1>7, <1>8, <1>9 DEF H

\* Looking at part of the rows is enough when it has the first of all of them.
LEMMA PartSuffices ==
  ASSUME NEW rows \in SUBSET Row, IsFiniteSet(rows), Distinct(rows),
         NEW n \in Nat, NEW m \in Nat, n <= m,
         NEW part \in SUBSET rows, First(rows, m) \subseteq part,
         NEW y \in rows \ First(part, n)
  PROVE  Cardinality(First(part, n)) = n /\ \A x \in First(part, n) : Before(x, y)
<1> DEFINE F == First(rows, m)
           L == First(part, n)
<1>1. IsFiniteSet(part) /\ Distinct(part) /\ part \in SUBSET Row
  BY FS_Subset DEF Distinct
<1>2. /\ L \subseteq part /\ Cardinality(L) \in Nat /\ Cardinality(L) <= n
      /\ \A z \in part \ L : Cardinality(L) = n /\ \A x \in L : Before(x, z)
  BY <1>1, FirstRows
<1>3. /\ F \subseteq part /\ Cardinality(F) \in Nat
      /\ \A z \in rows \ F : Cardinality(F) = m /\ \A x \in F : Before(x, z)
  BY FirstRows
<1>4. ASSUME NEW x \in L PROVE Cardinality({z \in part : Before(z, x)}) < n
  BY <1>4 DEF First
<1> HIDE DEF F, L
<1>5. CASE y \in part BY <1>2, <1>5 DEF L
<1>6. CASE y \notin part
  <2>1. y \in rows \ F BY <1>3, <1>6
  <2>2. Cardinality(F) = m BY <1>3, <2>1
  <2>3. ASSUME NEW x \in L PROVE x \in F
    <3> SUFFICES ASSUME x \notin F PROVE FALSE OBVIOUS
    <3> DEFINE before == {z \in part : Before(z, x)}
    <3>1. x \in rows \ F BY <1>2
    <3>2. F \subseteq before BY <1>3, <3>1
    <3>3. IsFiniteSet(before) BY <1>1, FS_Subset
    <3>4. Cardinality(before) < n BY <1>4
    <3>5. Cardinality(before) \in Nat BY <3>3, FS_CardinalityType
    <3> HIDE DEF before
    <3>6. Cardinality(F) <= Cardinality(before) BY <3>2, <3>3, FS_Subset
    <3> QED BY <2>2, <3>4, <3>5, <3>6
  <2>4. \A x \in L : Before(x, y) BY <1>3, <2>1, <2>3
  <2>5. Cardinality(L) = n
    <3>1. CASE part = L
      <4>1. Cardinality(F) <= Cardinality(L) BY <1>1, <1>3, <3>1, FS_Subset
      <4> QED BY <1>2, <2>2, <4>1
    <3>2. CASE part # L BY <1>2, <3>2
    <3> QED BY <3>1, <3>2
  <2> QED BY <2>4, <2>5 DEF L
<1> QED BY <1>5, <1>6

\* The rows a listing has read are of its run, and no append that runs is going to add one
\* of them to the index.
ReaderOK ==
  /\ IsFiniteSet(reader.rows) /\ Distinct(reader.rows)
  /\ \A row \in reader.rows : Run(row) = reader.run /\ row.id < nextId
  /\ op.step \in {"line", "index"} => \A row \in reader.rows : row.id # op.id

ListInv == Inv /\ ReaderOK /\ ListingIsHead

\* A listing of all visible rows.
LEMMA AllVisible ==
  ASSUME Inv, ReaderOK, reader.limit \in Nat,
         NEW y \in (reader.rows \cap index) \ First(Visible(reader.rows, reader.run), reader.limit)
  PROVE  LET listing == First(Visible(reader.rows, reader.run), reader.limit) IN
         Cardinality(listing) = reader.limit /\ \A x \in listing : Before(x, y)
<1> DEFINE rows == Visible(reader.rows, reader.run)
<1>1. rows \subseteq reader.rows BY DEF Visible, OfRun
<1>2. reader.rows \in SUBSET Row BY DEF Inv, TypeOK, Listing
<1>3. rows \in SUBSET Row /\ IsFiniteSet(rows) /\ Distinct(rows)
  BY <1>1, <1>2, FS_Subset DEF ReaderOK, Distinct
<1>4. y \in rows BY DEF ReaderOK, Inv, IndexHasSamples, Visible, OfRun, Run
<1> HIDE DEF rows
<1>5. y \in rows \ First(rows, reader.limit) BY <1>4 DEF rows
<1>6. Cardinality(First(rows, reader.limit)) = reader.limit
      /\ \A x \in First(rows, reader.limit) : Before(x, y)
  BY <1>3, <1>5, FirstRows
<1> QED BY <1>6 DEF rows

\* A listing that ends with a bounded read.
LEMMA ReadHeadLists ==
  ASSUME Inv, ReaderOK, ReadHead, reader'.step = "done" PROVE ListingIsHead'
<1> DEFINE rows == reader.rows
           inline == {row \in rows : row.id \in Legacy}
           lines == {row \in rows : row.id \in shard[reader.run]}
           part == HeadRows \cup inline
<1>1. /\ reader \in Listing /\ reader.step = "head" /\ UNCHANGED <<index>>
      /\ rows \in SUBSET Row /\ IsFiniteSet(rows) /\ Distinct(rows)
  BY DEF ReadHead, Inv, TypeOK, Listing, ReaderOK
<1>2. reader.limit \in Nat BY <1>1, LimitAssumption DEF Listing
<1>3. Cardinality(inline) \in Nat /\ IsFiniteSet(lines) /\ lines \in SUBSET Row /\ Distinct(lines)
  <2>1. IsFiniteSet(inline) /\ IsFiniteSet(lines) BY <1>1, FS_Subset
  <2> QED BY <1>1, <2>1, FS_CardinalityType DEF Distinct
<1>4. HeadSize \in Nat /\ reader.limit <= HeadSize BY <1>2, <1>3 DEF HeadSize
<1>5. HeadRows = Head(lines, HeadSize) /\ HeadRows \subseteq lines BY DEF HeadRows, Head
<1>6. part \in SUBSET rows BY <1>5
<1>7. /\ IF Cardinality(HeadRows) < HeadSize THEN Readable(reader.run) ELSE HeadCovers(HeadRows)
      /\ reader' = [reader EXCEPT !.step = "done", !.listing = First(part, reader.limit)]
  BY <1>1 DEF ReadHead, NoListing, Listing
<1>8. /\ reader'.rows = rows /\ reader'.limit = reader.limit
      /\ reader'.listing = First(part, reader.limit)
  BY <1>1, <1>7 DEF Listing
<1> DEFINE listing == First(part, reader.limit)
<1>9. listing \subseteq rows BY <1>6 DEF First
<1>10. ASSUME NEW y \in (rows \cap index) \ listing
       PROVE  Cardinality(listing) = reader.limit /\ \A x \in listing : Before(x, y)
  <2>1. CASE Cardinality(HeadRows) < HeadSize
    <3>1. HeadRows = lines BY <1>3, <1>4, <1>5, <2>1, HeadOfFile
    <3>2. part = Visible(rows, reader.run)
      BY <3>1 DEF Visible, OfRun, ReaderOK, Run
    <3> HIDE DEF part, rows
    <3> QED BY <1>2, <1>10, <3>2, AllVisible DEF rows
  <2>2. CASE ~(Cardinality(HeadRows) < HeadSize)
    <3>1. First(rows, HeadSize) \subseteq part BY <1>7, <2>2 DEF HeadCovers, First
    <3> HIDE DEF part, rows
    <3> QED BY <1>1, <1>2, <1>4, <1>6, <1>10, <3>1, PartSuffices
  <2> QED BY <2>1, <2>2
<1> HIDE DEF listing, rows
<1> QED BY <1>1, <1>8, <1>9, <1>10 DEF ListingIsHead, listing

\* A listing that ends with a read of the whole shard.
LEMMA ReadFullLists ==
  ASSUME Inv, ReaderOK, ReadFull, reader'.step = "done" PROVE ListingIsHead'
<1> DEFINE listing == First(Visible(reader.rows, reader.run), reader.limit)
<1>1. reader \in Listing /\ index' = index BY DEF ReadFull, Inv, TypeOK
<1>2. reader.limit \in Nat BY <1>1, LimitAssumption DEF Listing
<1>3. reader' = [reader EXCEPT !.step = "done", !.listing = listing]
  BY DEF ReadFull, NoListing
<1>4. reader'.rows = reader.rows /\ reader'.limit = reader.limit /\ reader'.listing = listing
  BY <1>1, <1>3 DEF Listing
<1>5. listing \subseteq reader.rows BY DEF First, Visible, OfRun
<1>6. ASSUME NEW y \in (reader.rows \cap index) \ listing
      PROVE  Cardinality(listing) = reader.limit /\ \A x \in listing : Before(x, y)
  BY <1>2, <1>6, AllVisible
<1> HIDE DEF listing
<1> QED BY <1>1, <1>4, <1>5, <1>6 DEF ListingIsHead

\* Outside the listing's own steps, the index loses rows the listing has, and gains none.
LEMMA ListingStays ==
  ASSUME Inv, ReaderOK, ListingIsHead, reader' = reader,
         \A row \in index' \ index : op.step = "index" /\ row.id = op.id,
         nextId' >= nextId, nextId' \in Nat,
         op'.step = "index" => (op.step = "line" /\ op'.id = op.id) \/ op' = op,
         op'.step = "line" => op'.id = nextId \/ op' = op
  PROVE  ReaderOK' /\ ListingIsHead'
<1>1. reader.rows \subseteq Row /\ nextId \in Nat BY DEF Inv, TypeOK, Listing
<1>2. \A row \in reader.rows : row.id \in Nat BY <1>1 DEF Row, Ids
<1>3. reader.rows \cap index' \subseteq index BY DEF ReaderOK
<1>4. ListingIsHead' BY <1>3 DEF ListingIsHead
<1>5. \A row \in reader.rows : Run(row) = reader.run /\ row.id < nextId'
  BY <1>1, <1>2 DEF ReaderOK
<1>6. ASSUME op'.step \in {"line", "index"}, NEW row \in reader.rows PROVE row.id # op'.id
  BY <1>1, <1>2, <1>6 DEF ReaderOK
<1> QED BY <1>4, <1>5, <1>6 DEF ReaderOK

\* No listing: nothing to show.
LEMMA NoListingOK == ASSUME reader' = NoListing PROVE ReaderOK' /\ ListingIsHead'
<1>1. reader'.rows = {} /\ reader'.step = "idle" BY DEF NoListing
<1> QED BY <1>1, FS_EmptySet DEF ReaderOK, ListingIsHead, Distinct

\* The rows of a run, when the ledger is read.
LEMMA LedgerRead ==
  ASSUME Inv, NEW r, reader'.rows = OfRun(index, r), reader'.run = r, reader'.step # "done",
         UNCHANGED <<op, nextId>>
  PROVE  ReaderOK' /\ ListingIsHead'
<1>1. OfRun(index, r) \subseteq index /\ \A row \in OfRun(index, r) : Run(row) = r
  BY DEF OfRun, Run
<1>2. IsFiniteSet(OfRun(index, r)) /\ Distinct(OfRun(index, r))
  BY <1>1, FS_Subset DEF Inv, IdsOK, Distinct
<1>3. \A row \in OfRun(index, r) : row.id < nextId BY <1>1 DEF Inv, IdsOK
<1>4. op.step \in {"line", "index"} => \A row \in OfRun(index, r) : row.id # op.id
  <2>1. \A row \in index : row.id \in Nat
    BY LegacyAssumption DEF Inv, TypeOK, Row, Ids
  <2> QED BY <1>1, <2>1 DEF Inv, CheckedOK
<1> QED BY <1>1, <1>2, <1>3, <1>4 DEF ReaderOK, ListingIsHead, Distinct, Run

\* A step of the listing that keeps its rows.
LEMMA RowsKept ==
  ASSUME ReaderOK, reader'.rows = reader.rows, reader'.run = reader.run, UNCHANGED <<op, nextId>>
  PROVE  ReaderOK'
BY DEF ReaderOK, Distinct, Run

\* Every step keeps what ListingIsHead rests on.
LEMMA ListNext == ListInv /\ [Next]_vars => ReaderOK' /\ ListingIsHead'
<1> SUFFICES ASSUME ListInv, [Next]_vars PROVE ReaderOK' /\ ListingIsHead' OBVIOUS
<1>1. /\ Inv /\ ReaderOK /\ ListingIsHead
      /\ reader \in Listing /\ op \in Op
      /\ nextId \in Nat /\ nextId >= nextId /\ nextId + 1 >= nextId
  BY LegacyAssumption DEF ListInv, Inv, TypeOK
<1>2. Idle.step = "idle" BY DEF Idle
<1>3. ASSUME NEW c \in Chunks, NEW k \in Keys \cup {NoKey}, Replay(c, k)
      PROVE ReaderOK' /\ ListingIsHead'
  <2>1. UNCHANGED <<index, reader, nextId, op>> BY <1>3 DEF Replay
  <2> QED BY <1>1, <2>1, ListingStays
<1>4. ASSUME NEW c \in Chunks, NEW k \in Keys \cup {NoKey}, BeginAppend(c, k)
      PROVE ReaderOK' /\ ListingIsHead'
  <2>1. /\ UNCHANGED <<index, reader>> /\ nextId' = nextId + 1
        /\ op'.step = "line" /\ op'.id = nextId
    BY <1>4 DEF BeginAppend
  <2> QED BY <1>1, <2>1, ListingStays
<1>5. CASE FinishLine
  <2>1. /\ UNCHANGED <<index, reader, nextId>>
        /\ op.step = "line" /\ op'.step = "index" /\ op'.id = op.id
    BY <1>1, <1>5 DEF FinishLine, Op
  <2> QED BY <1>1, <2>1, ListingStays
<1>6. CASE CommitIndex
  <2> DEFINE new == [id |-> op.id, chunk |-> op.chunk, key |-> op.key]
  <2>1. /\ UNCHANGED <<reader, nextId>> /\ op.step = "index"
        /\ index' = {row \in index : row.id \notin op.expired} \cup {new}
    BY <1>6 DEF CommitIndex
  <2>2. new.id = op.id OBVIOUS
  <2> HIDE DEF new
  <2>3. \A row \in index' \ index : op.step = "index" /\ row.id = op.id BY <2>1, <2>2
  <2>4. op'.step \in {"idle", "prune"} BY <1>1, <1>2, <1>6 DEF CommitIndex, Op
  <2> QED BY <1>1, <2>1, <2>3, <2>4, ListingStays
<1>7. CASE PruneShard \/ AppendFails
  <2>1. UNCHANGED <<index, reader, nextId>> /\ op'.step = "idle"
    BY <1>2, <1>7 DEF PruneShard, AppendFails
  <2> QED BY <1>1, <2>1, ListingStays
<1>8. CASE Crash \/ EndList BY <1>8, NoListingOK DEF Crash, EndList
<1>9. CASE Age \/ (\E r \in Runs : EvaluateRun(r)) \/ UNCHANGED vars
  <2>1. UNCHANGED <<index, reader, nextId, op>> BY <1>9 DEF Age, EvaluateRun, vars
  <2> QED BY <1>1, <2>1, ListingStays
<1>10. ASSUME NEW r \in Runs, NEW n \in 1..RecordCap, BeginList(r, n)
       PROVE ReaderOK' /\ ListingIsHead'
  <2>1. /\ UNCHANGED <<op, nextId>> /\ reader'.rows = OfRun(index, r) /\ reader'.run = r
        /\ reader'.step # "done"
    BY <1>10 DEF BeginList
  <2> QED BY <1>1, <2>1, LedgerRead
<1>11. CASE ReadLedgerAgain
  <2>1. /\ UNCHANGED <<op, nextId>> /\ reader'.rows = OfRun(index, reader.run)
        /\ reader'.run = reader.run /\ reader'.step # "done"
    BY <1>1, <1>11 DEF ReadLedgerAgain, Listing
  <2> QED BY <1>1, <2>1, LedgerRead
<1>12. CASE ReadHead
  <2>1. UNCHANGED <<op, nextId>> BY <1>12 DEF ReadHead
  <2>2. CASE reader' = NoListing BY <2>2, NoListingOK
  <2>3. CASE reader' # NoListing
    <3>1. reader'.rows = reader.rows /\ reader'.run = reader.run
      BY <1>1, <1>12, <2>3 DEF ReadHead, Listing
    <3>2. ReaderOK' BY <1>1, <2>1, <3>1, RowsKept
    <3>3. ListingIsHead'
      <4>1. CASE reader'.step = "done" BY <1>1, <1>12, <4>1, ReadHeadLists
      <4> QED BY <4>1 DEF ListingIsHead
    <3> QED BY <3>2, <3>3
  <2> QED BY <2>2, <2>3
<1>13. CASE ReadFull
  <2>1. UNCHANGED <<op, nextId>> BY <1>13 DEF ReadFull
  <2>2. CASE reader' = NoListing BY <2>2, NoListingOK
  <2>3. CASE reader' # NoListing
    <3>1. reader'.rows = reader.rows /\ reader'.run = reader.run
      BY <1>1, <1>13, <2>3 DEF ReadFull, Listing
    <3>2. ReaderOK' BY <1>1, <2>1, <3>1, RowsKept
    <3>3. ListingIsHead'
      <4>1. CASE reader'.step = "done" BY <1>1, <1>13, <4>1, ReadFullLists
      <4> QED BY <4>1 DEF ListingIsHead
    <3> QED BY <3>2, <3>3
  <2> QED BY <2>2, <2>3
<1> QED BY <1>3, <1>4, <1>5, <1>6, <1>7, <1>8, <1>9, <1>10, <1>11, <1>12, <1>13 DEF Next

\* A listing that ends is the head of the run: the bounded read of the file's head, its
\* fall-back and the full read agree with the index, whatever is appended or pruned meanwhile.
THEOREM ListingsAreHeads == Spec => []ListingIsHead
<1>1. Init => ListInv
  <2> SUFFICES ASSUME Init PROVE ListInv OBVIOUS
  <2>1. reader.rows = {} /\ reader.step = "idle" BY DEF Init, NoListing
  <2> QED BY <2>1, InvInit, FS_EmptySet DEF ListInv, ReaderOK, ListingIsHead, Distinct
<1>2. ListInv /\ [Next]_vars => ListInv' BY ListNext, InvNext DEF ListInv
<1>3. ListInv => ListingIsHead BY DEF ListInv
<1> QED BY <1>1, <1>2, <1>3, PTL DEF Spec
----
\* WriterLease: the inductive invariants.

\* Two running processes of a host have different pids.
PidsDiffer ==
  \A p, q \in Procs : Running(p) /\ Running(q) /\ Host[p] = Host[q] /\ Pid[p] = Pid[q] => p = q

\* A process that is to write has a change to store.
Busy == {"loaded", "acquire", "judge", "create", "fill", "undo", "replace", "enter", "write"}
HasChange == \A p \in Procs : procs[p].step \in Busy => procs[p].write \in Writes

\* A record, in the file or as it was read, names a process that has been started.
Names(seen) == seen.kind = "record" => seen.by \in Procs /\ ~At(seen.by, "off")
NamesWriter == Names(lease) /\ \A p \in Procs : Names(procs[p].seen)

LeaseInv == LeaseTypeOK /\ HasChange /\ PidsDiffer /\ NamesWriter

\* Who is about to replace the file has judged its own record or that of an ended process.
JudgedOK ==
  \A p \in Procs : At(p, "replace") => procs[p].seen.by = p \/ Ended(procs[p].seen.by)

\* The steps in which the file is the process's own, and that it is.
Claims == {"fill", "undo", "enter", "write", "exit"}
OwnerOK ==
  \A p \in Procs : procs[p].step \in Claims => lease.kind # "absent" /\ lease.by = p

\* All processes run on one host: the pid probe judges every lease but a recycled pid's own.
OneHostOnly == \A p, q \in Procs : Host[p] = Host[q]

OwnerInv == LeaseInv /\ JudgedOK /\ (~trampled => OwnerOK)

\* What a process does between its start and its end.
Acts(p) ==
  \/ \E w \in Writes : ReadLedger(p, w)
  \/ StartAcquire(p) \/ ReadLease(p) \/ JudgeLease(p) \/ CreateLease(p) \/ FillLease(p)
  \/ FillFails(p) \/ UndoCreate(p) \/ ReplaceLease(p) \/ EnterHeld(p) \/ WriteLedger(p)
  \/ WriteFails(p) \/ Exit(p) \/ RemoveLease(p) \/ Kill(p)

----
\* WriterLease: the steps.

\* The records the model writes.
LEMMA RecordTypes ==
  /\ \A s \in Steps, b \in BOOLEAN : [Off EXCEPT !.step = s, !.held = b] \in Proc
  /\ \A s \in Steps : [Off EXCEPT !.step = s] \in Proc
  /\ Off \in Proc /\ Absent \in Lease
  /\ 0 \in 0..MaxClock
<1>1. 0 \in 0..MaxClock BY ClockAssumption
<1> QED BY <1>1 DEF Off, Proc, Absent, Lease, Steps

\* A verdict leads to the exclusive create, to the rename or back; to the rename only for a
\* complete record that is no conflict.
LEMMA CourseSteps ==
  ASSUME NEW p \in Procs, procs[p].seen \in Lease
  PROVE  /\ Course(p) \in {"create", "replace", "idle"}
         /\ Course(p) = "replace" =>
              procs[p].seen.kind = "record" /\ EvaluateLease(p, procs[p].seen) # "conflict"
<1>1. EvaluateLease(p, procs[p].seen) \in {"renew", "takeover", "conflict"}
  BY DEF EvaluateLease, HeartbeatVerdict
<1>2. procs[p].seen.kind \in {"absent", "partial", "record"} BY DEF Lease
<1> QED BY <1>1, <1>2 DEF Course

\* A process that acts is running, and no other changes.
LEMMA ProcessStep ==
  ASSUME LeaseTypeOK, NEW p \in Procs, Acts(p)
  PROVE  /\ Running(p)
         /\ \E new \in Proc : procs' = [procs EXCEPT ![p] = new]
<1>1. procs \in [Procs -> Proc] /\ procs[p] \in Proc BY DEF LeaseTypeOK
<1>2. ASSUME NEW s \in Steps PROVE [procs[p] EXCEPT !.step = s] \in Proc
  BY <1>1 DEF Proc
<1>3. ASSUME Done(p) PROVE \E new \in Proc : procs' = [procs EXCEPT ![p] = new]
  <2>1. procs[p].held \in BOOLEAN BY <1>1 DEF Proc
  <2>2. "idle" \in Steps BY DEF Steps
  <2>3. [Off EXCEPT !.step = "idle", !.held = procs[p].held] \in Proc BY <2>1, <2>2, RecordTypes
  <2> QED BY <1>3, <2>3 DEF Done
<1>4. ASSUME NEW s \in Steps, Go(p, s) PROVE \E new \in Proc : procs' = [procs EXCEPT ![p] = new]
  <2>1. procs' = [procs EXCEPT ![p] = [procs[p] EXCEPT !.step = s]] BY <1>1, <1>4 DEF Go
  <2> QED BY <1>2, <2>1
<1>5. {"create", "replace", "fill", "gone", "acquire", "undo", "enter", "killed", "exit"}
        \subseteq Steps
  BY DEF Steps
<1>6. Absent \in Lease /\ lease \in Lease BY RecordTypes DEF LeaseTypeOK
<1>7. ASSUME NEW w \in Writes, ReadLedger(p, w)
      PROVE Running(p) /\ \E new \in Proc : procs' = [procs EXCEPT ![p] = new]
  <2> DEFINE new == [procs[p] EXCEPT !.step = "loaded", !.base = ledger, !.write = w]
  <2>1. procs' = [procs EXCEPT ![p] = new] BY <1>1, <1>7 DEF ReadLedger
  <2>2. ledger \in SUBSET Writes BY DEF LeaseTypeOK
  <2>3. new \in Proc BY <1>1, <2>2 DEF Proc, Steps
  <2>4. Running(p) BY <1>7 DEF ReadLedger, Running, Ended, At
  <2> QED BY <2>1, <2>3, <2>4
<1>8. CASE StartAcquire(p)
  <2> DEFINE new == [procs[p] EXCEPT !.step = "acquire", !.now = clock]
  <2>1. procs' = [procs EXCEPT ![p] = new] BY <1>1, <1>8 DEF StartAcquire
  <2>2. clock \in 0..MaxClock BY DEF LeaseTypeOK
  <2>3. new \in Proc BY <1>1, <2>2 DEF Proc, Steps
  <2>4. Running(p) BY <1>8 DEF StartAcquire, Running, Ended, At
  <2> QED BY <2>1, <2>3, <2>4
<1>9. CASE ReadLease(p)
  <2>1. procs' = [procs EXCEPT ![p] = [procs[p] EXCEPT !.step = "judge", !.seen = lease]]
    BY <1>1, <1>9 DEF ReadLease
  <2>2. [procs[p] EXCEPT !.step = "judge", !.seen = lease] \in Proc BY <1>1, <1>6 DEF Proc, Steps
  <2>3. Running(p) BY <1>9 DEF ReadLease, Running, Ended, At
  <2> QED BY <2>1, <2>2, <2>3
<1>15. CASE JudgeLease(p)
  <2>1. procs[p].seen \in Lease BY <1>1 DEF Proc
  <2>2. Course(p) \in Steps BY <1>5, <2>1, CourseSteps DEF Steps
  <2>3. Done(p) \/ Go(p, Course(p)) BY <1>15 DEF JudgeLease
  <2>4. Running(p) BY <1>15 DEF JudgeLease, Running, Ended, At
  <2> QED BY <1>3, <1>4, <2>2, <2>3, <2>4
<1>10. CASE CreateLease(p)
  <2>1. Running(p) BY <1>10 DEF CreateLease, Running, Ended, At
  <2>2. CASE procs' = [procs EXCEPT ![p].step = "acquire", ![p].attempt = 1]
    <3>1. procs' = [procs EXCEPT ![p] = [procs[p] EXCEPT !.step = "acquire", !.attempt = 1]]
      BY <1>1, <2>2
    <3>2. [procs[p] EXCEPT !.step = "acquire", !.attempt = 1] \in Proc BY <1>1 DEF Proc, Steps
    <3> QED BY <2>1, <3>1, <3>2
  <2>3. Go(p, "fill") \/ procs' = [procs EXCEPT ![p].step = "acquire", ![p].attempt = 1] \/ Done(p)
    BY <1>10 DEF CreateLease
  <2> QED BY <1>3, <1>4, <1>5, <2>1, <2>2, <2>3
<1>11. CASE FillLease(p) \/ FillFails(p) \/ UndoCreate(p)
  <2>1. Running(p) BY <1>11 DEF FillLease, FillFails, UndoCreate, Running, Ended, At
  <2>2. Go(p, "enter") \/ Go(p, "undo") \/ Done(p) BY <1>11 DEF FillLease, FillFails, UndoCreate
  <2> QED BY <1>3, <1>4, <1>5, <2>1, <2>2
<1>16. CASE ReplaceLease(p)
  <2>1. procs' = [procs EXCEPT ![p] = [procs[p] EXCEPT !.step = "enter", !.seen = Absent]]
    BY <1>1, <1>16 DEF ReplaceLease
  <2>2. [procs[p] EXCEPT !.step = "enter", !.seen = Absent] \in Proc
    BY <1>1, <1>6 DEF Proc, Steps
  <2>3. Running(p) BY <1>16 DEF ReplaceLease, Running, Ended, At
  <2> QED BY <2>1, <2>2, <2>3
<1>17. CASE EnterHeld(p)
  <2>1. procs' = [procs EXCEPT ![p] = [procs[p] EXCEPT !.step = "write", !.held = TRUE]]
    BY <1>1, <1>17 DEF EnterHeld
  <2>2. [procs[p] EXCEPT !.step = "write", !.held = TRUE] \in Proc BY <1>1 DEF Proc, Steps
  <2>3. Running(p) BY <1>17 DEF EnterHeld, Running, Ended, At
  <2> QED BY <2>1, <2>2, <2>3
<1>12. CASE WriteLedger(p) \/ WriteFails(p)
  <2>1. Running(p) BY <1>12 DEF WriteLedger, WriteFails, Running, Ended, At
  <2> QED BY <1>3, <1>12, <2>1 DEF WriteLedger, WriteFails
<1>13. CASE Exit(p) \/ Kill(p)
  <2>1. \E s \in Steps : procs' = [procs EXCEPT ![p] = [Off EXCEPT !.step = s]]
    BY <1>5, <1>13 DEF Exit, Kill
  <2>2. Running(p) BY <1>13 DEF Exit, Kill
  <2> QED BY <2>1, <2>2, RecordTypes
<1>14. CASE RemoveLease(p)
  <2>1. Running(p) BY <1>14 DEF RemoveLease, Running, Ended, At
  <2> QED BY <1>4, <1>5, <1>14, <2>1 DEF RemoveLease
<1> QED BY <1>7, <1>8, <1>9, <1>10, <1>11, <1>12, <1>13, <1>14, <1>15, <1>16,
           <1>17
        DEF Acts

\* What a process step leaves in the process, and what it writes.
LEMMA BusyStep ==
  ASSUME LeaseInv, NEW p \in Procs, Acts(p)
  PROVE  procs'[p].step \in Busy => procs'[p].write \in Writes
<1>1. procs \in [Procs -> Proc] /\ procs[p] \in Proc BY DEF LeaseInv, LeaseTypeOK
<1>2. Off.step = "off" /\ Off.held = FALSE BY DEF Off
<1>3. ASSUME Done(p) PROVE procs'[p].step \notin Busy
  BY <1>1, <1>3 DEF Done, Busy, Off
<1>4. ASSUME NEW s, Go(p, s) PROVE procs'[p].step = s /\ procs'[p].write = procs[p].write
  BY <1>1, <1>4 DEF Go, Proc
<1>6. ASSUME procs[p].step \in Busy PROVE procs[p].write \in Writes
  BY <1>6 DEF LeaseInv, HasChange
<1>7. ASSUME NEW w \in Writes, ReadLedger(p, w) PROVE procs'[p].write \in Writes
  BY <1>1, <1>7 DEF ReadLedger, Proc
<1>8. CASE StartAcquire(p)
  <2>1. procs'[p].write = procs[p].write BY <1>1, <1>8 DEF StartAcquire, Proc
  <2> QED BY <1>6, <1>8, <2>1 DEF StartAcquire, At, Busy
<1>9. CASE ReadLease(p) \/ ReplaceLease(p) \/ EnterHeld(p)
  <2>1. procs'[p].write = procs[p].write
    BY <1>1, <1>9 DEF ReadLease, ReplaceLease, EnterHeld, Proc
  <2>2. procs[p].step \in Busy BY <1>9 DEF ReadLease, ReplaceLease, EnterHeld, At, Busy
  <2> QED BY <1>6, <2>1, <2>2
<1>15. CASE JudgeLease(p)
  <2>1. Done(p) \/ Go(p, Course(p)) BY <1>15 DEF JudgeLease
  <2>2. procs[p].step \in Busy BY <1>15 DEF JudgeLease, At, Busy
  <2> QED BY <1>3, <1>4, <1>6, <2>1, <2>2
<1>10. CASE CreateLease(p)
  <2>1. procs[p].step \in Busy BY <1>10 DEF CreateLease, At, Busy
  <2>2. CASE procs' = [procs EXCEPT ![p].step = "acquire", ![p].attempt = 1]
    <3>1. procs'[p].write = procs[p].write BY <1>1, <2>2 DEF Proc
    <3> QED BY <1>6, <2>1, <3>1
  <2>3. Go(p, "fill") \/ procs' = [procs EXCEPT ![p].step = "acquire", ![p].attempt = 1] \/ Done(p)
    BY <1>10 DEF CreateLease
  <2> QED BY <1>3, <1>4, <1>6, <2>1, <2>2, <2>3
<1>11. CASE FillLease(p) \/ FillFails(p) \/ UndoCreate(p)
  <2>1. procs[p].step \in Busy BY <1>11 DEF FillLease, FillFails, UndoCreate, At, Busy
  <2>2. Go(p, "enter") \/ Go(p, "undo") \/ Done(p) BY <1>11 DEF FillLease, FillFails, UndoCreate
  <2> QED BY <1>3, <1>4, <1>6, <2>1, <2>2
<1>12. CASE WriteLedger(p) \/ WriteFails(p)
  BY <1>3, <1>12 DEF WriteLedger, WriteFails
<1>13. CASE Exit(p) \/ Kill(p)
  <2>1. procs'[p].step \in {"exit", "gone", "killed"} BY <1>1, <1>13 DEF Exit, Kill, Off
  <2> QED BY <2>1 DEF Busy
<1>14. CASE RemoveLease(p)
  <2>1. procs'[p].step = "gone" BY <1>4, <1>14 DEF RemoveLease
  <2> QED BY <2>1 DEF Busy
<1> QED BY <1>7, <1>8, <1>9, <1>10, <1>11, <1>12, <1>13, <1>14, <1>15 DEF Acts

\* A process that has been started is never off again.
LEMMA NeverOff ==
  ASSUME LeaseInv, NEW p \in Procs, Acts(p)
  PROVE  procs'[p].step # "off"
<1>1. procs \in [Procs -> Proc] BY DEF LeaseInv, LeaseTypeOK
<1>2. Done(p) => procs'[p].step = "idle" BY <1>1 DEF Done, Off
<1>3. \A s : Go(p, s) => procs'[p].step = s BY <1>1 DEF Go, Proc
<1>5. CASE \/ \E w \in Writes : ReadLedger(p, w)
           \/ StartAcquire(p) \/ ReadLease(p) \/ ReplaceLease(p) \/ EnterHeld(p)
  BY <1>1, <1>5 DEF ReadLedger, StartAcquire, ReadLease, ReplaceLease, EnterHeld, Proc
<1>6. CASE JudgeLease(p)
  <2>1. procs[p].seen \in Lease BY <1>1 DEF Proc
  <2> QED BY <1>2, <1>3, <1>6, <2>1, CourseSteps DEF JudgeLease
<1>7. CASE CreateLease(p)
  <2>1. CASE procs' = [procs EXCEPT ![p].step = "acquire", ![p].attempt = 1]
    BY <1>1, <2>1 DEF Proc
  <2> QED BY <1>2, <1>3, <1>7, <2>1 DEF CreateLease
<1>8. CASE FillLease(p) \/ FillFails(p) \/ UndoCreate(p)
  BY <1>2, <1>3, <1>8 DEF FillLease, FillFails, UndoCreate
<1>9. CASE WriteLedger(p) \/ WriteFails(p) BY <1>2, <1>9 DEF WriteLedger, WriteFails
<1>10. CASE Exit(p) \/ Kill(p) BY <1>1, <1>10 DEF Exit, Kill, Off
<1>11. CASE RemoveLease(p) BY <1>3, <1>11 DEF RemoveLease
<1> QED BY <1>5, <1>6, <1>7, <1>8, <1>9, <1>10, <1>11 DEF Acts

\* The files keep to their types.
LEMMA FileStep ==
  ASSUME LeaseInv, NEW p \in Procs, Acts(p)
  PROVE  /\ lease' \in Lease /\ clock' = clock
         /\ ledger' \subseteq Writes /\ accepted' \subseteq Writes
         /\ trampled' \in BOOLEAN
<1>1. /\ procs[p] \in Proc /\ lease \in Lease
      /\ ledger \subseteq Writes /\ accepted \subseteq Writes
      /\ 0 \in 0..MaxClock /\ Absent \in Lease /\ trampled \in BOOLEAN
  BY RecordTypes DEF LeaseInv, LeaseTypeOK
<1>2. CASE CreateLease(p) BY <1>1, <1>2 DEF CreateLease, Lease
<1>3. CASE FillLease(p) \/ FillFails(p) \/ ReplaceLease(p)
  <2>1. OwnLease(p) \in Lease BY <1>1 DEF OwnLease, Lease, Proc
  <2>2. Filled(p) \in Lease BY <1>1, <2>1 DEF Filled
  <2>3. trampled' \in BOOLEAN
    <3>1. CASE ReplaceLease(p) BY <3>1 DEF ReplaceLease
    <3> QED BY <1>1, <1>3, <3>1 DEF FillLease, FillFails
  <2> QED BY <1>1, <1>3, <2>1, <2>2, <2>3 DEF FillLease, FillFails, ReplaceLease
<1>4. CASE WriteLedger(p)
  <2>1. procs[p].write \in Writes /\ procs[p].base \subseteq Writes
    BY <1>1, <1>4 DEF WriteLedger, At, LeaseInv, HasChange, Busy, Proc
  <2> QED BY <1>1, <1>4, <2>1 DEF WriteLedger
<1>5. CASE WriteFails(p) \/ RemoveLease(p) \/ UndoCreate(p)
  BY <1>1, <1>5 DEF WriteFails, RemoveLease, UndoCreate
<1>6. CASE \/ \E w \in Writes : ReadLedger(p, w)
           \/ StartAcquire(p) \/ ReadLease(p) \/ JudgeLease(p) \/ EnterHeld(p) \/ Exit(p) \/ Kill(p)
  BY <1>1, <1>6 DEF ReadLedger, StartAcquire, ReadLease, JudgeLease, EnterHeld, Exit, Kill
<1> QED BY <1>2, <1>3, <1>4, <1>5, <1>6 DEF Acts

\* What a process has read comes from the file.
LEMMA SeenStep ==
  ASSUME LeaseTypeOK, NEW p \in Procs, Acts(p)
  PROVE  procs'[p].seen \in {procs[p].seen, lease, Absent}
<1>1. procs \in [Procs -> Proc] BY DEF LeaseTypeOK
<1>2. Done(p) => procs'[p].seen = Absent BY <1>1 DEF Done, Off
<1>3. \A s : Go(p, s) => procs'[p].seen = procs[p].seen BY <1>1 DEF Go, Proc
<1>4. CASE \/ \E w \in Writes : ReadLedger(p, w)
           \/ StartAcquire(p) \/ ReadLease(p) \/ ReplaceLease(p) \/ EnterHeld(p)
  BY <1>1, <1>4 DEF ReadLedger, StartAcquire, ReadLease, ReplaceLease, EnterHeld, Proc
<1>5. CASE CreateLease(p)
  <2>1. CASE procs' = [procs EXCEPT ![p].step = "acquire", ![p].attempt = 1]
    BY <1>1, <2>1 DEF Proc
  <2> QED BY <1>2, <1>3, <1>5, <2>1 DEF CreateLease
<1>6. CASE JudgeLease(p) \/ FillLease(p) \/ FillFails(p) \/ UndoCreate(p)
  BY <1>2, <1>3, <1>6 DEF JudgeLease, FillLease, FillFails, UndoCreate
<1>7. CASE WriteLedger(p) \/ WriteFails(p) \/ RemoveLease(p)
  BY <1>2, <1>3, <1>7 DEF WriteLedger, WriteFails, RemoveLease
<1>8. CASE Exit(p) \/ Kill(p) BY <1>1, <1>8 DEF Exit, Kill, Off
<1> QED BY <1>4, <1>5, <1>6, <1>7, <1>8 DEF Acts

\* Before the first start there is no file.
LEMMA LeaseInvInit == LeaseInit => LeaseInv
<1> SUFFICES ASSUME LeaseInit PROVE LeaseInv OBVIOUS
<1>1. LeaseTypeOK BY RecordTypes DEF LeaseInit, LeaseTypeOK
<1>2. \A p \in Procs : procs[p].step = "off" BY DEF LeaseInit, Off
<1>3. NamesWriter BY DEF LeaseInit, Absent, Off, NamesWriter, Names
<1> QED BY <1>1, <1>2, <1>3 DEF LeaseInv, HasChange, Busy, PidsDiffer, Running, At

\* Every step keeps LeaseInv, on any number of hosts.
LEMMA LeaseInvNext == LeaseInv /\ [LeaseNext]_leaseVars => LeaseInv'
<1> SUFFICES ASSUME LeaseInv, [LeaseNext]_leaseVars PROVE LeaseInv' OBVIOUS
<1>1. procs \in [Procs -> Proc] BY DEF LeaseInv, LeaseTypeOK
<1>2. ASSUME NEW p \in Procs, Acts(p)
      PROVE LeaseInv'
  <2>1. PICK new \in Proc : procs' = [procs EXCEPT ![p] = new] BY <1>2, ProcessStep DEF LeaseInv
  <2>2. procs' \in [Procs -> Proc] /\ \A q \in Procs : q # p => procs'[q] = procs[q]
    BY <1>1, <2>1
  <2>3. Running(p) BY <1>2, ProcessStep DEF LeaseInv
  <2>4. LeaseTypeOK' BY <1>2, <2>2, FileStep DEF LeaseInv, LeaseTypeOK
  <2>5. HasChange' BY <1>2, <2>2, BusyStep DEF LeaseInv, HasChange
  <2>6. PidsDiffer'
    <3>1. \A q \in Procs : Running(q)' => Running(q)
      BY <2>2, <2>3 DEF Running, Ended, At
    <3> QED BY <3>1 DEF LeaseInv, PidsDiffer
  <2>7. NamesWriter'
    <3>1. \A q \in Procs : At(q, "off")' => At(q, "off") /\ q # p
      BY <1>2, <2>2, <2>3, NeverOff DEF At, LeaseInv
    <3>2. lease' = lease \/ lease'.kind # "record" \/ lease'.by = p
      <4>1. Filled(p) = lease \/ Filled(p).by = p BY DEF Filled, OwnLease
      <4> QED BY <1>2, <4>1
            DEF Acts, ReadLedger, StartAcquire, ReadLease, JudgeLease, CreateLease, FillLease,
                FillFails, UndoCreate, ReplaceLease, EnterHeld, WriteLedger, WriteFails, Exit,
                RemoveLease, Kill, Absent, OwnLease
    <3>3. Names(lease)' BY <3>1, <3>2 DEF LeaseInv, NamesWriter, Names
    <3>4. procs'[p].seen \in {procs[p].seen, lease, Absent}
      BY <1>2, SeenStep DEF LeaseInv
    <3>5. ASSUME NEW q \in Procs PROVE Names(procs[q].seen)'
      <4>1. procs'[q].seen \in {procs[q].seen, lease, Absent} BY <2>2, <3>4
      <4> QED BY <3>1, <4>1 DEF LeaseInv, NamesWriter, Names, Absent
    <3> QED BY <3>3, <3>5 DEF NamesWriter
  <2> QED BY <2>4, <2>5, <2>6, <2>7 DEF LeaseInv
<1>3. ASSUME NEW p \in Procs, Boot(p) PROVE LeaseInv'
  <2>1. /\ procs' = [procs EXCEPT ![p] = [procs[p] EXCEPT !.step = "idle"]]
        /\ ~IsProcessAlive(p, Pid[p])
        /\ UNCHANGED <<lease, ledger, accepted, clock, trampled>>
    BY <1>1, <1>3 DEF Boot, Go
  <2>2. [procs[p] EXCEPT !.step = "idle"] \in Proc BY <1>1 DEF Proc, Steps
  <2>3. /\ procs' \in [Procs -> Proc] /\ procs'[p].step = "idle"
        /\ procs'[p].seen = procs[p].seen
        /\ \A q \in Procs : q # p => procs'[q] = procs[q]
    BY <1>1, <2>1, <2>2 DEF Proc
  <2>4. LeaseTypeOK' BY <2>1, <2>3 DEF LeaseInv, LeaseTypeOK
  <2>5. HasChange' BY <2>3 DEF LeaseInv, HasChange, Busy
  <2>6. PidsDiffer'
    <3>1. \A q \in Procs : q # p => (Running(q)' <=> Running(q)) BY <2>3 DEF Running, Ended, At
    <3>2. \A q \in Procs : Running(q) /\ Host[q] = Host[p] => Pid[q] # Pid[p]
      BY <2>1 DEF IsProcessAlive
    <3> QED BY <3>1, <3>2 DEF LeaseInv, PidsDiffer
  <2>7. NamesWriter' BY <2>1, <2>3 DEF LeaseInv, NamesWriter, Names, At
  <2> QED BY <2>4, <2>5, <2>6, <2>7 DEF LeaseInv
<1>4. CASE Tick
  <2>1. clock' \in 0..MaxClock BY <1>4, ClockAssumption DEF Tick, LeaseInv, LeaseTypeOK
  <2>2. LeaseTypeOK' BY <1>4, <2>1 DEF Tick, LeaseInv, LeaseTypeOK
  <2> QED BY <1>4, <2>2
        DEF Tick, LeaseInv, HasChange, PidsDiffer, NamesWriter, Names, Running, Ended, At
<1>5. CASE UNCHANGED leaseVars
  BY <1>5 DEF leaseVars, LeaseInv, LeaseTypeOK, HasChange, PidsDiffer, NamesWriter, Names,
              Running, Ended, At
<1> QED BY <1>2, <1>3, <1>4, <1>5 DEF LeaseNext, Acts

\* The record of a running process of the same host is a conflict for every other.
LEMMA LiveIsConflict ==
  ASSUME LeaseInv, NEW p \in Procs, NEW q \in Procs, p # q, Host[q] = Host[p],
         Running(p), Running(q), NEW record, record.by = q
  PROVE  EvaluateLease(p, record) = "conflict"
<1>1. Pid[q] # Pid[p] BY DEF LeaseInv, PidsDiffer
<1>2. IsProcessAlive(p, Pid[q]) BY DEF IsProcessAlive
<1> QED BY <1>1, <1>2 DEF EvaluateLease

\* Whoever is judged fit to be replaced is the process itself, has ended, or is elsewhere.
LEMMA JudgeStep ==
  ASSUME LeaseInv, NEW p \in Procs, JudgeLease(p), procs'[p].step = "replace"
  PROVE  LET q == procs[p].seen.by IN
         q \in Procs /\ (q = p \/ Ended(q) \/ Host[q] # Host[p])
<1>1. procs \in [Procs -> Proc] BY DEF LeaseInv, LeaseTypeOK
<1>2. procs[p].seen \in Lease BY <1>1 DEF Proc
<1>3. Done(p) => procs'[p].step = "idle" BY <1>1 DEF Done, Off
<1>4. Go(p, Course(p)) => procs'[p].step = Course(p) BY <1>1 DEF Go, Proc
<1>5. Course(p) = "replace" BY <1>3, <1>4 DEF JudgeLease
<1>6. procs[p].seen.kind = "record" /\ EvaluateLease(p, procs[p].seen) # "conflict"
  BY <1>2, <1>5, CourseSteps
<1>7. procs[p].seen.by \in Procs /\ ~At(procs[p].seen.by, "off")
  BY <1>6 DEF LeaseInv, NamesWriter, Names
<1>8. Running(p) BY DEF JudgeLease, Running, Ended, At
<1> QED BY <1>6, <1>7, <1>8, LiveIsConflict DEF Running

\* Only the judgement leads to the rename, and a process keeps what it has read until then.
LEMMA ReplaceStep ==
  ASSUME LeaseInv, NEW p \in Procs, Acts(p), procs'[p].step = "replace"
  PROVE  JudgeLease(p) /\ procs'[p].seen = procs[p].seen
<1>1. procs \in [Procs -> Proc] BY DEF LeaseInv, LeaseTypeOK
<1>2. Done(p) => procs'[p].step = "idle" BY <1>1 DEF Done, Off
<1>3. \A s : Go(p, s) => procs'[p].step = s /\ procs'[p].seen = procs[p].seen
  BY <1>1 DEF Go, Proc
<1>4. ~\E w \in Writes : ReadLedger(p, w) BY <1>1 DEF ReadLedger, Proc
<1>5. ~StartAcquire(p) /\ ~ReadLease(p) /\ ~ReplaceLease(p) /\ ~EnterHeld(p)
  BY <1>1 DEF StartAcquire, ReadLease, ReplaceLease, EnterHeld, Proc
<1>6. ~CreateLease(p)
  <2>1. procs' # [procs EXCEPT ![p].step = "acquire", ![p].attempt = 1] BY <1>1 DEF Proc
  <2> QED BY <1>2, <1>3, <2>1 DEF CreateLease
<1>7. ~FillLease(p) /\ ~FillFails(p) /\ ~UndoCreate(p) /\ ~RemoveLease(p)
  BY <1>2, <1>3 DEF FillLease, FillFails, UndoCreate, RemoveLease
<1>8. ~WriteLedger(p) /\ ~WriteFails(p) BY <1>2 DEF WriteLedger, WriteFails
<1>9. ~Exit(p) /\ ~Kill(p) BY <1>1 DEF Exit, Kill, Off
<1>10. JudgeLease(p) BY <1>4, <1>5, <1>6, <1>7, <1>8, <1>9 DEF Acts
<1> QED BY <1>2, <1>3, <1>10 DEF JudgeLease

\* On one host, an ended process stays ended, so a judgement stays true.
LEMMA JudgedNext ==
  ASSUME OneHostOnly, LeaseInv, JudgedOK, [LeaseNext]_leaseVars
  PROVE  JudgedOK'
<1>1. procs \in [Procs -> Proc] BY DEF LeaseInv, LeaseTypeOK
<1>2. ASSUME NEW p \in Procs, Acts(p) PROVE JudgedOK'
  <2>1. PICK new \in Proc : procs' = [procs EXCEPT ![p] = new]
    BY <1>2, ProcessStep DEF LeaseInv
  <2>2. \A q : q # p => procs'[q] = procs[q] BY <1>1, <2>1
  <2>3. Running(p) BY <1>2, ProcessStep DEF LeaseInv
  <2>4. \A q : Ended(q) => Ended(q)' BY <2>2, <2>3 DEF Running, Ended, At
  <2>5. ASSUME NEW q \in Procs, procs'[q].step = "replace"
        PROVE procs'[q].seen.by = q \/ Ended(procs[q].seen.by)'
    <3>1. CASE q = p
      <4>1. JudgeLease(p) /\ procs'[p].seen = procs[p].seen BY <1>2, <2>5, <3>1, ReplaceStep
      <4>2. procs[p].seen.by = p \/ Ended(procs[p].seen.by)
        BY <2>5, <3>1, <4>1, JudgeStep DEF OneHostOnly
      <4> QED BY <2>4, <3>1, <4>1, <4>2 DEF Ended, At
    <3>2. CASE q # p
      <4>1. procs'[q] = procs[q] BY <2>2, <3>2
      <4>2. procs[q].seen.by = q \/ Ended(procs[q].seen.by) BY <2>5, <4>1 DEF JudgedOK, At
      <4> QED BY <2>4, <4>1, <4>2 DEF Ended, At
    <3> QED BY <3>1, <3>2
  <2> QED BY <2>5 DEF JudgedOK, At
<1>3. ASSUME NEW p \in Procs, Boot(p) PROVE JudgedOK'
  <2>1. procs'[p].step = "idle" /\ \A q : q # p => procs'[q] = procs[q]
    BY <1>1, <1>3 DEF Boot, Go, Proc
  <2>2. \A q : Ended(q) => Ended(q)' BY <1>3, <2>1 DEF Boot, Ended, At
  <2> QED BY <2>1, <2>2 DEF JudgedOK, Ended, At
<1>4. CASE Tick \/ UNCHANGED leaseVars
  <2>1. procs' = procs BY <1>4 DEF Tick, leaseVars
  <2> QED BY <2>1 DEF JudgedOK, Ended, At
<1> QED BY <1>2, <1>3, <1>4 DEF LeaseNext, Acts

\* On one host no step disturbs the claim of another process, unless it tramples: what it
\* creates was absent, what it removes it owns, and what it replaces is what it judged.
LEMMA OwnerNext ==
  ASSUME OwnerInv, [LeaseNext]_leaseVars, ~trampled'
  PROVE  OwnerOK'
<1>1. procs \in [Procs -> Proc] /\ lease \in Lease /\ LeaseInv
  BY DEF OwnerInv, LeaseInv, LeaseTypeOK
<1>2. ASSUME NEW p \in Procs, Acts(p) PROVE OwnerOK'
  <2>1. PICK new \in Proc : procs' = [procs EXCEPT ![p] = new]
    BY <1>1, <1>2, ProcessStep DEF LeaseInv
  <2>2. \A q \in Procs : q # p => procs'[q] = procs[q] BY <1>1, <2>1
  <2>3. ~trampled
    BY <1>2 DEF Acts, ReadLedger, StartAcquire, ReadLease, JudgeLease, CreateLease, FillLease,
                FillFails, UndoCreate, ReplaceLease, EnterHeld, WriteLedger, WriteFails, Exit,
                RemoveLease, Kill
  <2>4. OwnerOK BY <2>3 DEF OwnerInv
  <2>5. ASSUME lease' = lease, procs'[p].step \in Claims => procs[p].step \in Claims
        PROVE OwnerOK'
    BY <2>2, <2>4, <2>5 DEF OwnerOK
  <2>6. ASSUME NEW s, Go(p, s) PROVE procs'[p].step = s BY <1>1, <2>6 DEF Go, Proc
  <2>7. ASSUME Done(p) PROVE procs'[p].step = "idle" BY <1>1, <2>7 DEF Done, Off
  <2>8. CASE (\E w \in Writes : ReadLedger(p, w)) \/ StartAcquire(p) \/ ReadLease(p)
    <3>1. lease' = lease /\ procs'[p].step \in {"loaded", "acquire", "judge"}
      BY <1>1, <2>8 DEF ReadLedger, StartAcquire, ReadLease, Proc
    <3> QED BY <2>5, <3>1 DEF Claims
  <2>9. CASE JudgeLease(p)
    <3>1. procs[p].seen \in Lease BY <1>1 DEF Proc
    <3>2. procs'[p].step \in {"create", "replace", "idle"}
      BY <2>6, <2>7, <2>9, <3>1, CourseSteps DEF JudgeLease
    <3> QED BY <2>5, <2>9, <3>2 DEF JudgeLease, Claims
  <2>10. CASE CreateLease(p)
    <3>1. CASE lease.kind = "absent" /\ lease' = [kind |-> "partial", by |-> p, beat |-> 0]
      <4>1. \A q \in Procs : procs[q].step \notin Claims BY <2>4, <3>1 DEF OwnerOK
      <4> QED BY <2>2, <3>1, <4>1 DEF OwnerOK
    <3>2. CASE lease' = lease /\ procs' = [procs EXCEPT ![p].step = "acquire", ![p].attempt = 1]
      <4>1. procs'[p].step = "acquire" BY <1>1, <3>2 DEF Proc
      <4> QED BY <2>5, <3>2, <4>1 DEF Claims
    <3>3. CASE lease' = lease /\ Done(p) BY <2>5, <2>7, <3>3 DEF Claims
    <3> QED BY <2>10, <3>1, <3>2, <3>3 DEF CreateLease
  <2>11. CASE FillLease(p) \/ FillFails(p)
    <3>1. lease.kind # "absent" /\ lease.by = p
      BY <2>4, <2>11 DEF FillLease, FillFails, OwnerOK, At, Claims
    <3>2. lease'.kind # "absent" /\ lease'.by = p
      <4>1. Filled(p).kind # "absent" /\ Filled(p).by = p BY <3>1 DEF Filled, OwnLease
      <4> QED BY <2>11, <3>1, <4>1 DEF FillLease, FillFails
    <3> QED BY <2>2, <2>4, <3>1, <3>2 DEF OwnerOK
  <2>12. CASE UndoCreate(p) \/ RemoveLease(p)
    <3>1. lease.by = p BY <2>4, <2>12 DEF UndoCreate, RemoveLease, OwnerOK, At, Claims
    <3>2. procs'[p].step \in {"idle", "gone"} BY <2>6, <2>7, <2>12 DEF UndoCreate, RemoveLease
    <3>3. \A q \in Procs : procs'[q].step \notin Claims
      BY <2>2, <2>4, <3>1, <3>2 DEF OwnerOK, Claims
    <3> QED BY <3>3 DEF OwnerOK
  <2>13. CASE ReplaceLease(p)
    <3>1. lease' = OwnLease(p) /\ ~Tramples(p) /\ At(p, "replace") BY <2>13 DEF ReplaceLease
    <3>2. ASSUME NEW q \in Procs, q # p, procs[q].step \in Claims PROVE FALSE
      <4>1. lease.kind # "absent" /\ lease.by = q BY <2>4, <3>2 DEF OwnerOK
      <4>2. Running(q) /\ ~Ended(q) BY <3>2 DEF Claims, Running, Ended, At
      <4>3. lease = procs[p].seen BY <3>1, <3>2, <4>1, <4>2 DEF Tramples
      <4>4. lease.by = p \/ Ended(lease.by) BY <3>1, <4>3 DEF OwnerInv, JudgedOK
      <4> QED BY <3>2, <4>1, <4>2, <4>4
    <3> QED BY <2>2, <3>1, <3>2 DEF OwnerOK, OwnLease
  <2>14. CASE EnterHeld(p) BY <2>5, <2>14 DEF EnterHeld, At, Claims
  <2>15. CASE WriteLedger(p) \/ WriteFails(p)
    BY <2>5, <2>7, <2>15 DEF WriteLedger, WriteFails, Claims
  <2>16. CASE Exit(p)
    <3>1. lease' = lease BY <2>16 DEF Exit
    <3>2. procs'[p].step =
            IF procs[p].held /\ lease.kind = "record" /\ lease.by = p THEN "exit" ELSE "gone"
      BY <1>1, <2>16 DEF Exit, Off
    <3> QED BY <2>2, <2>4, <3>1, <3>2 DEF OwnerOK, Claims
  <2>17. CASE Kill(p)
    <3>1. procs'[p].step = "killed" BY <1>1, <2>17 DEF Kill, Off
    <3> QED BY <2>5, <2>17, <3>1 DEF Kill, Claims
  <2> QED BY <1>2, <2>8, <2>9, <2>10, <2>11, <2>12, <2>13, <2>14, <2>15, <2>16, <2>17 DEF Acts
<1>3. ASSUME NEW p \in Procs, Boot(p) PROVE OwnerOK'
  <2>1. lease' = lease /\ trampled' = trampled BY <1>3 DEF Boot
  <2>2. procs'[p].step = "idle" /\ \A q \in Procs : q # p => procs'[q] = procs[q]
    BY <1>1, <1>3 DEF Boot, Go, Proc
  <2> QED BY <2>1, <2>2 DEF OwnerInv, OwnerOK, Claims
<1>4. CASE Tick \/ UNCHANGED leaseVars
  BY <1>4 DEF Tick, leaseVars, OwnerInv, OwnerOK
<1> QED BY <1>2, <1>3, <1>4 DEF LeaseNext, Acts

----
\* WriterLease: the theorems.

\* LeaseInv holds in every state: pids of running processes differ, and a record names a
\* process that was started.
THEOREM LeaseAlwaysInv == LeaseSpec => []LeaseInv
<1> QED BY LeaseInvInit, LeaseInvNext, PTL DEF LeaseSpec

\* The files and the processes keep their shape, on any number of hosts.
THEOREM LeaseTypeCorrect == LeaseSpec => []LeaseTypeOK
<1>1. LeaseInv => LeaseTypeOK BY DEF LeaseInv
<1> QED BY <1>1, LeaseAlwaysInv, PTL

\* Nobody decides to take over the lease of a running process of its own host, whatever other
\* hosts share the directory: isProcessAlive finds it, and a pid is recycled only after it.
THEOREM LiveKeepsLease == LeaseSpec => LiveNeverMistaken
<1>1. ASSUME LeaseInv, [LeaseNext]_leaseVars, NEW p \in Procs, At(p, "judge"),
             procs'[p].step = "replace", procs[p].seen.by # p
      PROVE  Ended(procs[p].seen.by) \/ Host[procs[p].seen.by] # Host[p]
  <2>1. procs \in [Procs -> Proc] BY <1>1 DEF LeaseInv, LeaseTypeOK
  <2>2. procs'[p] # procs[p] BY <1>1 DEF At
  <2>3. ASSUME NEW q \in Procs, q # p, Acts(q) PROVE FALSE
    BY <2>1, <2>2, <2>3, <1>1, ProcessStep DEF LeaseInv
  <2>4. \A q \in Procs : ~Boot(q) BY <1>1, <2>1 DEF Boot, Go, At, Proc
  <2>5. ~Tick /\ ~UNCHANGED leaseVars BY <2>2 DEF Tick, leaseVars
  <2>6. Acts(p) BY <1>1, <2>3, <2>4, <2>5 DEF LeaseNext, Acts
  <2>7. JudgeLease(p) BY <1>1, <2>6, ReplaceStep
  <2> QED BY <1>1, <2>7, JudgeStep
<1>2. LeaseInv /\ [LeaseNext]_leaseVars =>
        \A p \in Procs :
          At(p, "judge") /\ procs'[p].step = "replace" /\ procs[p].seen.by # p =>
            Ended(procs[p].seen.by) \/ Host[procs[p].seen.by] # Host[p]
  BY <1>1
<1> QED BY <1>2, LeaseAlwaysInv, PTL DEF LeaseSpec, LiveNeverMistaken

\* OwnerInv holds in every state when the directory is used from one host.
THEOREM OwnerAlways == ASSUME OneHostOnly PROVE LeaseSpec => []OwnerInv
<1>1. LeaseInit => OwnerInv
  <2> SUFFICES ASSUME LeaseInit PROVE OwnerInv OBVIOUS
  <2>1. \A p \in Procs : procs[p].step = "off" BY DEF LeaseInit, Off
  <2> QED BY <2>1, LeaseInvInit DEF OwnerInv, OwnerOK, Claims, JudgedOK, At
<1>2. OwnerInv /\ [LeaseNext]_leaseVars => OwnerInv'
  BY OwnerNext, JudgedNext, LeaseInvNext DEF OwnerInv
<1> QED BY <1>1, <1>2, PTL DEF LeaseSpec

\* On one host, a record disappears only through the exit of the process it names or as that
\* process undoes its create, whoever is killed, until a takeover tramples on a lease.
THEOREM ReleasesOwnOnAHost == ASSUME OneHostOnly PROVE LeaseSpec => ReleasesOwnLease
<1>1. ASSUME OwnerInv, [LeaseNext]_leaseVars, ~trampled, lease.kind = "record",
             lease'.kind = "absent"
      PROVE  At(lease.by, "exit") \/ At(lease.by, "undo")
  <2>1. OwnerOK BY <1>1 DEF OwnerInv
  <2>2. PICK p \in Procs : RemoveLease(p) \/ UndoCreate(p)
    <3>1. lease' # lease BY <1>1
    <3>2. \A p \in Procs : Filled(p) = lease \/ Filled(p).kind = "record"
      BY DEF Filled, OwnLease
    <3>3. \A p \in Procs : FillLease(p) \/ FillFails(p) \/ ReplaceLease(p) =>
                            lease' = lease \/ lease'.kind = "record"
      BY <3>2 DEF FillLease, FillFails, ReplaceLease, OwnLease
    <3>4. \A p \in Procs : CreateLease(p) => lease' = lease \/ lease'.kind = "partial"
      BY DEF CreateLease
    <3>5. \A p \in Procs :
            \/ \E w \in Writes : ReadLedger(p, w)
            \/ Boot(p) \/ StartAcquire(p) \/ ReadLease(p) \/ JudgeLease(p) \/ EnterHeld(p)
            \/ WriteLedger(p) \/ WriteFails(p) \/ Exit(p) \/ Kill(p)
            => lease' = lease
      BY DEF ReadLedger, Boot, StartAcquire, ReadLease, JudgeLease, EnterHeld, WriteLedger,
             WriteFails, Exit, Kill
    <3>6. Tick \/ UNCHANGED leaseVars => lease' = lease BY DEF Tick, leaseVars
    <3> QED BY <1>1, <3>1, <3>3, <3>4, <3>5, <3>6 DEF LeaseNext
  <2> QED BY <2>1, <2>2 DEF RemoveLease, UndoCreate, OwnerOK, Claims, At
<1>2. OwnerInv /\ [LeaseNext]_leaseVars =>
        (~trampled /\ lease.kind = "record" /\ lease'.kind = "absent" =>
           At(lease.by, "exit") \/ At(lease.by, "undo"))
  BY <1>1
<1> QED BY <1>2, OwnerAlways, PTL DEF LeaseSpec, ReleasesOwnLease

\* On one host, never do two processes rewrite the ledger together, whoever fails, exits or
\* is killed, until a takeover tramples on a lease it never judged.
THEOREM OneWriterOnAHost == ASSUME OneHostOnly PROVE LeaseSpec => []OneWriterUnlessTrampled
<1>1. OwnerInv => OneWriterUnlessTrampled
  BY DEF OwnerInv, OwnerOK, Claims, OneWriterUnlessTrampled, OneWriter, At
<1> QED BY <1>1, OwnerAlways, PTL
====
