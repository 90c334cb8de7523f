---- MODULE ChunkLog ----
\* What the telemetry store promises of the chunks of an account: one step stores a chunk,
\* drops expired ones of its run and voids the run's evaluation, keeps the quotas and
\* stores nothing twice. A run may become unreadable, as a whole: nothing is then said of its
\* chunks on a part of them. Files, the order of their writes, failures and listings are
\* not spoken of.
EXTENDS Naturals, FiniteSets

CONSTANTS
  Runs, Row,   \* a row has the id, the chunk and the key it was stored under
  ChunkRun, ChunkSeq, ChunkDevice, Attested, Legacy,
  RunQuota, OwnerQuota, RecordCap,
  NoKey, NoRevision

VARIABLES
  rows,        \* the chunks that are stored, whole
  unreadable,  \* the runs of which every read fails: a line of theirs is cut short
  revision,    \* the ids a run's evaluation digests
  acked,       \* ids a client was told are stored
  cutoff       \* ids up to here are older than the retention period

vars == <<rows, unreadable, revision, acked, cutoff>>

OfRun(r) == {row \in rows : ChunkRun[row.chunk] = r}

\* Uploads of the same samples: one key, or one sequence number of one board that signs.
Twins(x, y) ==
  /\ ChunkRun[x.chunk] = ChunkRun[y.chunk]
  /\ \/ x.key = y.key /\ x.key # NoKey
     \/ /\ {x.chunk, y.chunk} \subseteq Attested
        /\ ChunkDevice[x.chunk] = ChunkDevice[y.chunk]
        /\ ChunkSeq[x.chunk] = ChunkSeq[y.chunk]

Init ==
  /\ rows \subseteq {row \in Row : row.id \in Legacy}
  /\ unreadable = {}
  /\ revision = [r \in Runs |-> NoRevision]
  /\ acked = {}
  /\ cutoff = 0

Fits ==
  /\ \A r \in Runs : Cardinality(OfRun(r)) <= RunQuota
  /\ Cardinality(rows) <= OwnerQuota
  /\ Cardinality(rows) <= RecordCap

\* The client may be told at once, or hear of it later, or never. The quota is taken over
\* every chunk of the account, so one run that cannot be read stops all of them.
Store(new) ==
  /\ rows' \ rows = {new}
  /\ \A row \in rows \cup {new} : ChunkRun[row.chunk] \notin unreadable
  /\ \A row \in rows : row.id < new.id /\ ~Twins(row, new)
  /\ \A row \in rows \ rows' :
       row.id \notin Legacy /\ row.id <= cutoff /\ ChunkRun[row.chunk] = ChunkRun[new.chunk]
  /\ Fits'
  /\ revision' = [revision EXCEPT ![ChunkRun[new.chunk]] = NoRevision]
  /\ acked' \in {acked, acked \cup {new.id}}
  /\ UNCHANGED <<unreadable, cutoff>>

Acknowledge ==
  /\ \E row \in rows : ChunkRun[row.chunk] \notin unreadable /\ acked' = acked \cup {row.id}
  /\ UNCHANGED <<rows, unreadable, revision, cutoff>>

Evaluate(r) ==
  /\ r \notin unreadable
  /\ revision' = [revision EXCEPT ![r] = {row.id : row \in OfRun(r)}]
  /\ UNCHANGED <<rows, unreadable, acked, cutoff>>

\* A line is being written, and the run is readable again once it is complete.
Cut(r) ==
  /\ unreadable' \in {unreadable \cup {r}, unreadable \ {r}}
  /\ UNCHANGED <<rows, revision, acked, cutoff>>

Age ==
  /\ cutoff' = cutoff + 1
  /\ UNCHANGED <<rows, unreadable, revision, acked>>

Next ==
  \/ \E new \in Row \cap (rows' \ rows) : Store(new)
  \/ Acknowledge \/ Age
  \/ \E r \in Runs : Evaluate(r) \/ Cut(r)

Spec == Init /\ [][Next]_vars
====
