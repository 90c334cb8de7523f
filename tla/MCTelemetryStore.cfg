SPECIFICATION Spec
CONSTANTS
  r1 = r1 r2 = r2 d1 = d1 d2 = d2 a1 = a1 a2 = a2 b1 = b1 bx = bx c1 = c1
  Runs = {r1, r2}
  Chunks = {a1, a2, b1, bx, c1}
  Keys = {k1}
  ChunkRun <- MCRun
  ChunkSeq <- MCSeq
  ChunkDevice <- MCDevice
  ChunkTime <- MCTime
  Openers = {a2}
  Attested = {a1, a2, b1, c1}
  Legacy = {1}
  LegacyChunk <- MCLegacyChunk
  MaxId = 4
  RunQuota = 2
  OwnerQuota = 3
  RecordCap = 3
  NoKey = NoKey
  Nothing = Nothing
INVARIANTS IndexHasSamples AcknowledgedKept StoredOnce EvaluationFresh ListingIsHead
PROPERTIES ImplementsChunkLog
CHECK_DEADLOCK FALSE
