---- MODULE MCTelemetryStore ----
\* Two runs of one account. The first has signed chunks of two boards: a1 and a2 of one, that
\* may arrive in either order, and c1 of the other, with the sequence number of a1 and
\* a later time; a2 starts a session. Of the second there is a signed chunk, and an imported
\* one that was stored before the split.
EXTENDS TelemetryStore

CONSTANTS r1, r2, d1, d2, a1, a2, b1, bx, c1

MCRun == [c \in Chunks |-> IF c \in {a1, a2, c1} THEN r1 ELSE r2]
MCSeq == [c \in Chunks |-> IF c \in {a1, b1, c1} THEN 1 ELSE 2]
MCDevice == [c \in Chunks |-> IF c = c1 THEN d2 ELSE d1]
MCTime == [c \in Chunks |-> IF c = c1 THEN 2 ELSE IF c = a2 THEN 0 ELSE MCSeq[c]]
MCLegacyChunk == [i \in Legacy |-> bx]
====
