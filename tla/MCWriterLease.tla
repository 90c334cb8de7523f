---- MODULE MCWriterLease ----
\* Three process incarnations of one host, each with its own pid or the second with the
\* pid of the first.
EXTENDS WriterLease

CONSTANTS p1, p2, p3

OneHost == [p \in Procs |-> "a"]
OwnPid == [p \in Procs |-> IF p = p1 THEN 1 ELSE IF p = p2 THEN 2 ELSE 3]
RecycledPid == [p \in Procs |-> IF p = p3 THEN 3 ELSE 1]
====
