---- MODULE MCRunLedger ----
\* Values for the constants of RunLedger: all keys belong to one account, so that its
\* runs compete for its slots.
EXTENDS RunLedger, TLC

CONSTANTS k1, k2, j1, j2, q1, q2, o1

MCKeyOwner == [k \in Keys |-> o1]

MCSymmetry == Permutations(Requests) \cup Permutations(RunIds) \cup Permutations(Jobs)
                \cup Permutations(Keys)

\* Bound: of the two runs at most one goes through a browser, so that it meets the other.
OneRelayed == Cardinality({r \in RunIds : runs[r].relay}) <= 1
====
