---- MODULE MCReleaseChain ----
\* One run, one artifact and one plan, with two evaluations and two handlers.
EXTENDS ReleaseChain, TLC

MCSymmetry == Permutations(Evals) \cup Permutations(Handlers) \cup Permutations(References)
====
