---- MODULE RunSlots ----
\* What the run ledger promises an account about its runner slots: a run is admitted
\* only while the account holds fewer than MaxActive, leaves its slot once, and never
\* comes back. Nothing is said of handlers, runners or keys.
EXTENDS Naturals, FiniteSets

CONSTANTS RunIds, Owners, MaxActive

VARIABLES
  held,   \* the runs that occupy a slot of each account
  spent   \* the runs that have left theirs

vars == <<held, spent>>

Init ==
  /\ held = [o \in Owners |-> {}]
  /\ spent = {}

Held == UNION {held[o] : o \in Owners}

\* Some runs end; a sweep may end several at once.
Release(ended) ==
  /\ ended # {}
  /\ ended \subseteq Held
  /\ held' = [o \in Owners |-> held[o] \ ended]
  /\ spent' = spent \cup ended

\* The runs the sweep ends leave their slots before the new one is counted.
Admit(o, r, ended) ==
  /\ ended \subseteq Held
  /\ r \notin spent \cup Held
  /\ Cardinality(held[o] \ ended) < MaxActive
  /\ held' = [p \in Owners |-> IF p = o THEN (held[p] \ ended) \cup {r} ELSE held[p] \ ended]
  /\ spent' = spent \cup ended

Next ==
  \/ \E ended \in SUBSET Held : Release(ended)
  \/ \E o \in Owners, r \in RunIds, ended \in SUBSET Held : Admit(o, r, ended)

Spec == Init /\ [][Next]_vars
====
