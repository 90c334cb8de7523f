---- MODULE MCPolicyRuntime ----
\* A process with two sessions, so that a loop of the first outlives it.
EXTENDS PolicyRuntime
====
