---- MODULE JobLifecycle ----
\* How the status of a job may change in the eyes of somebody who asks a runner for it:
\* what the run ledger has to cope with and the training worker keeps to.

JobStatuses == {"queued", "running", "completed", "failed"}

\* A job may also be gone: its record was dropped, or can no longer be read. A result that
\* cannot be stored turns a completed job into a failed one.
Successors ==
  [queued |-> {"running", "failed", "gone"},
   running |-> {"completed", "failed", "gone"},
   completed |-> {"failed", "gone"},
   failed |-> {"gone"}]
====
