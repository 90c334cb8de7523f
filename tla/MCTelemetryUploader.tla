---- MODULE MCTelemetryUploader ----
\* A short spool, and batches smaller than it.
EXTENDS TelemetryUploader
====
