---- MODULE MCTrainingWorker ----
\* More jobs than slots, so that some wait in the queue; a key that two of them share; one
\* for which there is no engine.
EXTENDS TrainingWorker

CONSTANTS j1, j2, j3
====
