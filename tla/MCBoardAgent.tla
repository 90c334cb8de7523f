---- MODULE MCBoardAgent ----
\* Three requests on two threads, two runtime processes.
EXTENDS BoardAgent
====
