---- MODULE MotionSession ----
\* What the policy runtime promises the platform about its sessions of motion: they follow
\* one another, and each one that is closed is reported once, by its number, in order.
EXTENDS Naturals, Sequences

VARIABLES
  session,  \* the latest session, 0 before the first
  open,     \* whether it is open
  reports   \* the sessions reported as stopped

vars == <<session, open, reports>>

Init == session = 0 /\ open = FALSE /\ reports = <<>>

Open ==
  /\ ~open
  /\ session' = session + 1
  /\ open' = TRUE
  /\ UNCHANGED reports

Close ==
  /\ open
  /\ open' = FALSE
  /\ reports' = Append(reports, session)
  /\ UNCHANGED session

Next == Open \/ Close

Spec == Init /\ [][Next]_vars
====
