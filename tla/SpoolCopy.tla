---- MODULE SpoolCopy ----
\* What the uploader promises of a board's recording: the platform has a beginning of it,
\* which only grows, and nothing is given up for sent that it does not have. Batches, keys,
\* lost answers and sessions are not spoken of.
EXTENDS Naturals, Sequences

CONSTANT Lines  \* the lines of a spool, which have a kind

VARIABLES
  spool,   \* the lines recorded
  copied,  \* the places of those the platform has
  ckpt     \* how many lines will not be sent any more

vars == <<spool, copied, ckpt>>

\* The first n lines, without the malformed ones, which nobody sends.
Beginning(n) == {p \in 1..n : spool[p].kind # "bad"}

Init == spool = <<>> /\ copied = {} /\ ckpt = 0

Record ==
  /\ \E line \in Lines : spool' = Append(spool, line)
  /\ UNCHANGED <<copied, ckpt>>

Copy ==
  /\ \E n \in 1..Len(spool) : copied \subseteq Beginning(n) /\ copied' = Beginning(n)
  /\ UNCHANGED <<spool, ckpt>>

Pass ==
  /\ \E n \in 1..Len(spool) : ckpt < n /\ Beginning(n) \subseteq copied /\ ckpt' = n
  /\ UNCHANGED <<spool, copied>>

Next == Record \/ Copy \/ Pass

Spec == Init /\ [][Next]_vars
====
