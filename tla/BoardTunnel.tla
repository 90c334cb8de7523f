---- MODULE BoardTunnel ----
\* The SSH tunnels of saved board connections: operations to open one are shared by the
\* requests that arrive meanwhile, tunnels are closed by disconnect, delete and a failed
\* open, and the web process may exit. Between two awaits the code runs alone; a change of
\* the registry file is one such piece. What the last check of a connection found is only
\* shown to the user and left out.
EXTENDS Naturals, FiniteSets

CONSTANTS
  Connections,  \* bound: the identifiers of connections, each used once
  MaxOpens,     \* bound: ssh processes
  MaxCloses,    \* bound: requests to disconnect and to delete
  MaxExits      \* bound: exits of the web process

ASSUME BoundsAssumption == MaxOpens \in Nat /\ MaxCloses \in Nat /\ MaxExits \in Nat

VARIABLES
  created,  \* the identifiers used so far
  stored,   \* the connections of the registry file
  tunnels,  \* the process each connection has in the tunnels map
  ssh,      \* the ssh processes: their connection and state
  opening,  \* the operation of each connection in openingTunnels
  closing,  \* the requests to disconnect and to delete
  exits     \* how often the web process has exited

vars == <<created, stored, tunnels, ssh, opening, closing, exits>>

None == 0
Procs == 1..MaxOpens
Closes == 1..MaxCloses

Gone == [conn |-> None, st |-> "gone"]
Alive(p) == ssh[p].st \in {"running", "ending"}

New == [kind |-> "none", conn |-> None, step |-> "new", proc |-> None]
Done == [New EXCEPT !.step = "done"]
NoOpening == [step |-> "none", proc |-> None, before |-> {}]

Init ==
  /\ created = {} /\ stored = {}
  /\ tunnels = [c \in Connections |-> None]
  /\ ssh = [p \in Procs |-> [conn |-> None, st |-> "none"]]
  /\ opening = [c \in Connections |-> NoOpening]
  /\ closing = [k \in Closes |-> New]
  /\ exits = 0

----
\* createDeviceConnection
Create(c) ==
  /\ c \notin created
  /\ created' = created \cup {c}
  /\ stored' = stored \cup {c}
  /\ UNCHANGED <<tunnels, ssh, opening, closing, exits>>

----
\* closeDeviceConnectionTunnel: forget the process and send it SIGTERM. Its caller goes on
\* with "wait" for the process, or at once when there is none.

SignalTo(ps) ==
  [p \in Procs |-> IF p \in ps /\ ssh[p].st = "running" THEN [ssh[p] EXCEPT !.st = "ending"]
                                                         ELSE ssh[p]]

CloseTunnel(c) ==
  /\ tunnels' = [tunnels EXCEPT ![c] = None]
  /\ ssh' = SignalTo({tunnels[c]})

\* A close has seen the process exit, or has waited for two seconds and kills it.
Closed(p) ==
  ssh' = [q \in Procs |-> IF q = p THEN Gone ELSE ssh[q]]

----
\* openDeviceConnectionTunnel

Spawn(c, p) ==
  /\ \A q \in Procs : ssh[q].st = "none" <=> q >= p
  /\ ssh' = [ssh EXCEPT ![p] = [conn |-> c, st |-> "running"]]
  /\ tunnels' = [tunnels EXCEPT ![c] = p]
  /\ opening' = [opening EXCEPT ![c] =
       [step |-> "connect", proc |-> p,
        before |-> {k \in Closes : closing[k].step \in {"wait", "remove"}}]]

\* The bound on processes leaves one for every operation that may still start one.
Spare ==
  Cardinality({c \in Connections : opening[c].step \in {"reprobe", "reclose", "respawn"}})
    < Cardinality({p \in Procs : ssh[p].st = "none"})

\* Mutant: requests do not share an operation.
BadOpen(c, p) ==
  /\ c \in stored
  /\ Spare
  /\ Spawn(c, p)
  /\ UNCHANGED <<created, stored, closing, exits>>

\* No process, or a dead one.
Open(c, p) ==
  /\ opening[c].step = "none"
  /\ c \in stored
  /\ \A q \in Procs : q = tunnels[c] => ~Alive(q)
  /\ Spare
  /\ Spawn(c, p)
  /\ UNCHANGED <<created, stored, closing, exits>>

Reopen(c) ==
  /\ opening[c].step = "none"
  /\ c \in stored
  /\ \E p \in Procs : p = tunnels[c] /\ Alive(p)
  /\ Spare
  /\ opening' = [opening EXCEPT ![c] = [NoOpening EXCEPT !.step = "reprobe"]]
  /\ UNCHANGED <<created, stored, tunnels, ssh, closing, exits>>

ReprobeOk(c) ==
  /\ opening[c].step = "reprobe"
  /\ opening' = [opening EXCEPT ![c] = NoOpening]
  /\ UNCHANGED <<created, stored, tunnels, ssh, closing, exits>>

ReprobeFails(c) ==
  /\ opening[c].step = "reprobe"
  /\ CloseTunnel(c)
  /\ opening' = [opening EXCEPT ![c] =
       [NoOpening EXCEPT !.step = IF tunnels[c] = None THEN "respawn" ELSE "reclose",
                         !.proc = tunnels[c]]]
  /\ UNCHANGED <<created, stored, closing, exits>>

\* The record was read before all of this, and is not read again.
Reclosed(c) ==
  /\ opening[c].step = "reclose"
  /\ Closed(opening[c].proc)
  /\ opening' = [opening EXCEPT ![c] = [NoOpening EXCEPT !.step = "respawn"]]
  /\ UNCHANGED <<created, stored, tunnels, closing, exits>>

Respawn(c, p) ==
  /\ opening[c].step = "respawn"
  /\ Spawn(c, p)
  /\ UNCHANGED <<created, stored, closing, exits>>

\* Mutant: only a process that is still registered is waited for.
BadConnectFails(c) ==
  /\ opening[c].step = "connect"
  /\ ssh[opening[c].proc].st = "gone" /\ tunnels[c] = opening[c].proc
  /\ tunnels' = [tunnels EXCEPT ![c] = None]
  /\ opening' = [opening EXCEPT ![c] = NoOpening]
  /\ UNCHANGED <<created, stored, ssh, closing, exits>>

\* The process exits before the timer.
ConnectFails(c) ==
  /\ opening[c].step = "connect"
  /\ ssh[opening[c].proc].st = "gone"
  /\ tunnels' = IF tunnels[c] = opening[c].proc THEN [tunnels EXCEPT ![c] = None] ELSE tunnels
  /\ opening' = [opening EXCEPT ![c] = NoOpening]
  /\ UNCHANGED <<created, stored, ssh, closing, exits>>

\* The process is alive after 9.5 s, which every close and delete that was under way at its
\* start has not needed: they wait for 2 s at most.
Connected(c) ==
  /\ opening[c].step = "connect"
  /\ Alive(opening[c].proc)
  /\ \A k \in opening[c].before : closing[k].step = "done"
  /\ opening' = [opening EXCEPT ![c].step = "probe"]
  /\ UNCHANGED <<created, stored, tunnels, ssh, closing, exits>>

ProbeOk(c) ==
  /\ opening[c].step = "probe"
  /\ opening' = [opening EXCEPT ![c].step = "persist"]
  /\ UNCHANGED <<created, stored, tunnels, ssh, closing, exits>>

\* A probe that fails, a record that is gone, or a registry that cannot be written.
GiveUp(c) ==
  /\ CloseTunnel(c)
  /\ opening' = [opening EXCEPT ![c] = IF tunnels[c] = None THEN NoOpening
                                       ELSE [@ EXCEPT !.step = "giveup", !.proc = tunnels[c]]]
  /\ UNCHANGED <<created, stored, closing, exits>>

ProbeFails(c) ==
  /\ opening[c].step = "probe"
  /\ GiveUp(c)

\* Mutant: the record is not looked for again.
BadPersist(c) ==
  /\ opening[c].step = "persist"
  /\ opening' = [opening EXCEPT ![c] = NoOpening]
  /\ UNCHANGED <<created, stored, tunnels, ssh, closing, exits>>

Persist(c) ==
  /\ opening[c].step = "persist"
  /\ c \in stored
  /\ opening' = [opening EXCEPT ![c] = NoOpening]
  /\ UNCHANGED <<created, stored, tunnels, ssh, closing, exits>>

PersistFails(c) ==
  /\ opening[c].step = "persist"
  /\ GiveUp(c)

GivenUp(c) ==
  /\ opening[c].step = "giveup"
  /\ Closed(opening[c].proc)
  /\ opening' = [opening EXCEPT ![c] = NoOpening]
  /\ UNCHANGED <<created, stored, tunnels, closing, exits>>

----
\* What is left of a request once its tunnel is closed.
After(kind, c) ==
  IF kind = "delete" THEN [kind |-> kind, conn |-> c, proc |-> None, step |-> "remove"] ELSE Done

\* Requests to disconnect a visible connection, and to delete any.
Close(k, kind, c) ==
  /\ closing[k].step = "new" /\ \A l \in 1..(k - 1) : closing[l].step # "new"
  /\ kind = "disconnect" => c \in stored
  /\ CloseTunnel(c)
  /\ closing' = [closing EXCEPT ![k] =
       IF tunnels[c] # None THEN [kind |-> kind, conn |-> c, proc |-> tunnels[c], step |-> "wait"]
                            ELSE After(kind, c)]
  /\ UNCHANGED <<created, stored, opening, exits>>

Waited(k) ==
  /\ closing[k].step = "wait"
  /\ Closed(closing[k].proc)
  /\ closing' = [closing EXCEPT ![k] = After(closing[k].kind, closing[k].conn)]
  /\ UNCHANGED <<created, stored, tunnels, opening, exits>>

\* The record is removed, was not there, or cannot be written.
Remove(k) ==
  /\ closing[k].step = "remove"
  /\ stored' = stored \ {closing[k].conn} \/ stored' = stored
  /\ closing' = [closing EXCEPT ![k] = Done]
  /\ UNCHANGED <<created, tunnels, ssh, opening, exits>>

----
\* An ssh process ends by itself, or by its signal.
SshEnds(p) ==
  /\ Alive(p)
  /\ ssh' = [ssh EXCEPT ![p] = Gone]
  /\ UNCHANGED <<created, stored, tunnels, opening, closing, exits>>

\* The web process exits and starts again, without the tunnels.
Exit ==
  /\ exits < MaxExits
  /\ exits' = exits + 1
  /\ ssh' = SignalTo({tunnels[c] : c \in Connections})
  /\ tunnels' = [c \in Connections |-> None]
  /\ opening' = [c \in Connections |-> NoOpening]
  /\ closing' = [k \in Closes |-> IF closing[k].step = "new" THEN closing[k] ELSE Done]
  /\ UNCHANGED <<created, stored>>

----
Go(c) ==
  \/ ReprobeOk(c) \/ ReprobeFails(c) \/ Reclosed(c) \/ (\E p \in Procs : Respawn(c, p))
  \/ ConnectFails(c) \/ Connected(c) \/ ProbeOk(c) \/ ProbeFails(c)
  \/ Persist(c) \/ PersistFails(c) \/ GivenUp(c)

Next ==
  \/ \E c \in Connections : Create(c) \/ Reopen(c) \/ Go(c) \/ \E p \in Procs : Open(c, p)
  \/ \E k \in Closes : Waited(k) \/ Remove(k)
  \/ \E k \in Closes, kind \in {"disconnect", "delete"}, c \in Connections : Close(k, kind, c)
  \/ \E p \in Procs : SshEnds(p)
  \/ Exit

Spec == Init /\ [][Next]_vars

\* Timers, probes and the event loop go on, and a process that was sent SIGTERM ends.
Fairness ==
  /\ \A c \in Connections : WF_vars(Go(c))
  /\ \A k \in Closes : WF_vars(Waited(k) \/ Remove(k))
  /\ \A p \in Procs : WF_vars(ssh[p].st = "ending" /\ SshEnds(p))

FairSpec == Spec /\ Fairness

----
TypeOK ==
  /\ stored \subseteq created /\ created \subseteq Connections
  /\ tunnels \in [Connections -> Procs \cup {None}]
  /\ ssh \in [Procs -> [conn : Connections \cup {None}, st : {"none", "running", "ending", "gone"}]]
  /\ opening \in [Connections ->
       [step : {"none", "reprobe", "reclose", "respawn", "connect", "probe", "persist", "giveup"},
        proc : Procs \cup {None}, before : SUBSET Closes]]
  /\ closing \in [Closes ->
       [kind : {"none", "disconnect", "delete"}, conn : Connections \cup {None},
        step : {"new", "wait", "remove", "done"}, proc : Procs \cup {None}]]
  /\ exits \in 0..MaxExits
  /\ \A c \in Connections :
       /\ tunnels[c] # None => ssh[tunnels[c]].conn \in {c, None}
       /\ opening[c].step \in {"connect", "probe", "persist", "reclose", "giveup"} =>
            opening[c].proc # None

\* An ssh process that nobody has told to end is the one the tunnels map holds for its
\* connection: it can be closed, and there is one of them at most.
NoOrphan ==
  \A p \in Procs :
    ssh[p].st = "running" => \E c \in Connections : ssh[p].conn = c /\ tunnels[c] = p

\* A tunnel of a connection that is not in the registry is one that is still being opened
\* and will not be reported open.
NoStrayTunnel ==
  \A c \in Connections :
    tunnels[c] # None /\ c \notin stored => opening[c].step \in {"connect", "probe", "persist"}

\* Every operation to open a tunnel ends, whatever is closed or exits meanwhile.
OpensEnd == \A c \in Connections : opening[c].step # "none" ~> opening[c].step = "none"

\* The processes of a connection that has been deleted end.
DeletedGoesDown ==
  \A c \in Connections :
    c \in created \ stored ~> \A p \in Procs : ssh[p].conn = c => ~Alive(p)
====
