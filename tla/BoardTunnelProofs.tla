---- MODULE BoardTunnelProofs ----
\* Theorems about BoardTunnel for all connections and every number of processes, requests
\* and exits.
EXTENDS BoardTunnel, TLAPS

----
\* The inductive invariant.

\* The tunnels map holds processes that have been started.
StartedOK == \A c \in Connections : tunnels[c] # None => ssh[tunnels[c]].st # "none"

\* An operation that has closed its tunnel and is to start another finds none.
ClosedOK == \A c \in Connections : opening[c].step \in {"reclose", "respawn"} => tunnels[c] = None

\* An operation that has started a process shares its connection with no other.
OwnOK ==
  \A c \in Connections :
    opening[c].step \in {"connect", "probe", "persist"} => tunnels[c] \in {None, opening[c].proc}

\* What has been opened again before the record is removed is still being connected, and
\* waits for the request that removes it.
RemovedOK ==
  \A k \in Closes, c \in Connections :
    closing[k].step = "remove" \/ (closing[k].step = "wait" /\ closing[k].kind = "delete") =>
      (closing[k].conn = c /\ tunnels[c] # None =>
         opening[c].step = "connect" /\ k \in opening[c].before)

Inv == TypeOK /\ NoOrphan /\ NoStrayTunnel /\ StartedOK /\ ClosedOK /\ OwnOK /\ RemovedOK

----
Steps == {"none", "reprobe", "reclose", "respawn", "connect", "probe", "persist", "giveup"}
SshType == [conn : Connections \cup {None}, st : {"none", "running", "ending", "gone"}]
OpeningType == [step : Steps, proc : Procs \cup {None}, before : SUBSET Closes]
ClosingType ==
  [kind : {"none", "disconnect", "delete"}, conn : Connections \cup {None},
   step : {"new", "wait", "remove", "done"}, proc : Procs \cup {None}]

\* The parts of the type invariant.
LEMMA Types ==
  ASSUME TypeOK
  PROVE  /\ tunnels \in [Connections -> Procs \cup {None}]
         /\ ssh \in [Procs -> SshType]
         /\ opening \in [Connections -> OpeningType]
         /\ closing \in [Closes -> ClosingType]
BY DEF TypeOK, SshType, OpeningType, ClosingType, Steps

\* Processes and None are told apart.
LEMMA NoneIsNoProc == None \notin Procs
BY BoundsAssumption DEF None, Procs

LEMMA InvInit == Init => Inv
<1> SUFFICES ASSUME Init PROVE Inv OBVIOUS
<1>1. TypeOK BY BoundsAssumption DEF Init, TypeOK, New, NoOpening, None
<1>2. NoOrphan /\ NoStrayTunnel /\ StartedOK /\ ClosedOK /\ OwnOK /\ RemovedOK
  BY DEF Init, NoOrphan, NoStrayTunnel, StartedOK, ClosedOK, OwnOK, RemovedOK, New, NoOpening
<1> QED BY <1>1, <1>2 DEF Inv

----
\* What the steps on ssh processes do.

\* A signal changes no connection, revives nothing, and leaves nothing running it was sent to.
LEMMA Signalled ==
  ASSUME TypeOK, NEW ps, ssh' = SignalTo(ps)
  PROVE  /\ ssh' \in [Procs -> SshType]
         /\ \A p \in Procs :
              /\ ssh'[p].conn = ssh[p].conn
              /\ ssh'[p].st = "none" <=> ssh[p].st = "none"
              /\ ssh'[p].st = "running" => ssh[p].st = "running" /\ p \notin ps
<1> USE DEF SshType
<1>1. ssh \in [Procs -> SshType] BY Types
<1> QED BY <1>1 DEF SignalTo

\* A process that is seen to end, or that is killed, is gone, and the others stay.
LEMMA ProcGone ==
  ASSUME TypeOK, NEW p, Closed(p)
  PROVE  /\ ssh' \in [Procs -> SshType]
         /\ \A q \in Procs : q # p => ssh'[q] = ssh[q]
         /\ p \in Procs => ssh'[p].st = "gone" /\ ssh'[p].conn = None
<1>1. ssh \in [Procs -> SshType] BY Types
<1>2. Gone \in SshType BY DEF Gone, SshType
<1> QED BY <1>1, <1>2 DEF Closed, Gone

\* A step that starts no process and registers none keeps what is said of processes.
LEMMA ProcsKept ==
  ASSUME Inv, ssh' \in [Procs -> SshType],
         \A p \in Procs :
           \/ ssh'[p].conn = ssh[p].conn /\ (ssh'[p].st = "none" <=> ssh[p].st = "none")
              /\ (ssh'[p].st = "running" => ssh[p].st = "running")
           \/ ssh'[p].conn = None /\ ssh'[p].st = "gone",
         tunnels' \in [Connections -> Procs \cup {None}],
         \A c \in Connections : tunnels'[c] \in {tunnels[c], None},
         \A c \in Connections, p \in Procs :
           tunnels[c] = p /\ tunnels'[c] # p => ssh'[p].st # "running"
  PROVE  /\ NoOrphan' /\ StartedOK'
         /\ \A c \in Connections : tunnels'[c] # None => ssh'[tunnels'[c]].conn \in {c, None}
<1>1. \A c \in Connections : tunnels[c] # None => tunnels[c] \in Procs
  BY Types DEF Inv
<1>2. NoOrphan' BY DEF Inv, NoOrphan
<1>3. StartedOK' BY <1>1 DEF Inv, StartedOK
<1>4. \A c \in Connections : tunnels'[c] # None => ssh'[tunnels'[c]].conn \in {c, None}
  BY <1>1 DEF Inv, TypeOK
<1> QED BY <1>2, <1>3, <1>4

\* closeDeviceConnectionTunnel.
LEMMA TunnelClosed ==
  ASSUME Inv, NEW c \in Connections, CloseTunnel(c)
  PROVE  /\ tunnels' \in [Connections -> Procs \cup {None}]
         /\ ssh' \in [Procs -> SshType]
         /\ tunnels'[c] = None
         /\ \A d \in Connections : d # c => tunnels'[d] = tunnels[d]
         /\ NoOrphan' /\ StartedOK'
         /\ \A d \in Connections : tunnels'[d] # None => ssh'[tunnels'[d]].conn \in {d, None}
<1>1. tunnels \in [Connections -> Procs \cup {None}] BY Types DEF Inv
<1>2. /\ tunnels' \in [Connections -> Procs \cup {None}]
      /\ tunnels'[c] = None
      /\ \A d \in Connections : d # c => tunnels'[d] = tunnels[d]
  BY <1>1 DEF CloseTunnel
<1>3. /\ ssh' \in [Procs -> SshType]
      /\ \A p \in Procs :
           /\ ssh'[p].conn = ssh[p].conn
           /\ ssh'[p].st = "none" <=> ssh[p].st = "none"
           /\ ssh'[p].st = "running" => ssh[p].st = "running" /\ p \notin {tunnels[c]}
  BY Signalled DEF Inv, CloseTunnel
<1> HIDE DEF Inv
<1> QED BY <1>2, <1>3, ProcsKept

----
\* The steps of operations.

\* A process is started for a connection that has none that lives.
LEMMA Spawned ==
  ASSUME Inv, NEW c \in Connections, NEW p \in Procs, Spawn(c, p),
         \A q \in Procs : q = tunnels[c] => ssh[q].st # "running",
         UNCHANGED <<created, stored, closing, exits>>
  PROVE  Inv'
<1>1. /\ tunnels \in [Connections -> Procs \cup {None}] /\ ssh \in [Procs -> SshType]
      /\ opening \in [Connections -> OpeningType]
  BY Types DEF Inv
<1>2. /\ ssh[p].st = "none"
      /\ ssh' = [ssh EXCEPT ![p] = [conn |-> c, st |-> "running"]]
      /\ tunnels' = [tunnels EXCEPT ![c] = p]
  BY DEF Spawn, Procs
<1> DEFINE next == [step |-> "connect", proc |-> p,
                    before |-> {k \in Closes : closing[k].step \in {"wait", "remove"}}]
<1>3. opening' = [opening EXCEPT ![c] = next] BY DEF Spawn
<1>4. next \in OpeningType /\ next.step = "connect" /\ next.proc = p
      /\ \A k \in Closes : closing[k].step \in {"wait", "remove"} => k \in next.before
  BY DEF OpeningType, Steps
<1> HIDE DEF next
<1>5. ssh' \in [Procs -> SshType] /\ tunnels' \in [Connections -> Procs \cup {None}]
      /\ opening' \in [Connections -> OpeningType]
  BY <1>1, <1>2, <1>3, <1>4 DEF SshType
<1>6. /\ tunnels'[c] = p /\ ssh'[p].conn = c /\ ssh'[p].st = "running"
      /\ \A q \in Procs : q # p => ssh'[q] = ssh[q]
      /\ \A d \in Connections : d # c => tunnels'[d] = tunnels[d] /\ opening'[d] = opening[d]
      /\ opening'[c] = next
  BY <1>1, <1>2, <1>3
<1>7. \A d \in Connections : tunnels[d] # None => tunnels[d] \in Procs /\ tunnels[d] # p
  BY <1>1, <1>2 DEF Inv, StartedOK
<1>8. TypeOK'
  <2>1. \A d \in Connections : tunnels'[d] # None => ssh'[tunnels'[d]].conn \in {d, None}
    BY <1>6, <1>7 DEF Inv, TypeOK
  <2>2. \A d \in Connections :
          opening'[d].step \in {"connect", "probe", "persist", "reclose", "giveup"} =>
            opening'[d].proc # None
    BY <1>4, <1>6, NoneIsNoProc DEF Inv, TypeOK
  <2> QED BY <1>5, <2>1, <2>2 DEF Inv, TypeOK, SshType, OpeningType, Steps
<1>9. NoOrphan' BY <1>6, <1>7 DEF Inv, NoOrphan
<1>10. NoStrayTunnel' /\ ClosedOK' /\ OwnOK'
  BY <1>4, <1>6 DEF Inv, NoStrayTunnel, ClosedOK, OwnOK
<1>11. StartedOK' BY <1>6, <1>7 DEF Inv, StartedOK
<1>12. RemovedOK' BY <1>4, <1>6 DEF Inv, RemovedOK
<1> QED BY <1>8, <1>9, <1>10, <1>11, <1>12 DEF Inv

\* An operation goes on with another step and leaves the tunnel and the processes alone.
LEMMA OpeningOn ==
  ASSUME Inv, NEW c \in Connections, NEW next \in OpeningType,
         opening' = [opening EXCEPT ![c] = next],
         UNCHANGED <<created, stored, tunnels, ssh, closing, exits>>,
         next.step \in {"none", "reprobe", "probe", "persist"},
         next.step \in {"probe", "persist"} =>
           next.proc = opening[c].proc /\ opening[c].step \in {"connect", "probe"},
         c \in stored \/ opening[c].step # "persist",
         opening[c].step = "connect" => \A k \in opening[c].before : closing[k].step = "done",
         opening[c].step \in {"none", "reprobe", "connect", "probe", "persist"},
         next.step \in {"none", "reprobe"} => opening[c].step \notin {"connect", "probe"}
  PROVE  Inv'
<1>1. opening \in [Connections -> OpeningType] BY Types DEF Inv
<1>2. /\ opening' \in [Connections -> OpeningType]
      /\ opening'[c] = next
      /\ \A d \in Connections : d # c => opening'[d] = opening[d]
  BY <1>1
<1>3. TypeOK'
  <2>1. \A d \in Connections :
          opening'[d].step \in {"connect", "probe", "persist", "reclose", "giveup"} =>
            opening'[d].proc # None
    BY <1>2 DEF Inv, TypeOK
  <2> QED BY <1>2, <2>1 DEF Inv, TypeOK, OpeningType, Steps
<1>4. NoOrphan' /\ StartedOK' BY DEF Inv, NoOrphan, StartedOK
<1>5. NoStrayTunnel' BY <1>2 DEF Inv, NoStrayTunnel
<1>6. ClosedOK' /\ OwnOK' BY <1>2 DEF Inv, ClosedOK, OwnOK
<1>7. RemovedOK'
  <2> SUFFICES ASSUME NEW k \in Closes,
                      closing[k].step = "remove" \/ (closing[k].step = "wait" /\ closing[k].kind = "delete"),
                      closing[k].conn = c, tunnels[c] # None
               PROVE  FALSE
    BY <1>2 DEF Inv, RemovedOK
  <2> QED BY DEF Inv, RemovedOK
<1> QED BY <1>3, <1>4, <1>5, <1>6, <1>7 DEF Inv

\* An operation closes its tunnel, and then waits, tries again, or ends.
LEMMA OpeningCloses ==
  ASSUME Inv, NEW c \in Connections, CloseTunnel(c), NEW next \in OpeningType,
         opening' = [opening EXCEPT ![c] = next],
         next.step \in {"none", "reclose", "respawn", "giveup"},
         next.step \in {"reclose", "giveup"} => next.proc # None,
         UNCHANGED <<created, stored, closing, exits>>
  PROVE  Inv'
<1>1. opening \in [Connections -> OpeningType] BY Types DEF Inv
<1>2. /\ opening' \in [Connections -> OpeningType]
      /\ opening'[c] = next
      /\ \A d \in Connections : d # c => opening'[d] = opening[d]
  BY <1>1
<1>3. /\ tunnels' \in [Connections -> Procs \cup {None}] /\ ssh' \in [Procs -> SshType]
      /\ tunnels'[c] = None
      /\ \A d \in Connections : d # c => tunnels'[d] = tunnels[d]
      /\ NoOrphan' /\ StartedOK'
      /\ \A d \in Connections : tunnels'[d] # None => ssh'[tunnels'[d]].conn \in {d, None}
  BY TunnelClosed
<1>4. TypeOK'
  <2>1. \A d \in Connections :
          opening'[d].step \in {"connect", "probe", "persist", "reclose", "giveup"} =>
            opening'[d].proc # None
    BY <1>2 DEF Inv, TypeOK
  <2> QED BY <1>2, <1>3, <2>1 DEF Inv, TypeOK, OpeningType, Steps, SshType
<1>5. NoStrayTunnel' /\ ClosedOK' /\ OwnOK' /\ RemovedOK'
  BY <1>2, <1>3 DEF Inv, NoStrayTunnel, ClosedOK, OwnOK, RemovedOK
<1> QED BY <1>3, <1>4, <1>5 DEF Inv

\* A process that an operation or a request has waited for is gone.
LEMMA WaitEnds ==
  ASSUME Inv, NEW p, Closed(p), tunnels' = tunnels
  PROVE  /\ ssh' \in [Procs -> SshType] /\ NoOrphan' /\ StartedOK'
         /\ \A d \in Connections : tunnels'[d] # None => ssh'[tunnels'[d]].conn \in {d, None}
<1>1. /\ ssh' \in [Procs -> SshType]
      /\ \A q \in Procs : q # p => ssh'[q] = ssh[q]
      /\ p \in Procs => ssh'[p].st = "gone" /\ ssh'[p].conn = None
  BY ProcGone DEF Inv
<1>2. tunnels \in [Connections -> Procs \cup {None}] BY Types DEF Inv
<1> HIDE DEF Inv
<1> QED BY <1>1, <1>2, ProcsKept

LEMMA OpeningWaited ==
  ASSUME Inv, NEW c \in Connections, Closed(opening[c].proc),
         NEW step \in {"none", "respawn"},
         opening' = [opening EXCEPT ![c] = [NoOpening EXCEPT !.step = step]],
         opening[c].step = IF step = "none" THEN "giveup" ELSE "reclose",
         UNCHANGED <<created, stored, tunnels, closing, exits>>
  PROVE  Inv'
<1>1. opening \in [Connections -> OpeningType] BY Types DEF Inv
<1> DEFINE next == [NoOpening EXCEPT !.step = step]
<1>2. next \in OpeningType /\ next.step = step BY DEF NoOpening, OpeningType, Steps
<1> HIDE DEF next
<1>3. /\ opening' \in [Connections -> OpeningType]
      /\ opening'[c] = next
      /\ \A d \in Connections : d # c => opening'[d] = opening[d]
  BY <1>1, <1>2 DEF next
<1>4. /\ ssh' \in [Procs -> SshType] /\ NoOrphan' /\ StartedOK'
      /\ \A d \in Connections : tunnels'[d] # None => ssh'[tunnels'[d]].conn \in {d, None}
  BY WaitEnds
<1>5. TypeOK'
  <2>1. \A d \in Connections :
          opening'[d].step \in {"connect", "probe", "persist", "reclose", "giveup"} =>
            opening'[d].proc # None
    BY <1>2, <1>3 DEF Inv, TypeOK
  <2> QED BY <1>3, <1>4, <2>1 DEF Inv, TypeOK, OpeningType, Steps, SshType
<1>6. NoStrayTunnel' /\ ClosedOK' /\ OwnOK' /\ RemovedOK'
  BY <1>2, <1>3 DEF Inv, NoStrayTunnel, ClosedOK, OwnOK, RemovedOK
<1> QED BY <1>4, <1>5, <1>6 DEF Inv

----
\* One lemma for the steps of operations, one for those of requests, one for the others.

LEMMA GoInv ==
  ASSUME Inv, NEW c \in Connections, Go(c)
  PROVE  Inv'
<1>1. opening \in [Connections -> OpeningType] /\ tunnels \in [Connections -> Procs \cup {None}]
  BY Types DEF Inv
<1>2. CASE ReprobeOk(c)
  BY <1>1, <1>2, OpeningOn DEF ReprobeOk, NoOpening, OpeningType, Steps
<1>3. CASE ReprobeFails(c)
  <2> DEFINE next == [NoOpening EXCEPT
                        !.step = IF tunnels[c] = None THEN "respawn" ELSE "reclose",
                        !.proc = tunnels[c]]
  <2>1. next \in OpeningType /\ next.step \in {"reclose", "respawn"}
        /\ (next.step = "reclose" => next.proc # None)
    BY <1>1 DEF NoOpening, OpeningType, Steps
  <2>2. /\ CloseTunnel(c) /\ opening' = [opening EXCEPT ![c] = next]
        /\ UNCHANGED <<created, stored, closing, exits>>
    BY <1>3 DEF ReprobeFails
  <2> HIDE DEF next
  <2> QED BY <2>1, <2>2, OpeningCloses
<1>4. CASE Reclosed(c)
  BY <1>4, OpeningWaited DEF Reclosed
<1>5. ASSUME NEW p \in Procs, Respawn(c, p) PROVE Inv'
  <2>1. tunnels[c] = None BY <1>5 DEF Respawn, Inv, ClosedOK
  <2> QED BY <1>5, <2>1, NoneIsNoProc, Spawned DEF Respawn
<1>6. CASE ConnectFails(c)
  <2>1. tunnels[c] \in {None, opening[c].proc} BY <1>6 DEF ConnectFails, Inv, OwnOK
  <2>2. /\ tunnels' \in [Connections -> Procs \cup {None}]
        /\ tunnels'[c] = None
        /\ \A d \in Connections : d # c => tunnels'[d] = tunnels[d]
    BY <1>1, <1>6, <2>1 DEF ConnectFails
  <2>3. /\ opening' \in [Connections -> OpeningType]
        /\ opening'[c].step = "none"
        /\ \A d \in Connections : d # c => opening'[d] = opening[d]
    BY <1>1, <1>6 DEF ConnectFails, NoOpening, OpeningType, Steps
  <2>4. ssh' = ssh /\ ssh' \in [Procs -> SshType] BY <1>6, Types DEF ConnectFails, Inv
  <2>5. \A d \in Connections, p \in Procs :
          tunnels[d] = p /\ tunnels'[d] # p => ssh'[p].st # "running"
    BY <1>6, <2>1, <2>2, <2>4, NoneIsNoProc DEF ConnectFails
  <2>6. /\ NoOrphan' /\ StartedOK'
        /\ \A d \in Connections : tunnels'[d] # None => ssh'[tunnels'[d]].conn \in {d, None}
    <3> HIDE DEF Inv
    <3> QED BY <2>2, <2>4, <2>5, ProcsKept
  <2>7. TypeOK'
    <3>1. \A d \in Connections :
            opening'[d].step \in {"connect", "probe", "persist", "reclose", "giveup"} =>
              opening'[d].proc # None
      BY <2>3 DEF Inv, TypeOK
    <3> QED BY <1>6, <2>2, <2>3, <2>4, <2>6, <3>1
        DEF ConnectFails, Inv, TypeOK, OpeningType, Steps, SshType
  <2>8. NoStrayTunnel' /\ ClosedOK' /\ OwnOK' /\ RemovedOK'
    BY <1>6, <2>2, <2>3
       DEF ConnectFails, Inv, NoStrayTunnel, ClosedOK, OwnOK, RemovedOK
  <2> QED BY <2>6, <2>7, <2>8 DEF Inv
<1>7. CASE Connected(c) \/ ProbeOk(c)
  <2> DEFINE step == IF opening[c].step = "connect" THEN "probe" ELSE "persist"
             next == [opening[c] EXCEPT !.step = step]
  <2>1. next \in OpeningType /\ next.step \in {"probe", "persist"} /\ next.proc = opening[c].proc
    BY <1>1 DEF OpeningType, Steps
  <2>2. opening' = [opening EXCEPT ![c] = next]
        /\ UNCHANGED <<created, stored, tunnels, ssh, closing, exits>>
        /\ opening[c].step \in {"connect", "probe"}
    BY <1>1, <1>7 DEF Connected, ProbeOk
  <2>3. opening[c].step = "connect" => \A k \in opening[c].before : closing[k].step = "done"
    BY <1>7 DEF Connected, ProbeOk
  <2> HIDE DEF next
  <2> QED BY <2>1, <2>2, <2>3, OpeningOn
<1>8. CASE ProbeFails(c) \/ PersistFails(c)
  <2> DEFINE next == IF tunnels[c] = None THEN NoOpening
                     ELSE [opening[c] EXCEPT !.step = "giveup", !.proc = tunnels[c]]
  <2>1. next \in OpeningType /\ next.step \in {"none", "giveup"}
        /\ (next.step = "giveup" => next.proc # None)
    BY <1>1 DEF NoOpening, OpeningType, Steps
  <2>2. /\ CloseTunnel(c) /\ opening' = [opening EXCEPT ![c] = next]
        /\ UNCHANGED <<created, stored, closing, exits>>
    BY <1>8 DEF ProbeFails, PersistFails, GiveUp
  <2> HIDE DEF next
  <2> QED BY <2>1, <2>2, OpeningCloses
<1>9. CASE Persist(c)
  BY <1>1, <1>9, OpeningOn DEF Persist, NoOpening, OpeningType, Steps
<1>10. CASE GivenUp(c)
  <2>1. NoOpening = [NoOpening EXCEPT !.step = "none"] BY DEF NoOpening
  <2> QED BY <1>10, <2>1, OpeningWaited DEF GivenUp
<1> QED
  BY <1>2, <1>3, <1>4, <1>5, <1>6, <1>7, <1>8, <1>9, <1>10 DEF Go

\* What is left of a request once its tunnel is closed is a removal only for a delete.
LEMMA AfterOK ==
  ASSUME NEW kind \in {"disconnect", "delete"}, NEW c \in Connections
  PROVE  /\ After(kind, c) \in ClosingType
         /\ After(kind, c).step \in {"remove", "done"}
         /\ After(kind, c).step = "remove" => kind = "delete" /\ After(kind, c).conn = c
BY DEF After, Done, New, ClosingType

LEMMA CloseInv ==
  ASSUME Inv, NEW k \in Closes, NEW kind \in {"disconnect", "delete"}, NEW c \in Connections,
         Close(k, kind, c)
  PROVE  Inv'
<1>1. closing \in [Closes -> ClosingType] /\ tunnels \in [Connections -> Procs \cup {None}]
  BY Types DEF Inv
<1> DEFINE next == IF tunnels[c] # None
                   THEN [kind |-> kind, conn |-> c, proc |-> tunnels[c], step |-> "wait"]
                   ELSE After(kind, c)
<1>2. next \in ClosingType /\ (next.step \in {"wait", "remove"} => next.conn = c)
  BY <1>1, AfterOK DEF ClosingType
<1>3. CloseTunnel(c) /\ closing' = [closing EXCEPT ![k] = next]
      /\ UNCHANGED <<created, stored, opening, exits>>
  BY DEF Close
<1> HIDE DEF next
<1>4. /\ closing' \in [Closes -> ClosingType] /\ closing'[k] = next
      /\ \A l \in Closes : l # k => closing'[l] = closing[l]
  BY <1>1, <1>2, <1>3
<1>5. /\ tunnels' \in [Connections -> Procs \cup {None}] /\ ssh' \in [Procs -> SshType]
      /\ tunnels'[c] = None
      /\ \A d \in Connections : d # c => tunnels'[d] = tunnels[d]
      /\ NoOrphan' /\ StartedOK'
      /\ \A d \in Connections : tunnels'[d] # None => ssh'[tunnels'[d]].conn \in {d, None}
  BY <1>3, TunnelClosed
<1>6. TypeOK' BY <1>3, <1>4, <1>5 DEF Inv, TypeOK, ClosingType, SshType
<1>7. NoStrayTunnel' /\ ClosedOK' /\ OwnOK'
  BY <1>3, <1>5 DEF Inv, NoStrayTunnel, ClosedOK, OwnOK
<1>8. RemovedOK'
  <2> SUFFICES ASSUME NEW l \in Closes, NEW d \in Connections,
                      closing'[l].step = "remove" \/ (closing'[l].step = "wait" /\ closing'[l].kind = "delete"),
                      closing'[l].conn = d, tunnels'[d] # None
               PROVE  opening'[d].step = "connect" /\ l \in opening'[d].before
    BY DEF RemovedOK
  <2>1. d # c BY <1>5
  <2>2. l # k BY <1>2, <1>4, <2>1
  <2> QED BY <1>3, <1>4, <1>5, <2>1, <2>2 DEF Inv, RemovedOK
<1> QED BY <1>5, <1>6, <1>7, <1>8 DEF Inv

\* A request that goes on.
LEMMA RequestInv ==
  ASSUME Inv, NEW k \in Closes, Waited(k) \/ Remove(k)
  PROVE  Inv'
<1>1. closing \in [Closes -> ClosingType] /\ opening \in [Connections -> OpeningType]
  BY Types DEF Inv
<1>2. CASE Waited(k)
  <2> DEFINE next == After(closing[k].kind, closing[k].conn)
  <2>1. /\ next \in ClosingType /\ next.step \in {"remove", "done"}
        /\ next.step = "remove" => closing[k].kind = "delete" /\ next.conn = closing[k].conn
    BY <1>1 DEF After, Done, New, ClosingType
  <2>2. closing' = [closing EXCEPT ![k] = next] /\ closing[k].step = "wait"
        /\ UNCHANGED <<created, stored, tunnels, opening, exits>>
    BY <1>2 DEF Waited
  <2> HIDE DEF next
  <2>3. /\ closing' \in [Closes -> ClosingType] /\ closing'[k] = next
        /\ \A l \in Closes : l # k => closing'[l] = closing[l]
    BY <1>1, <2>1, <2>2
  <2>4. /\ ssh' \in [Procs -> SshType] /\ NoOrphan' /\ StartedOK'
        /\ \A d \in Connections : tunnels'[d] # None => ssh'[tunnels'[d]].conn \in {d, None}
    BY <1>2, WaitEnds DEF Waited
  <2>5. TypeOK' BY <2>2, <2>3, <2>4 DEF Inv, TypeOK, ClosingType, SshType
  <2>6. NoStrayTunnel' /\ ClosedOK' /\ OwnOK'
    BY <2>2 DEF Inv, NoStrayTunnel, ClosedOK, OwnOK
  <2>7. RemovedOK' BY <2>1, <2>2, <2>3 DEF Inv, RemovedOK
  <2> QED BY <2>4, <2>5, <2>6, <2>7 DEF Inv
<1>3. CASE Remove(k)
  <2>1. /\ closing[k].step = "remove" /\ closing' = [closing EXCEPT ![k] = Done]
        /\ stored' = stored \ {closing[k].conn} \/ stored' = stored
        /\ UNCHANGED <<created, tunnels, ssh, opening, exits>>
    BY <1>3 DEF Remove
  <2>2. Done \in ClosingType /\ Done.step = "done" BY DEF Done, New, ClosingType
  <2>3. /\ closing' \in [Closes -> ClosingType] /\ closing'[k].step = "done"
        /\ \A l \in Closes : l # k => closing'[l] = closing[l]
    BY <1>1, <2>1, <2>2
  <2>4. TypeOK' BY <2>1, <2>3 DEF Inv, TypeOK, ClosingType
  <2>5. NoOrphan' /\ StartedOK' /\ ClosedOK' /\ OwnOK'
    BY <2>1 DEF Inv, NoOrphan, StartedOK, ClosedOK, OwnOK
  <2>6. NoStrayTunnel'
    BY <2>1 DEF Inv, NoStrayTunnel, RemovedOK
  <2>7. RemovedOK' BY <2>1, <2>3 DEF Inv, RemovedOK
  <2> QED BY <2>4, <2>5, <2>6, <2>7 DEF Inv
<1> QED BY <1>2, <1>3

LEMMA EndsInv ==
  ASSUME Inv, NEW p \in Procs, SshEnds(p)
  PROVE  Inv'
<1>1. Closed(p)
  <2>1. ssh \in [Procs -> SshType] BY Types DEF Inv
  <2> QED BY <2>1 DEF SshEnds, Closed
<1>2. UNCHANGED <<created, stored, tunnels, opening, closing, exits>> BY DEF SshEnds
<1>3. /\ ssh' \in [Procs -> SshType] /\ NoOrphan' /\ StartedOK'
      /\ \A d \in Connections : tunnels'[d] # None => ssh'[tunnels'[d]].conn \in {d, None}
  BY <1>1, <1>2, WaitEnds
<1>4. TypeOK' BY <1>2, <1>3 DEF Inv, TypeOK, SshType
<1>5. NoStrayTunnel' /\ ClosedOK' /\ OwnOK' /\ RemovedOK'
  BY <1>2 DEF Inv, NoStrayTunnel, ClosedOK, OwnOK, RemovedOK
<1> QED BY <1>3, <1>4, <1>5 DEF Inv

\* The exit of the web process closes every tunnel and ends every operation and request.
LEMMA ExitInv ==
  ASSUME Inv, Exit
  PROVE  Inv'
<1>1. closing \in [Closes -> ClosingType] /\ tunnels \in [Connections -> Procs \cup {None}]
  BY Types DEF Inv
<1>2. /\ tunnels' = [c \in Connections |-> None]
      /\ opening' = [c \in Connections |-> NoOpening]
      /\ ssh' = SignalTo({tunnels[c] : c \in Connections})
      /\ closing' = [k \in Closes |-> IF closing[k].step = "new" THEN closing[k] ELSE Done]
      /\ exits' = exits + 1 /\ exits < MaxExits /\ UNCHANGED <<created, stored>>
  BY DEF Exit
<1>3. /\ ssh' \in [Procs -> SshType]
      /\ \A p \in Procs :
           /\ ssh'[p].conn = ssh[p].conn
           /\ ssh'[p].st = "none" <=> ssh[p].st = "none"
           /\ ssh'[p].st = "running" => ssh[p].st = "running" /\ p \notin {tunnels[c] : c \in Connections}
  BY <1>2, Signalled DEF Inv
<1>4. NoOrphan' BY <1>3 DEF Inv, NoOrphan
<1>5. closing' \in [Closes -> ClosingType] /\ \A k \in Closes : closing'[k].step \in {"new", "done"}
  BY <1>1, <1>2 DEF Done, New, ClosingType
<1>6. opening' \in [Connections -> OpeningType] /\ \A c \in Connections : opening'[c].step = "none"
  BY <1>2 DEF NoOpening, OpeningType, Steps
<1>7. exits' \in 0..MaxExits BY <1>2, BoundsAssumption DEF Inv, TypeOK
<1>8. TypeOK'
  BY <1>2, <1>3, <1>5, <1>6, <1>7 DEF Inv, TypeOK, ClosingType, OpeningType, Steps, SshType
<1>9. NoStrayTunnel' /\ StartedOK' /\ ClosedOK' /\ OwnOK' /\ RemovedOK'
  BY <1>2, <1>5, <1>6 DEF Inv, NoStrayTunnel, StartedOK, ClosedOK, OwnOK, RemovedOK
<1> QED BY <1>4, <1>8, <1>9 DEF Inv

\* A connection is created, or the next operation on one is begun.
LEMMA BeginInv ==
  ASSUME Inv, NEW c \in Connections,
         Create(c) \/ Reopen(c) \/ \E p \in Procs : Open(c, p)
  PROVE  Inv'
<1>1. CASE Create(c)
  BY <1>1 DEF Create, Inv, TypeOK, NoOrphan, NoStrayTunnel, StartedOK, ClosedOK, OwnOK, RemovedOK
<1>2. CASE Reopen(c)
  <2>1. [NoOpening EXCEPT !.step = "reprobe"] \in OpeningType BY DEF NoOpening, OpeningType, Steps
  <2> QED BY <1>2, <2>1, OpeningOn DEF Reopen, NoOpening
<1>3. ASSUME NEW p \in Procs, Open(c, p) PROVE Inv'
  <2>1. \A q \in Procs : q = tunnels[c] => ssh[q].st # "running" BY <1>3 DEF Open, Alive
  <2> QED BY <1>3, <2>1, Spawned DEF Open
<1> QED BY <1>1, <1>2, <1>3

LEMMA InvNext == Inv /\ [Next]_vars => Inv'
<1> SUFFICES ASSUME Inv, [Next]_vars PROVE Inv' OBVIOUS
<1>1. CASE Next
  BY <1>1, GoInv, CloseInv, RequestInv, EndsInv, ExitInv, BeginInv DEF Next
<1>2. CASE UNCHANGED vars
  BY <1>2 DEF vars, Inv, TypeOK, NoOrphan, NoStrayTunnel, StartedOK, ClosedOK, OwnOK, RemovedOK, Alive
<1> QED BY <1>1, <1>2

----
\* The theorems.

LEMMA InvHolds == Spec => []Inv
<1> QED BY InvInit, InvNext, PTL DEF Spec

\* Every variable of the tunnel manager holds what the code stores there.
THEOREM TunnelTypeCorrect == Spec => []TypeOK
<1>1. Inv => TypeOK BY DEF Inv
<1> QED BY <1>1, InvHolds, PTL

\* No ssh process is left behind by requests to connect, disconnect and delete that meet: each
\* that nobody has told to end can still be closed.
THEOREM ProcessesAreHeld == Spec => []NoOrphan
<1>1. Inv => NoOrphan BY DEF Inv
<1> QED BY <1>1, InvHolds, PTL

\* A deleted connection has a tunnel only while the operation that opened it is under way.
THEOREM DeletedIsClosed == Spec => []NoStrayTunnel
<1>1. Inv => NoStrayTunnel BY DEF Inv
<1> QED BY <1>1, InvHolds, PTL

----
\* Why every operation that opens a tunnel ends, as far as it is safety.

\* How many steps an operation that opens a tunnel may still take.
StepsLeft(step) ==
  CASE step = "reprobe" -> 7
    [] step = "reclose" -> 6
    [] step = "respawn" -> 5
    [] step = "connect" -> 4
    [] step = "probe" -> 3
    [] step = "persist" -> 2
    [] step = "giveup" -> 1
    [] OTHER -> 0

Left(c) == StepsLeft(opening[c].step)

\* What an operation has to wait for: its process was started, and the requests that were
\* under way when it started have not been taken back.
WaitOK ==
  \A c \in Connections :
    opening[c].step = "connect" =>
      /\ ssh[opening[c].proc].st # "none"
      /\ \A k \in opening[c].before : closing[k].step # "new"

\* An operation that can take a step (the guards of Go; Spare has left a process to a
\* respawn), or that waits for a request which can.
GoesOn(c) ==
  \/ opening[c].step # "connect"
  \/ ssh[opening[c].proc].st = "gone"
  \/ Alive(opening[c].proc) /\ \A k \in opening[c].before : closing[k].step = "done"
  \/ \E k \in opening[c].before : closing[k].step \in {"wait", "remove"}

LEMMA LeftIsNat == \A step : StepsLeft(step) \in 0..7
BY DEF StepsLeft

\* Where an operation goes that closes its tunnel.
LEMMA RetryOn ==
  ASSUME Inv, NEW c \in Connections, ReprobeFails(c) \/ Reclosed(c)
  PROVE  /\ \/ opening[c].step = "reprobe" /\ opening'[c].step \in {"reclose", "respawn"}
            \/ opening[c].step = "reclose" /\ opening'[c].step = "respawn"
         /\ \A d \in Connections : d # c => opening'[d] = opening[d]
<1>1. opening \in [Connections -> OpeningType] BY Types DEF Inv
<1>2. CASE ReprobeFails(c)
  <2> DEFINE next == [NoOpening EXCEPT
                        !.step = IF tunnels[c] = None THEN "respawn" ELSE "reclose",
                        !.proc = tunnels[c]]
  <2>1. next.step \in {"reclose", "respawn"} BY DEF NoOpening
  <2>2. opening[c].step = "reprobe" /\ opening' = [opening EXCEPT ![c] = next]
    BY <1>2 DEF ReprobeFails
  <2> HIDE DEF next
  <2> QED BY <1>1, <2>1, <2>2
<1>3. CASE Reclosed(c) BY <1>1, <1>3 DEF Reclosed, NoOpening
<1> QED BY <1>2, <1>3

LEMMA GivenUpOn ==
  ASSUME Inv, NEW c \in Connections, ProbeFails(c) \/ PersistFails(c)
  PROVE  /\ opening'[c].step \in {"none", "giveup"}
         /\ \A d \in Connections : d # c => opening'[d] = opening[d]
<1> DEFINE next == IF tunnels[c] = None THEN NoOpening
                   ELSE [opening[c] EXCEPT !.step = "giveup", !.proc = tunnels[c]]
<1>1. opening \in [Connections -> OpeningType] BY Types DEF Inv
<1>2. next.step \in {"none", "giveup"} BY <1>1 DEF NoOpening, OpeningType
<1>3. opening' = [opening EXCEPT ![c] = next] BY DEF ProbeFails, PersistFails, GiveUp
<1> HIDE DEF next
<1> QED BY <1>1, <1>2, <1>3

\* What a step does to the operations, one by one.
LEMMA OpeningMoves ==
  ASSUME Inv, NEW c \in Connections, Go(c)
  PROVE  /\ Left(c)' < Left(c)
         /\ \A d \in Connections : d # c => opening'[d] = opening[d]
<1>1. opening \in [Connections -> OpeningType] BY Types DEF Inv
<1>2. CASE ReprobeOk(c) \/ ConnectFails(c) \/ Persist(c) \/ GivenUp(c)
  BY <1>1, <1>2 DEF ReprobeOk, ConnectFails, Persist, GivenUp, NoOpening, Left, StepsLeft
<1>3. CASE ReprobeFails(c) \/ Reclosed(c)
  BY <1>3, RetryOn DEF Left, StepsLeft
<1>4. CASE \E p \in Procs : Respawn(c, p)
  BY <1>1, <1>4 DEF Respawn, Spawn, Left, StepsLeft
<1>5. CASE Connected(c) \/ ProbeOk(c)
  BY <1>1, <1>5 DEF Connected, ProbeOk, OpeningType, Left, StepsLeft
<1>6. CASE ProbeFails(c) \/ PersistFails(c)
  <2>1. opening[c].step \in {"probe", "persist"} BY <1>6 DEF ProbeFails, PersistFails
  <2> QED BY <1>6, <2>1, GivenUpOn DEF Left, StepsLeft
<1> QED BY <1>2, <1>3, <1>4, <1>5, <1>6 DEF Go

\* Every step of an operation brings it nearer to its end, at most seven of them, and nothing
\* that happens meanwhile takes it back: neither requests nor processes that end, and an exit
\* ends it.
THEOREM OpensRunOut ==
  Spec => [][\A c \in Connections :
               /\ Go(c) => Left(c)' < Left(c)
               /\ opening[c].step # "none" => Left(c)' <= Left(c)]_vars
<1> DEFINE Down(c) == /\ Go(c) => Left(c)' < Left(c)
                      /\ opening[c].step # "none" => Left(c)' <= Left(c)
<1>1. ASSUME Inv, Next, NEW c \in Connections PROVE Down(c)
  <2>1. opening \in [Connections -> OpeningType] BY <1>1, Types DEF Inv
  <2>2. CASE Go(c)
    <3>1. Left(c)' < Left(c) BY <1>1, <2>2, OpeningMoves
    <3> QED BY <3>1, LeftIsNat DEF Left
  <2>3. ASSUME opening'[c] = opening[c], ~Go(c) PROVE Down(c)
    BY <2>3, LeftIsNat DEF Left
  <2>4. ASSUME opening[c].step = "none", ~Go(c) PROVE Down(c)
    BY <2>4
  <2>5. ASSUME NEW d \in Connections, d # c, Go(d) PROVE opening'[c] = opening[c]
    BY <1>1, <2>5, OpeningMoves
  <2>6. ASSUME NEW d \in Connections, Reopen(d) \/ (\E p \in Procs : Open(d, p))
        PROVE  opening[c].step = "none" \/ opening'[c] = opening[c]
    BY <2>1, <2>6 DEF Reopen, Open, Spawn
  <2>7. CASE Exit
    <3>1. Left(c)' = 0 BY <2>7 DEF Exit, NoOpening, Left, StepsLeft
    <3> QED BY <1>1, <2>2, <3>1, LeftIsNat DEF Left
  <2>8. ASSUME \/ \E d \in Connections : Create(d)
               \/ \E k \in Closes : Waited(k) \/ Remove(k)
               \/ \E k \in Closes, kind \in {"disconnect", "delete"}, d \in Connections : Close(k, kind, d)
               \/ \E p \in Procs : SshEnds(p)
        PROVE  opening'[c] = opening[c]
    BY <2>8 DEF Create, Waited, Remove, Close, SshEnds
  <2> HIDE DEF Down
  <2> QED BY <1>1, <2>2, <2>3, <2>4, <2>5, <2>6, <2>7, <2>8 DEF Next, Down
<1>2. Inv /\ [Next]_vars => [\A c \in Connections : Down(c)]_vars BY <1>1
<1> QED BY <1>2, InvHolds, PTL DEF Spec

LEMMA WaitNext == ASSUME Inv, WaitOK, [Next]_vars PROVE WaitOK'
<1>1. /\ tunnels \in [Connections -> Procs \cup {None}] /\ ssh \in [Procs -> SshType]
      /\ opening \in [Connections -> OpeningType] /\ closing \in [Closes -> ClosingType]
  BY Types DEF Inv
<1>2. \A c \in Connections : opening[c].step = "connect" => opening[c].proc \in Procs
  BY <1>1 DEF Inv, TypeOK, OpeningType
<1>3. \A c \in Connections : opening[c].before \subseteq Closes BY <1>1 DEF OpeningType
<1>4. ASSUME \A p \in Procs : ssh[p].st # "none" => ssh'[p].st # "none",
             \A k \in Closes : closing[k].step # "new" => closing'[k].step # "new",
             \A c \in Connections : opening'[c].step = "connect" => opening'[c] = opening[c]
      PROVE  WaitOK'
  BY <1>2, <1>3, <1>4 DEF WaitOK
<1>5. \A ps : ssh' = SignalTo(ps) => \A p \in Procs : ssh[p].st # "none" => ssh'[p].st # "none"
  BY Signalled DEF Inv
<1>6. \A p : Closed(p) => \A q \in Procs : ssh[q].st # "none" => ssh'[q].st # "none"
  BY DEF Closed, Gone
<1>7. ASSUME NEW c \in Connections, NEW p \in Procs, Spawn(c, p), closing' = closing PROVE WaitOK'
  <2>1. /\ ssh'[p].st = "running" /\ \A q \in Procs : q # p => ssh'[q] = ssh[q]
        /\ opening'[c].proc = p
        /\ \A k \in opening'[c].before : closing[k].step # "new"
        /\ \A d \in Connections : d # c => opening'[d] = opening[d]
    BY <1>1, <1>7 DEF Spawn
  <2>2. \A q \in Procs : ssh[q].st # "none" => ssh'[q].st # "none" BY <2>1
  <2> QED BY <1>2, <1>7, <2>1, <2>2 DEF WaitOK
<1>8. ASSUME NEW c \in Connections, Go(c) PROVE WaitOK'
  <2>1. CASE \E p \in Procs : Respawn(c, p) BY <1>7, <2>1 DEF Respawn
  <2>2. CASE ~\E p \in Procs : Respawn(c, p)
    <3>1. closing' = closing
      BY <1>8, <2>2 DEF Go, ReprobeOk, ReprobeFails, Reclosed, ConnectFails, Connected, ProbeOk,
                        ProbeFails, Persist, PersistFails, GivenUp, GiveUp
    <3>2. \A p \in Procs : ssh[p].st # "none" => ssh'[p].st # "none"
      <4>1. CASE ReprobeFails(c) \/ ProbeFails(c) \/ PersistFails(c)
        BY <1>5, <4>1 DEF ReprobeFails, ProbeFails, PersistFails, GiveUp, CloseTunnel
      <4>2. CASE Reclosed(c) \/ GivenUp(c) BY <1>6, <4>2 DEF Reclosed, GivenUp
      <4>3. CASE ReprobeOk(c) \/ ConnectFails(c) \/ Connected(c) \/ ProbeOk(c) \/ Persist(c)
        BY <4>3 DEF ReprobeOk, ConnectFails, Connected, ProbeOk, Persist
      <4> QED BY <1>8, <2>2, <4>1, <4>2, <4>3 DEF Go
    <3>3. opening'[c].step # "connect"
      <4>1. CASE ReprobeOk(c) \/ ConnectFails(c) \/ Persist(c) \/ GivenUp(c)
        BY <1>1, <4>1 DEF ReprobeOk, ConnectFails, Persist, GivenUp, NoOpening
      <4>2. CASE Connected(c) \/ ProbeOk(c)
        BY <1>1, <4>2 DEF Connected, ProbeOk, OpeningType
      <4>3. CASE ProbeFails(c) \/ PersistFails(c) BY <4>3, GivenUpOn
      <4>4. CASE ReprobeFails(c) \/ Reclosed(c) BY <4>4, RetryOn
      <4> QED BY <1>8, <2>2, <4>1, <4>2, <4>3, <4>4 DEF Go
    <3>4. \A d \in Connections : d # c => opening'[d] = opening[d] BY <1>8, OpeningMoves
    <3>5. \A d \in Connections : opening'[d].step = "connect" => opening'[d] = opening[d]
      BY <3>3, <3>4
    <3> QED BY <1>4, <3>1, <3>2, <3>5
  <2> QED BY <2>1, <2>2
<1>9. ASSUME NEW c \in Connections, Reopen(c) PROVE WaitOK'
  <2>1. \A d \in Connections : opening'[d].step = "connect" => opening'[d] = opening[d]
    BY <1>1, <1>9 DEF Reopen, NoOpening
  <2> QED BY <1>4, <1>9, <2>1 DEF Reopen
<1>10. ASSUME NEW c \in Connections, NEW p \in Procs, Open(c, p) PROVE WaitOK'
  BY <1>7, <1>10 DEF Open
<1>11. ASSUME NEW k \in Closes, Waited(k) \/ Remove(k) PROVE WaitOK'
  <2>1. \A l \in Closes : closing[l].step # "new" => closing'[l].step # "new"
    BY <1>1, <1>11 DEF Waited, Remove, After, Done, New
  <2> QED BY <1>4, <1>6, <1>11, <2>1 DEF Waited, Remove
<1>12. ASSUME NEW k \in Closes, NEW kind \in {"disconnect", "delete"}, NEW c \in Connections,
              Close(k, kind, c)
       PROVE  WaitOK'
  <2>1. \A l \in Closes : closing[l].step # "new" => closing'[l].step # "new"
    BY <1>1, <1>12 DEF Close, After, Done, New
  <2> QED BY <1>4, <1>5, <1>12, <2>1 DEF Close, CloseTunnel
<1>13. ASSUME NEW p \in Procs, SshEnds(p) PROVE WaitOK'
  <2>1. \A q \in Procs : ssh[q].st # "none" => ssh'[q].st # "none"
    BY <1>1, <1>13 DEF SshEnds, Gone
  <2> QED BY <1>4, <1>13, <2>1 DEF SshEnds
<1>14. CASE Exit
  <2>1. \A c \in Connections : opening'[c].step # "connect" BY <1>14 DEF Exit, NoOpening
  <2> QED BY <2>1 DEF WaitOK
<1>15. CASE (\E c \in Connections : Create(c)) \/ UNCHANGED vars
  BY <1>15 DEF Create, vars, WaitOK
<1> QED
  BY <1>8, <1>9, <1>10, <1>11, <1>12, <1>13, <1>14, <1>15 DEF Next

\* No operation is stuck: whichever process ended and whatever was closed meanwhile, it can
\* take a step, or the timer it waits for outlives a close that can take one.
THEOREM OpensGoOn == Spec => [](\A c \in Connections : GoesOn(c))
<1>1. Init => WaitOK BY DEF Init, WaitOK, NoOpening
<1>2. Inv /\ WaitOK => \A c \in Connections : GoesOn(c)
  <2> SUFFICES ASSUME Inv, WaitOK, NEW c \in Connections, opening[c].step = "connect"
               PROVE  GoesOn(c)
    BY DEF GoesOn
  <2>1. /\ ssh \in [Procs -> SshType] /\ opening \in [Connections -> OpeningType]
        /\ closing \in [Closes -> ClosingType]
    BY Types DEF Inv
  <2>2. opening[c].proc \in Procs BY <2>1 DEF Inv, TypeOK, OpeningType
  <2>3. Alive(opening[c].proc) \/ ssh[opening[c].proc].st = "gone"
    BY <2>1, <2>2 DEF WaitOK, SshType, Alive
  <2>4. \A k \in opening[c].before : closing[k].step \in {"wait", "remove", "done"}
    BY <2>1 DEF WaitOK, ClosingType, OpeningType
  <2> QED BY <2>3, <2>4 DEF GoesOn
<1> QED BY <1>1, <1>2, WaitNext, InvHolds, PTL DEF Spec
====
