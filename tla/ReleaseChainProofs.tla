---- MODULE ReleaseChainProofs ----
\* Theorems about ReleaseChain for every number of evaluations, artifacts, plans, handlers
\* and chunks of telemetry.
EXTENDS ReleaseChain, TLAPS

----
\* The inductive invariant.

\* The revision of the run is cleared, or the telemetry it has.
RevisionOK == run.revision \in {NoRevision, version}

\* What a handler has computed is no newer than the telemetry, and says that all of it was
\* signed only if it was.
ComputedOK ==
  \A h \in Handlers :
    handlers[h].step = "computed" =>
      /\ handlers[h].revision \in 0..version
      /\ handlers[h].revision = version /\ handlers[h].attested => signed

\* A handler works on a plan that exists, and probes for preflight plans only.
HandlerOK ==
  \A h \in Handlers :
    /\ handlers[h].step \in {"mark", "probe", "cancel"} => handlers[h].plan \in Plans
    /\ handlers[h].step \in {"mark", "probe"} => plans[handlers[h].plan].mode = "preflight"

\* Approvals are for releases, and a rejected release is not ready.
PlanOK ==
  \A p \in Plans :
    /\ plans[p].mode \notin {"canary", "live"} => plans[p].approval = "none"
    /\ plans[p].approval = "rejected" => plans[p].status # "ready"

Inv == TypeOK /\ RevisionOK /\ ComputedOK /\ HandlerOK /\ PlanOK /\ PassedIsCurrent
         /\ PreflightIsVerified

LEMMA EmptyRecords ==
  /\ Idle \in Handler /\ NoEval \in Eval /\ NoArtifact \in Artifact /\ NoPlan \in Plan
  /\ [revision |-> NoRevision, evaluation |-> Nothing] \in Run
<1>1. NoRevision \in Revisions BY VersionAssumption DEF NoRevision, Revisions
<1>2. Idle \in Handler BY <1>1 DEF Idle, Handler
<1>3. NoEval \in Eval BY <1>1 DEF NoEval, Eval
<1>4. NoArtifact \in Artifact BY DEF NoArtifact, Artifact
<1>5. NoPlan \in Plan BY DEF NoPlan, Plan
<1>6. [revision |-> NoRevision, evaluation |-> Nothing] \in Run BY <1>1 DEF Run
<1> QED BY <1>2, <1>3, <1>4, <1>5, <1>6

LEMMA InvInit == Init => Inv
<1> SUFFICES ASSUME Init PROVE Inv OBVIOUS
<1>1. TypeOK
  <2>1. version \in 0..MaxVersion BY VersionAssumption DEF Init
  <2>5. signed \in BOOLEAN BY Zenon DEF Init
  <2>2. run \in Run BY EmptyRecords DEF Init
  <2>3. evals \in [Evals -> Eval] /\ artifacts \in [Artifacts -> Artifact]
    BY EmptyRecords DEF Init
  <2>4. plans \in [Plans -> Plan] /\ handlers \in [Handlers -> Handler]
    BY EmptyRecords DEF Init
  <2> QED BY <2>1, <2>2, <2>3, <2>4, <2>5 DEF TypeOK
<1>2. RevisionOK /\ ComputedOK /\ HandlerOK /\ PlanOK /\ PassedIsCurrent /\ PreflightIsVerified
  BY DEF Init, RevisionOK, ComputedOK, HandlerOK, PlanOK, PassedIsCurrent, PreflightIsVerified,
     NoEval, NoPlan, Idle
<1> QED BY <1>1, <1>2 DEF Inv

----
\* Frames: what a step that leaves a variable alone leaves of the invariant.

\* A step that writes plans and handlers only.
LEMMA EvidenceKept ==
  ASSUME Inv, UNCHANGED <<version, signed, run, evals>>
  PROVE  RevisionOK' /\ PassedIsCurrent'
BY DEF Inv, RevisionOK, PassedIsCurrent

LEMMA PlansKept ==
  ASSUME Inv, UNCHANGED plans PROVE PlanOK' /\ PreflightIsVerified'
BY DEF Inv, PlanOK, PreflightIsVerified

LEMMA HandlersKept ==
  ASSUME Inv, UNCHANGED <<handlers, plans>> PROVE HandlerOK'
BY DEF Inv, HandlerOK

LEMMA ComputedKept ==
  ASSUME Inv, UNCHANGED <<handlers, version, signed>> PROVE ComputedOK'
BY DEF Inv, ComputedOK

----
\* Telemetry and evaluations.

LEMMA AppendStep ==
  ASSUME Inv, NEW s \in BOOLEAN, AppendTelemetry(s) PROVE Inv'
<1>0. version \in 0..MaxVersion /\ version' = version + 1 /\ version' \in 0..MaxVersion
  BY VersionAssumption DEF Inv, TypeOK, AppendTelemetry
<1>1. TypeOK'
  <2>1. signed' \in BOOLEAN BY DEF AppendTelemetry, Inv, TypeOK
  <2>2. run' \in Run BY VersionAssumption DEF AppendTelemetry, Run, Revisions, NoRevision
  <2>3. evals' \in [Evals -> Eval]
    <3> SUFFICES ASSUME NEW e \in Evals
                 PROVE  [evals[e] EXCEPT !.stale = @ \/ evals[e].status = "passed"] \in Eval
      BY DEF AppendTelemetry
    <3>1. evals[e] \in Eval BY DEF Inv, TypeOK
    <3>2. (evals[e].stale \/ evals[e].status = "passed") \in BOOLEAN OBVIOUS
    <3> QED BY <3>1, <3>2 DEF Eval
  <2> QED BY <1>0, <2>1, <2>2, <2>3 DEF AppendTelemetry, Inv, TypeOK
<1>2. RevisionOK' BY DEF AppendTelemetry, RevisionOK
<1>3. ComputedOK' BY <1>0 DEF AppendTelemetry, Inv, ComputedOK
<1>4. PassedIsCurrent'
  <2> SUFFICES ASSUME NEW e \in Evals, evals'[e].status = "passed", ~evals'[e].stale PROVE FALSE
    BY DEF PassedIsCurrent
  <2>1. evals[e] \in Eval /\ evals'[e] = [evals[e] EXCEPT !.stale = @ \/ evals[e].status = "passed"]
    BY DEF AppendTelemetry, Inv, TypeOK
  <2>2. evals'[e].status = evals[e].status
        /\ evals'[e].stale = (evals[e].stale \/ evals[e].status = "passed")
    BY <2>1 DEF Eval
  <2> QED BY <2>2
<1>5. PlanOK' /\ PreflightIsVerified' /\ HandlerOK'
  BY PlansKept, HandlersKept DEF AppendTelemetry
<1> QED BY <1>1, <1>2, <1>3, <1>4, <1>5 DEF Inv

LEMMA ComputeStep ==
  ASSUME Inv, NEW h \in Handlers, NEW r \in References, Compute(h, r) PROVE Inv'
<1>0. version \in 0..MaxVersion /\ signed \in BOOLEAN /\ handlers \in [Handlers -> Handler]
      /\ run \in Run
  BY DEF Inv, TypeOK
<1>1. /\ run' \in Run /\ run'.revision = version
  BY <1>0, VersionAssumption DEF Compute, Run, Revisions, NoRevision
<1>2. /\ handlers' \in [Handlers -> Handler]
      /\ handlers'[h].step = "computed" /\ handlers'[h].revision = version
      /\ handlers'[h].attested = signed
      /\ \A i \in Handlers : i # h => handlers'[i] = handlers[i]
  <2> DEFINE new == [Idle EXCEPT !.step = "computed", !.revision = version,
                                 !.reference = r, !.attested = signed]
  <2>1. new \in Handler /\ new.step = "computed" /\ new.revision = version /\ new.attested = signed
    <3>1. version \in Revisions BY <1>0 DEF Revisions, NoRevision
    <3> QED BY <1>0, <3>1, EmptyRecords DEF Handler
  <2>2. handlers' = [handlers EXCEPT ![h] = new] BY DEF Compute
  <2> HIDE DEF new
  <2> QED BY <1>0, <2>1, <2>2
<1>3. TypeOK' BY <1>1, <1>2 DEF Compute, Inv, TypeOK
<1>4. RevisionOK' BY <1>1 DEF Compute, RevisionOK
<1>5. ComputedOK' BY <1>0, <1>2 DEF Compute, Inv, ComputedOK
<1>6. PassedIsCurrent' BY DEF Compute, Inv, PassedIsCurrent
<1>7. HandlerOK' BY <1>2 DEF Compute, Inv, HandlerOK
<1>8. PlanOK' /\ PreflightIsVerified' BY PlansKept DEF Compute
<1> QED BY <1>3, <1>4, <1>5, <1>6, <1>7, <1>8 DEF Inv

LEMMA MaterializeStep ==
  ASSUME Inv, NEW h \in Handlers, NEW k \in Keys \cup {Derived}, Materialize(h, k) PROVE Inv'
<1>0. /\ handlers \in [Handlers -> Handler] /\ handlers[h] \in Handler /\ run \in Run
      /\ version \in 0..MaxVersion /\ evals \in [Evals -> Eval]
  BY DEF Inv, TypeOK
<1>1. /\ handlers[h].step = "computed" /\ handlers' = [handlers EXCEPT ![h] = Idle]
      /\ UNCHANGED <<version, signed, artifacts, plans>>
  BY DEF Materialize
<1>2. /\ handlers' \in [Handlers -> Handler] /\ handlers'[h].step = "idle"
      /\ \A i \in Handlers : i # h => handlers'[i] = handlers[i]
  <2>1. Idle.step = "idle" BY DEF Idle
  <2> QED BY <1>0, <1>1, <2>1, EmptyRecords
<1>3. ComputedOK' /\ HandlerOK' BY <1>1, <1>2 DEF Inv, ComputedOK, HandlerOK
<1>4. PlanOK' /\ PreflightIsVerified' BY <1>1, PlansKept
<1>5. CASE UNCHANGED <<run, evals>>
  BY <1>1, <1>2, <1>3, <1>4, <1>5, EvidenceKept DEF Inv, TypeOK
<1>6. ASSUME NEW e \in Evals, Fresh(handlers[h].revision),
             evals' = [evals EXCEPT ![e] =
               [status |-> IF handlers[h].revision > 0 THEN "passed" ELSE "invalid",
                revision |-> handlers[h].revision, reference |-> handlers[h].reference, key |-> k,
                attested |-> handlers[h].attested, stale |-> FALSE]],
             run' = [run EXCEPT !.evaluation = e]
      PROVE  Inv'
  <2>1. /\ handlers[h].revision = version
        /\ handlers[h].attested => signed
    BY <1>0, <1>1, <1>6 DEF Fresh, Inv, RevisionOK, ComputedOK, NoRevision
  <2>2. run' \in Run /\ run'.revision = run.revision BY <1>0, <1>6 DEF Run
  <2>3. /\ evals' \in [Evals -> Eval]
        /\ evals'[e].revision = version /\ evals'[e].attested = handlers[h].attested
        /\ \A i \in Evals : i # e => evals'[i] = evals[i]
    BY <1>0, <1>6, <2>1 DEF Eval, Handler
  <2>4. PassedIsCurrent' BY <1>1, <2>1, <2>3 DEF Inv, PassedIsCurrent
  <2>5. RevisionOK' BY <1>1, <2>2 DEF Inv, RevisionOK
  <2> QED BY <1>1, <1>2, <1>3, <1>4, <2>2, <2>3, <2>4, <2>5 DEF Inv, TypeOK
<1> QED BY <1>5, <1>6 DEF Materialize

LEMMA RegisterStep ==
  ASSUME Inv, NEW e \in Evals, NEW linked \in SUBSET Artifacts, RegisterEvaluation(e, linked)
  PROVE  Inv'
<1>0. evals \in [Evals -> Eval] /\ run \in Run /\ artifacts \in [Artifacts -> Artifact]
  BY DEF Inv, TypeOK
<1>1. /\ evals' \in [Evals -> Eval] /\ evals'[e].status = "pending"
      /\ \A i \in Evals : i # e => evals'[i] = evals[i]
  BY <1>0 DEF RegisterEvaluation, Eval
<1>2. run' \in Run /\ run'.revision = run.revision BY <1>0 DEF RegisterEvaluation, Run
<1>3. artifacts' \in [Artifacts -> Artifact] BY <1>0 DEF RegisterEvaluation, Artifact
<1>4. TypeOK' BY <1>1, <1>2, <1>3 DEF RegisterEvaluation, Inv, TypeOK
<1>5. RevisionOK' BY <1>2 DEF RegisterEvaluation, Inv, RevisionOK
<1>6. PassedIsCurrent' BY <1>1 DEF RegisterEvaluation, Inv, PassedIsCurrent
<1> QED BY <1>4, <1>5, <1>6, PlansKept, HandlersKept, ComputedKept DEF RegisterEvaluation, Inv

LEMMA UpdateEvaluationStep ==
  ASSUME Inv, NEW e \in Evals, NEW s \in {"running", "failed", "invalid"}, UpdateEvaluation(e, s)
  PROVE  Inv'
<1>0. evals \in [Evals -> Eval] BY DEF Inv, TypeOK
<1>1. /\ evals' \in [Evals -> Eval] /\ evals'[e].status = s
      /\ \A i \in Evals : i # e => evals'[i] = evals[i]
  BY <1>0 DEF UpdateEvaluation, Eval
<1>2. TypeOK' BY <1>1 DEF UpdateEvaluation, Inv, TypeOK
<1>3. RevisionOK' BY DEF UpdateEvaluation, Inv, RevisionOK
<1>4. PassedIsCurrent' BY <1>1 DEF UpdateEvaluation, Inv, PassedIsCurrent
<1> QED BY <1>2, <1>3, <1>4, PlansKept, HandlersKept, ComputedKept DEF UpdateEvaluation, Inv

LEMMA ArtifactStep ==
  ASSUME Inv, NEW a \in Artifacts,
         \/ \E linked \in SUBSET Evals : CreateArtifact(a, linked)
         \/ \E s \in {"validated", "published", "revoked"} : UpdateArtifact(a, s)
  PROVE  Inv'
<1>1. UNCHANGED <<version, signed, run, evals, plans, handlers>>
  BY DEF CreateArtifact, UpdateArtifact
<1>2. artifacts' \in [Artifacts -> Artifact]
  BY DEF CreateArtifact, UpdateArtifact, Inv, TypeOK, Artifact
<1>3. TypeOK' BY <1>1, <1>2 DEF Inv, TypeOK
<1> QED BY <1>1, <1>3, EvidenceKept, PlansKept, HandlersKept, ComputedKept DEF Inv

----
\* Plans.

LEMMA CreateReleaseStep ==
  ASSUME Inv, NEW p \in Plans, NEW m \in {"canary", "live"}, NEW a \in Artifacts, NEW e \in Evals,
         NEW d \in BOOLEAN, CreateRelease(p, m, a, e, d)
  PROVE  Inv'
<1>0. plans \in [Plans -> Plan] /\ UNCHANGED <<version, signed, run, evals, artifacts, handlers>>
  BY DEF CreateRelease, Inv, TypeOK
<1>1. /\ plans' \in [Plans -> Plan] /\ plans'[p].mode = m /\ plans'[p].approval = "pending"
      /\ \A q \in Plans : q # p => plans'[q] = plans[q]
  BY <1>0 DEF CreateRelease, Plan, Statuses
<1>2. plans[p].mode = "none" BY DEF CreateRelease, NoPlan
<1>3. TypeOK' BY <1>0, <1>1 DEF Inv, TypeOK
<1>4. HandlerOK' BY <1>0, <1>1, <1>2 DEF Inv, HandlerOK
<1>5. PlanOK' /\ PreflightIsVerified' BY <1>1 DEF Inv, PlanOK, PreflightIsVerified
<1> QED BY <1>0, <1>3, <1>4, <1>5, EvidenceKept, ComputedKept DEF Inv

LEMMA CreatePreflightStep ==
  ASSUME Inv, NEW p \in Plans, NEW d \in BOOLEAN, CreatePreflight(p, d)
  PROVE  Inv'
<1>0. plans \in [Plans -> Plan] /\ UNCHANGED <<version, signed, run, evals, artifacts, handlers>>
  BY DEF CreatePreflight, Inv, TypeOK
<1>1. /\ plans' \in [Plans -> Plan] /\ plans'[p].mode = "preflight" /\ plans'[p].approval = "none"
      /\ plans'[p].status # "ready"
      /\ \A q \in Plans : q # p => plans'[q] = plans[q]
  BY <1>0 DEF CreatePreflight, Plan, Statuses, NoPlan
<1>2. plans[p].mode = "none" BY DEF CreatePreflight, NoPlan
<1>3. TypeOK' BY <1>0, <1>1 DEF Inv, TypeOK
<1>4. HandlerOK' BY <1>0, <1>1, <1>2 DEF Inv, HandlerOK
<1>5. PlanOK' /\ PreflightIsVerified' BY <1>1 DEF Inv, PlanOK, PreflightIsVerified
<1> QED BY <1>0, <1>3, <1>4, <1>5, EvidenceKept, ComputedKept DEF Inv

LEMMA DecideStep ==
  ASSUME Inv, NEW p \in Plans, Approve(p) \/ Reject(p) PROVE Inv'
<1>0. /\ plans \in [Plans -> Plan] /\ plans[p].mode \in {"canary", "live"}
      /\ UNCHANGED <<version, signed, run, evals, artifacts, handlers>>
  BY DEF Approve, Reject, Inv, TypeOK
<1>1. /\ plans' \in [Plans -> Plan] /\ plans'[p].mode = plans[p].mode
      /\ plans'[p].approval = "rejected" => plans'[p].status # "ready"
      /\ \A q \in Plans : q # p => plans'[q] = plans[q]
  BY <1>0 DEF Approve, Reject, Plan, Statuses
<1>2. TypeOK' BY <1>0, <1>1 DEF Inv, TypeOK
<1>3. HandlerOK' BY <1>0, <1>1 DEF Inv, HandlerOK
<1>4. PlanOK' /\ PreflightIsVerified' BY <1>0, <1>1 DEF Inv, PlanOK, PreflightIsVerified
<1> QED BY <1>0, <1>2, <1>3, <1>4, EvidenceKept, ComputedKept DEF Inv

----
\* Cancellations and preflights.

\* A handler goes on, and the plan it goes on with fits the step.
LEMMA GoStep ==
  ASSUME Inv, NEW h \in Handlers, NEW step \in {"idle", "mark", "probe", "cancel"},
         NEW p \in Plans \cup {Nothing}, Go(h, step, p)
  PROVE  /\ handlers' \in [Handlers -> Handler]
         /\ handlers'[h].step = step /\ handlers'[h].plan = p
         /\ \A i \in Handlers : i # h => handlers'[i] = handlers[i]
<1> DEFINE new == [Idle EXCEPT !.step = step, !.plan = p]
<1>1. new \in Handler /\ new.step = step /\ new.plan = p BY EmptyRecords DEF Handler
<1>2. handlers' = [handlers EXCEPT ![h] = new] BY DEF Go
<1> HIDE DEF new
<1> QED BY <1>1, <1>2 DEF Inv, TypeOK

\* What updateSim2RealDeployment may do to a plan.
LEMMA UpdateStep ==
  ASSUME Inv, NEW p \in Plans, NEW status \in Statuses, NEW verified \in BOOLEAN,
         Update(p, status, verified),
         status = "ready" => verified /\ plans[p].mode = "preflight"
  PROVE  /\ plans' \in [Plans -> Plan]
         /\ \A q \in Plans : /\ plans'[q].mode = plans[q].mode
                             /\ plans'[q].approval = plans[q].approval
                             /\ plans[q].status = "cancelled" => plans'[q] = plans[q]
                             /\ \/ plans'[q].status # "ready"
                                \/ plans'[q] = plans[q]
                                \/ plans'[q].mode = "preflight" /\ plans'[q].verified
<1> DEFINE new == [plans[p] EXCEPT !.status = status, !.verified = verified]
<1>1. plans \in [Plans -> Plan] BY DEF Inv, TypeOK
<1>2. /\ new \in Plan /\ new.mode = plans[p].mode /\ new.approval = plans[p].approval
      /\ new.status = status /\ new.verified = verified
  BY <1>1 DEF Plan
<1>3. /\ plans' \in [Plans -> Plan] /\ \A q \in Plans : q # p => plans'[q] = plans[q]
      /\ plans'[p] = plans[p] \/ (plans'[p] = new /\ plans[p].status # "cancelled")
  BY <1>1, <1>2 DEF Update, Updated
<1> HIDE DEF new
<1> QED BY <1>2, <1>3

\* A handler that has updated its plan and goes on.
LEMMA UpdateAndGo ==
  ASSUME Inv, NEW h \in Handlers, NEW p \in Plans, NEW status \in Statuses, NEW verified \in BOOLEAN,
         Update(p, status, verified),
         status = "ready" => verified /\ plans[p].mode = "preflight",
         \/ Go(h, "idle", Nothing)
         \/ Go(h, "probe", p) /\ plans[p].mode = "preflight",
         UNCHANGED <<version, signed, run, evals, artifacts>>
  PROVE  Inv'
<1>1. /\ plans' \in [Plans -> Plan]
      /\ \A q \in Plans : /\ plans'[q].mode = plans[q].mode
                          /\ plans'[q].approval = plans[q].approval
                          /\ \/ plans'[q].status # "ready"
                             \/ plans'[q] = plans[q]
                             \/ plans'[q].mode = "preflight" /\ plans'[q].verified
  BY UpdateStep
<1>2. /\ handlers' \in [Handlers -> Handler]
      /\ \/ handlers'[h].step = "idle"
         \/ handlers'[h].step = "probe" /\ handlers'[h].plan = p /\ plans[p].mode = "preflight"
      /\ \A i \in Handlers : i # h => handlers'[i] = handlers[i]
  BY GoStep
<1>3. TypeOK' BY <1>1, <1>2 DEF Inv, TypeOK
<1>4. ComputedOK' BY <1>2 DEF Inv, ComputedOK
<1>5. HandlerOK' BY <1>1, <1>2 DEF Inv, HandlerOK
<1>6. PlanOK' BY <1>1 DEF Inv, PlanOK
<1>7. PreflightIsVerified' BY <1>1 DEF Inv, PreflightIsVerified
<1> QED BY <1>3, <1>4, <1>5, <1>6, <1>7, EvidenceKept DEF Inv

LEMMA BeginStep ==
  ASSUME Inv, NEW h \in Handlers, NEW p \in Plans, BeginCancel(h, p) \/ BeginPreflight(h, p)
  PROVE  Inv'
<1>1. PICK step \in {"mark", "cancel"} :
        Go(h, step, p) /\ (step = "mark" => plans[p].mode = "preflight")
  BY DEF BeginCancel, BeginPreflight
<1>2. UNCHANGED <<version, signed, run, evals, artifacts, plans>>
  BY DEF BeginCancel, BeginPreflight
<1>3. /\ handlers' \in [Handlers -> Handler]
      /\ handlers'[h].step = step /\ handlers'[h].plan = p
      /\ \A i \in Handlers : i # h => handlers'[i] = handlers[i]
  BY <1>1, GoStep
<1>4. TypeOK' BY <1>2, <1>3 DEF Inv, TypeOK
<1>5. ComputedOK' BY <1>2, <1>3 DEF Inv, ComputedOK
<1>6. HandlerOK' BY <1>1, <1>2, <1>3 DEF Inv, HandlerOK
<1> QED BY <1>2, <1>4, <1>5, <1>6, EvidenceKept, PlansKept DEF Inv

LEMMA CancelStep == ASSUME Inv, NEW h \in Handlers, Cancel(h) PROVE Inv'
<1> DEFINE p == handlers[h].plan
<1>1. p \in Plans BY DEF Cancel, Inv, HandlerOK
<1>2. plans[p].verified \in BOOLEAN BY <1>1 DEF Inv, TypeOK, Plan
<1>3. /\ Update(p, "cancelled", plans[p].verified) /\ Go(h, "idle", Nothing)
      /\ UNCHANGED <<version, signed, run, evals, artifacts>>
  BY DEF Cancel
<1>4. "cancelled" \in Statuses BY DEF Statuses
<1> HIDE DEF p
<1> QED BY <1>1, <1>2, <1>3, <1>4, UpdateAndGo

LEMMA MarkRunningStep == ASSUME Inv, NEW h \in Handlers, MarkRunning(h) PROVE Inv'
<1> DEFINE p == handlers[h].plan
<1>1. p \in Plans /\ plans[p].mode = "preflight" BY DEF MarkRunning, Inv, HandlerOK
<1>2. plans[p].verified \in BOOLEAN BY <1>1 DEF Inv, TypeOK, Plan
<1>3. /\ Update(p, "running", plans[p].verified) /\ (Go(h, "probe", p) \/ Go(h, "idle", Nothing))
      /\ UNCHANGED <<version, signed, run, evals, artifacts>>
  BY DEF MarkRunning
<1>4. "running" \in Statuses BY DEF Statuses
<1> HIDE DEF p
<1> QED BY <1>1, <1>2, <1>3, <1>4, UpdateAndGo

LEMMA ProbeStep ==
  ASSUME Inv, NEW h \in Handlers,
         ProbePasses(h) \/ \E s \in {"blocked", "failed"} : ProbeFails(h, s)
  PROVE  Inv'
<1> DEFINE p == handlers[h].plan
<1>1. p \in Plans /\ plans[p].mode = "preflight"
  BY DEF ProbePasses, ProbeFails, Inv, HandlerOK
<1>2. PICK status \in Statuses, verified \in BOOLEAN :
        Update(p, status, verified) /\ (status = "ready" => verified)
  <2>1. {"ready", "blocked", "failed"} \subseteq Statuses BY DEF Statuses
  <2> QED BY <2>1 DEF ProbePasses, ProbeFails
<1>3. Go(h, "idle", Nothing) /\ UNCHANGED <<version, signed, run, evals, artifacts>>
  BY DEF ProbePasses, ProbeFails
<1> HIDE DEF p
<1> QED BY <1>1, <1>2, <1>3, UpdateAndGo

LEMMA RestartStep == ASSUME Inv, Restart PROVE Inv'
<1>1. UNCHANGED <<version, signed, run, evals, artifacts, plans>> BY DEF Restart
<1>2. handlers' \in [Handlers -> Handler] /\ \A h \in Handlers : handlers'[h].step = "idle"
  <2>1. Idle.step = "idle" BY DEF Idle
  <2> QED BY <2>1, EmptyRecords DEF Restart
<1>3. TypeOK' BY <1>1, <1>2 DEF Inv, TypeOK
<1>4. ComputedOK' /\ HandlerOK' BY <1>2 DEF ComputedOK, HandlerOK
<1> QED BY <1>1, <1>3, <1>4, EvidenceKept, PlansKept DEF Inv

----
\* The theorems.

LEMMA InvNext == ASSUME Inv, [Next]_vars PROVE Inv'
<1>1. CASE \E s \in BOOLEAN : AppendTelemetry(s) BY <1>1, AppendStep
<1>2. ASSUME NEW h \in Handlers,
             \/ \E r \in References : Compute(h, r)
             \/ \E k \in Keys \cup {Derived} : Materialize(h, k)
             \/ \E p \in Plans : BeginCancel(h, p) \/ BeginPreflight(h, p)
             \/ Cancel(h) \/ MarkRunning(h) \/ ProbePasses(h)
             \/ \E s \in {"blocked", "failed"} : ProbeFails(h, s)
      PROVE  Inv'
  BY <1>2, ComputeStep, MaterializeStep, BeginStep, CancelStep, MarkRunningStep, ProbeStep
<1>3. ASSUME NEW e \in Evals,
             \/ \E linked \in SUBSET Artifacts : RegisterEvaluation(e, linked)
             \/ \E s \in {"running", "failed", "invalid"} : UpdateEvaluation(e, s)
      PROVE  Inv'
  BY <1>3, RegisterStep, UpdateEvaluationStep
<1>4. ASSUME NEW a \in Artifacts,
             \/ \E linked \in SUBSET Evals : CreateArtifact(a, linked)
             \/ \E s \in {"validated", "published", "revoked"} : UpdateArtifact(a, s)
      PROVE  Inv'
  BY <1>4, ArtifactStep
<1>5. ASSUME NEW p \in Plans, NEW d \in BOOLEAN,
             \/ CreatePreflight(p, d)
             \/ \E m \in {"canary", "live"}, a \in Artifacts, e \in Evals :
                  CreateRelease(p, m, a, e, d)
      PROVE  Inv'
  BY <1>5, CreatePreflightStep, CreateReleaseStep
<1>6. CASE \E p \in Plans : Approve(p) \/ Reject(p) BY <1>6, DecideStep
<1>7. CASE UNCHANGED vars
  BY <1>7 DEF vars, Inv, TypeOK, RevisionOK, ComputedOK, HandlerOK, PlanOK, PassedIsCurrent,
     PreflightIsVerified
<1> QED BY <1>1, <1>2, <1>3, <1>4, <1>5, <1>6, <1>7, RestartStep DEF Next

LEMMA AlwaysInv == Spec => []Inv
BY InvInit, InvNext, PTL DEF Spec

\* The state has the shape of the ledger's records.
THEOREM ReleaseTypeCorrect == Spec => []TypeOK
BY AlwaysInv, PTL DEF Inv

\* However many evaluations are in flight while telemetry arrives, one that has passed and
\* is not marked stale describes the telemetry the run has.
THEOREM PassedStaysCurrent == Spec => []PassedIsCurrent
BY AlwaysInv, PTL DEF Inv

\* However many probes of a preflight plan are in flight, it is ready only on a passed one.
THEOREM ReadyPreflightVerified == Spec => []PreflightIsVerified
BY AlwaysInv, PTL DEF Inv

\* The steps that write a plan.
LEMMA PlanStep ==
  ASSUME Inv, Next, NEW p \in Plans, plans'[p] # plans[p]
  PROVE  \/ plans[p] = NoPlan /\ plans'[p].status # "ready"
         \/ Approve(p)
         \/ Reject(p)
         \/ /\ plans'[p].mode = plans[p].mode /\ plans'[p].approval = plans[p].approval
            /\ plans[p].status # "cancelled"
            /\ plans'[p].status = "ready" => plans'[p].mode = "preflight"
<1>0. plans \in [Plans -> Plan] BY DEF Inv, TypeOK
<1>1. ASSUME NEW q \in Plans, NEW d \in BOOLEAN,
             \/ CreatePreflight(q, d)
             \/ \E m \in {"canary", "live"}, a \in Artifacts, e \in Evals :
                  CreateRelease(q, m, a, e, d)
      PROVE  plans[p] = NoPlan /\ plans'[p].status # "ready"
  <2>1. CASE CreatePreflight(q, d)
    <3>1. q = p BY <1>0, <2>1 DEF CreatePreflight
    <3> QED BY <1>0, <2>1, <3>1 DEF CreatePreflight, NoPlan
  <2>2. CASE \E m \in {"canary", "live"}, a \in Artifacts, e \in Evals : CreateRelease(q, m, a, e, d)
    <3>1. q = p BY <1>0, <2>2 DEF CreateRelease
    <3> QED BY <1>0, <2>2, <3>1 DEF CreateRelease
  <2> QED BY <1>1, <2>1, <2>2
<1>2. ASSUME NEW q \in Plans, Approve(q) \/ Reject(q) PROVE q = p
  BY <1>0, <1>2 DEF Approve, Reject
<1>3. ASSUME NEW q \in Plans, NEW status \in Statuses, NEW verified \in BOOLEAN,
             Update(q, status, verified),
             status = "ready" => verified /\ plans[q].mode = "preflight"
      PROVE  /\ plans'[p].mode = plans[p].mode /\ plans'[p].approval = plans[p].approval
             /\ plans[p].status # "cancelled"
             /\ plans'[p].status = "ready" => plans'[p].mode = "preflight"
  BY <1>3, UpdateStep
<1>4. ASSUME NEW h \in Handlers, Cancel(h) \/ MarkRunning(h) \/ ProbePasses(h)
                                 \/ \E s \in {"blocked", "failed"} : ProbeFails(h, s)
      PROVE  \E q \in Plans, status \in Statuses, verified \in BOOLEAN :
               /\ Update(q, status, verified)
               /\ status = "ready" => verified /\ plans[q].mode = "preflight"
  <2>1. handlers[h].plan \in Plans /\ plans[handlers[h].plan].verified \in BOOLEAN
    BY <1>0, <1>4 DEF Cancel, MarkRunning, ProbePasses, ProbeFails, Inv, HandlerOK, Plan
  <2>2. handlers[h].step \in {"mark", "probe"} => plans[handlers[h].plan].mode = "preflight"
    BY DEF Inv, HandlerOK
  <2>3. {"ready", "blocked", "failed", "running", "cancelled"} \subseteq Statuses BY DEF Statuses
  <2> QED BY <1>4, <2>1, <2>2, <2>3 DEF Cancel, MarkRunning, ProbePasses, ProbeFails
<1>5. UNCHANGED plans \/ (\E q \in Plans : Approve(q) \/ Reject(q))
      \/ (\E q \in Plans, d \in BOOLEAN :
            \/ CreatePreflight(q, d)
            \/ \E m \in {"canary", "live"}, a \in Artifacts, e \in Evals :
                 CreateRelease(q, m, a, e, d))
      \/ (\E h \in Handlers : Cancel(h) \/ MarkRunning(h) \/ ProbePasses(h)
                              \/ \E s \in {"blocked", "failed"} : ProbeFails(h, s))
  BY DEF Next, AppendTelemetry, Compute, Materialize, BeginCancel, BeginPreflight, RegisterEvaluation,
     UpdateEvaluation, CreateArtifact, UpdateArtifact, Restart
<1> QED BY <1>1, <1>2, <1>3, <1>4, <1>5

\* A release becomes ready only by an approval, given while its evidence is what the
\* telemetry of the run supports.
THEOREM ReleasesJustified == Spec => ReleaseIsJustified
<1> DEFINE Justified ==
      \A p \in Plans :
        plans[p].mode \in {"canary", "live"} /\ plans[p].status # "ready" /\ plans'[p].status = "ready" =>
          /\ plans'[p].approval = "approved"
          /\ artifacts[plans[p].artifact].status = "published"
          /\ evals[plans[p].eval].revision = version
          /\ evals[plans[p].eval].attested /\ signed
<1>1. Inv /\ [Next]_vars => [Justified]_vars
  <2> SUFFICES ASSUME Inv, Next, NEW p \in Plans,
                      plans[p].mode \in {"canary", "live"}, plans[p].status # "ready",
                      plans'[p].status = "ready"
               PROVE  /\ plans'[p].approval = "approved"
                      /\ artifacts[plans[p].artifact].status = "published"
                      /\ evals[plans[p].eval].revision = version
                      /\ evals[plans[p].eval].attested /\ signed
    OBVIOUS
  <2>0. plans \in [Plans -> Plan] BY DEF Inv, TypeOK
  <2>1. Approve(p)
    <3>1. plans'[p] # plans[p] /\ plans[p].mode # "none" OBVIOUS
    <3>2. ~Reject(p) BY <2>0 DEF Reject, Plan
    <3> QED BY <3>1, <3>2, PlanStep DEF NoPlan
  <2>2. plans'[p].approval = "approved" BY <2>0, <2>1 DEF Approve, Plan
  <2> QED BY <2>1, <2>2 DEF Approve, Evidence, Inv, PassedIsCurrent
<1> QED BY <1>1, AlwaysInv, PTL DEF Spec, ReleaseIsJustified

\* No approval, probe or cancellation that comes later changes a rejection or a cancellation.
THEOREM DecisionsHold == Spec => DecisionsStay
<1> DEFINE Stay ==
      \A p \in Plans :
        /\ plans[p].approval = "rejected" =>
             plans'[p].approval = "rejected" /\ plans'[p].status # "ready"
        /\ plans[p].status = "cancelled" => plans'[p] = plans[p]
<1>1. Inv /\ [Next]_vars => [Stay]_vars
  <2> SUFFICES ASSUME Inv, Next, NEW p \in Plans
               PROVE  /\ plans[p].approval = "rejected" =>
                           plans'[p].approval = "rejected" /\ plans'[p].status # "ready"
                      /\ plans[p].status = "cancelled" => plans'[p] = plans[p]
    OBVIOUS
  <2>1. CASE plans'[p] = plans[p] BY <2>1 DEF Inv, PlanOK
  <2>2. CASE plans'[p] # plans[p]
    <3>1. ~(plans[p].approval = "rejected" /\ (Approve(p) \/ Reject(p)))
          /\ ~(plans[p].status = "cancelled" /\ (Approve(p) \/ Reject(p)))
      BY DEF Approve, Reject, Undecided
    <3>2. plans[p].approval = "rejected" => plans[p].mode # "preflight" BY DEF Inv, PlanOK
    <3> QED BY <2>2, <3>1, <3>2, PlanStep DEF NoPlan
  <2> QED BY <2>1, <2>2
<1> QED BY <1>1, AlwaysInv, PTL DEF Spec, DecisionsStay
====
