---- MODULE ReleaseChain ----
\* From the telemetry of a completed run to a deployment plan: evaluations, artifacts, the
\* approval of canary and live plans, and read-only preflights. A store operation is one
\* step; a handler that awaits between two of them is several.
EXTENDS Integers

CONSTANTS
  Evals, Artifacts, Plans,  \* ids of the records
  References,  \* the simulator traces an evaluation may compare with
  Keys,        \* Idempotency-Keys a client gives to an evaluation
  Handlers,    \* activations of the handlers that await between two store operations
  MaxVersion,  \* bound on the chunks appended
  Derived,     \* the key the evaluate route derives from the result
  Nothing

ASSUME VersionAssumption == MaxVersion \in Nat
ASSUME NullAssumption == Nothing \notin Evals \cup Plans \cup References /\ Derived \notin Keys

VARIABLES
  version,    \* how many chunks the run has committed: which set of them it is
  signed,     \* all of them came through the signed board channel
  run,        \* run.telemetryRevision, set and cleared with run.evaluation, and run.evaluationId
  evals,      \* ledger.evaluations
  artifacts,  \* ledger.artifacts, of the run
  plans,      \* ledger.deployments
  handlers

vars == <<version, signed, run, evals, artifacts, plans, handlers>>

NoRevision == -1
Revisions == NoRevision..MaxVersion

Run == [revision : Revisions, evaluation : Evals \cup {Nothing}]

NoEval == [status |-> "none", revision |-> NoRevision, reference |-> Nothing, key |-> Nothing,
           attested |-> FALSE, stale |-> FALSE]
Eval == [status : {"none", "pending", "running", "passed", "failed", "invalid"},
         revision : Revisions, reference : References \cup {Nothing},
         key : Keys \cup {Derived, Nothing}, attested : BOOLEAN, stale : BOOLEAN]

NoArtifact == [status |-> "none", evals |-> {}]
Artifact == [status : {"none", "draft", "validated", "published", "revoked"}, evals : SUBSET Evals]

\* "deployable": the manifest has a compiled artifact for the board.
NoPlan == [mode |-> "none", status |-> "none", deployable |-> FALSE, artifact |-> Nothing,
           eval |-> Nothing, approval |-> "none", verified |-> FALSE]
Statuses == {"planned", "running", "ready", "blocked", "failed", "cancelled"}
Plan == [mode : {"none", "preflight", "canary", "live"}, status : Statuses \cup {"none"},
         deployable : BOOLEAN, artifact : Artifacts \cup {Nothing}, eval : Evals \cup {Nothing},
         approval : {"none", "pending", "approved", "rejected"}, verified : BOOLEAN]

\* What a handler remembers across an await.
Idle == [step |-> "idle", plan |-> Nothing, revision |-> NoRevision, reference |-> Nothing,
         attested |-> FALSE]
Handler == [step : {"idle", "computed", "mark", "probe", "cancel"}, plan : Plans \cup {Nothing},
            revision : Revisions, reference : References \cup {Nothing}, attested : BOOLEAN]

Init ==
  /\ version = 0
  /\ signed = FALSE
  /\ run = [revision |-> NoRevision, evaluation |-> Nothing]
  /\ evals = [e \in Evals |-> NoEval]
  /\ artifacts = [a \in Artifacts |-> NoArtifact]
  /\ plans = [p \in Plans |-> NoPlan]
  /\ handlers = [h \in Handlers |-> Idle]

----
\* appendSim2RealTelemetryWithResult, its effect on the run and its evaluations.
AppendTelemetry(boardSigned) ==
  /\ version < MaxVersion
  /\ version' = version + 1
  /\ signed' = (boardSigned /\ (version = 0 \/ signed))
  /\ run' = [revision |-> NoRevision, evaluation |-> Nothing]
  /\ evals' = [e \in Evals |-> [evals[e] EXCEPT !.stale = @ \/ evals[e].status = "passed"]]
  /\ UNCHANGED <<artifacts, plans, handlers>>

\* POST /runs/:id/evaluate, first half: evaluateSim2RealRun.
Compute(h, reference) ==
  /\ handlers[h].step = "idle"
  /\ run' = [run EXCEPT !.revision = version]
  /\ handlers' = [handlers EXCEPT ![h] = [Idle EXCEPT !.step = "computed", !.revision = version,
                                            !.reference = reference, !.attested = signed]]
  /\ UNCHANGED <<version, signed, evals, artifacts, plans>>

\* The record a key was used for: the derived key stands for the result itself.
WithKey(h, key) ==
  {e \in Evals :
     /\ evals[e].status # "none" /\ evals[e].key = key
     /\ key = Derived => /\ evals[e].revision = handlers[h].revision
                         /\ evals[e].reference = handlers[h].reference}

\* Mutant: the run's revision is not compared.
BadFresh(revision) == TRUE

\* The evaluation was computed from the telemetry the run has now.
Fresh(revision) == revision = run.revision

\* Second half: createSim2RealEvaluationWithResult. A stale result is refused, and a
\* known key answered with its record, or refused if the request was another one; either
\* way the ledger stays as it is.
Materialize(h, key) ==
  LET now == handlers[h]
      fresh == Fresh(now.revision) IN
  /\ now.step = "computed"
  /\ \/ /\ fresh => WithKey(h, key) # {}
        /\ UNCHANGED <<run, evals>>
     \/ \E e \in Evals :
          /\ fresh /\ WithKey(h, key) = {} /\ evals[e] = NoEval
          /\ evals' = [evals EXCEPT ![e] =
               [status |-> IF now.revision > 0 THEN "passed" ELSE "invalid",
                revision |-> now.revision, reference |-> now.reference, key |-> key,
                attested |-> now.attested, stale |-> FALSE]]
          /\ run' = [run EXCEPT !.evaluation = e]
  /\ handlers' = [handlers EXCEPT ![h] = Idle]
  /\ UNCHANGED <<version, signed, artifacts, plans>>

\* POST /evaluations: a client registers a pending row, of the run or of an artifact too.
RegisterEvaluation(e, linked) ==
  /\ evals[e] = NoEval
  /\ \A a \in linked : artifacts[a].status \notin {"none", "revoked"}
  /\ evals' = [evals EXCEPT ![e].status = "pending"]
  /\ run' = [run EXCEPT !.evaluation = e]
  /\ artifacts' = [a \in Artifacts |->
       IF a \in linked THEN [artifacts[a] EXCEPT !.evals = @ \cup {e}] ELSE artifacts[a]]
  /\ UNCHANGED <<version, signed, plans, handlers>>

\* PATCH /evaluations/:id, which never sets "passed".
UpdateEvaluation(e, status) ==
  /\ \/ evals[e].status = "pending" /\ status \in {"running", "failed", "invalid"}
     \/ evals[e].status = "running" /\ status \in {"failed", "invalid"}
  /\ evals' = [evals EXCEPT ![e].status = status]
  /\ UNCHANGED <<version, signed, run, artifacts, plans, handlers>>

----
\* createSim2RealArtifactWithResult: a passed evaluation it names must be attested.
CreateArtifact(a, linked) ==
  /\ artifacts[a] = NoArtifact
  /\ \A e \in linked : evals[e].status # "none" /\ (evals[e].status = "passed" => evals[e].attested)
  /\ artifacts' = [artifacts EXCEPT ![a] = [status |-> "draft", evals |-> linked]]
  /\ UNCHANGED <<version, signed, run, evals, plans, handlers>>

\* updateSim2RealArtifactStatus
UpdateArtifact(a, status) ==
  /\ \/ artifacts[a].status = "draft" /\ status = "validated"
     \/ /\ artifacts[a].status = "validated" /\ status = "published"
        /\ \A e \in artifacts[a].evals : evals[e].status = "passed" /\ evals[e].attested
     \/ artifacts[a].status \in {"draft", "validated", "published"} /\ status = "revoked"
  /\ artifacts' = [artifacts EXCEPT ![a].status = status]
  /\ UNCHANGED <<version, signed, run, evals, plans, handlers>>

\* Mutant: the evaluation is not compared with the run.
BadEvidence(a, e) ==
  /\ a \in Artifacts /\ e \in Evals
  /\ artifacts[a].status = "published"
  /\ evals[e].status = "passed" /\ evals[e].attested

\* The evidence a release needs, read again when the plan is created and when it is
\* approved; that the run's training metrics pass the release gate does not change.
Evidence(a, e) ==
  /\ a \in Artifacts /\ e \in Evals
  /\ artifacts[a].status = "published"
  /\ evals[e].status = "passed" /\ evals[e].attested /\ ~evals[e].stale
  /\ evals[e].revision = run.revision /\ run.evaluation = e

\* POST /deployments; POST /deployments/:id/version-switch creates a preflight plan too.
\* Its reads before createSim2RealDeploymentWithResult are made again there.
CreateRelease(p, mode, a, e, deployable) ==
  /\ plans[p] = NoPlan
  /\ Evidence(a, e)
  /\ plans' = [plans EXCEPT ![p] =
       [mode |-> mode, deployable |-> deployable, artifact |-> a, eval |-> e,
        status |-> IF mode = "canary" /\ deployable THEN "planned" ELSE "blocked",
        approval |-> "pending", verified |-> FALSE]]
  /\ UNCHANGED <<version, signed, run, evals, artifacts, handlers>>

CreatePreflight(p, deployable) ==
  /\ plans[p] = NoPlan
  /\ plans' = [plans EXCEPT ![p] =
       [NoPlan EXCEPT !.mode = "preflight", !.deployable = deployable,
                      !.status = IF deployable THEN "planned" ELSE "blocked"]]
  /\ UNCHANGED <<version, signed, run, evals, artifacts, handlers>>

\* A rejection is final, an approval can still be rejected.
Undecided(p) == plans[p].approval = "pending"

\* decideSim2RealDeploymentApproval
Approve(p) ==
  /\ plans[p].mode \in {"canary", "live"}
  /\ plans[p].status \in {"planned", "blocked", "ready"}
  /\ Undecided(p)
  /\ plans[p].deployable
  /\ Evidence(plans[p].artifact, plans[p].eval)
  /\ plans' = [plans EXCEPT ![p].approval = "approved", ![p].status = "ready"]
  /\ UNCHANGED <<version, signed, run, evals, artifacts, handlers>>

Reject(p) ==
  /\ plans[p].mode \in {"canary", "live"}
  /\ plans[p].status \in {"planned", "blocked", "ready"}
  /\ plans[p].approval # "rejected"
  /\ plans' = [plans EXCEPT ![p].approval = "rejected", ![p].status = "blocked"]
  /\ UNCHANGED <<version, signed, run, evals, artifacts, handlers>>

----
\* DEPLOYMENT_STATUS_TRANSITIONS; no handler writes "completed".
Successors == [s \in Statuses |->
  CASE s = "planned" -> Statuses
    [] s = "running" -> Statuses \ {"planned"}
    [] s = "ready" -> {"ready", "running", "blocked", "cancelled"}
    [] s = "blocked" -> Statuses \ {"ready"}
    [] s = "failed" -> {"failed", "planned", "cancelled"}
    [] s = "cancelled" -> {"cancelled"}]

\* Mutant: the store trusts the check the handler made before it awaited.
BadUpdated(plan, status, verified) == [plan EXCEPT !.status = status, !.verified = verified]

\* updateSim2RealDeployment throws, returns a cancelled plan unchanged, or writes.
Accepts(plan, status) ==
  \/ plan.status = "cancelled"
  \/ /\ status \in Successors[plan.status]
     /\ status = "ready" => plan.mode = "preflight" \/ plan.approval = "approved"

Updated(plan, status, verified) ==
  IF plan.status = "cancelled" \/ ~Accepts(plan, status) THEN plan
  ELSE [plan EXCEPT !.status = status, !.verified = verified]

Update(p, status, verified) == plans' = [plans EXCEPT ![p] = Updated(@, status, verified)]

Go(h, step, p) == handlers' = [handlers EXCEPT ![h] = [Idle EXCEPT !.step = step, !.plan = p]]

\* POST /deployments/:id/cancel reads the plan ...
BeginCancel(h, p) ==
  /\ handlers[h].step = "idle"
  /\ plans[p].status \in {"planned", "running", "blocked", "ready"}
  /\ Go(h, "cancel", p)
  /\ UNCHANGED <<version, signed, run, evals, artifacts, plans>>

\* ... and updates it.
Cancel(h) ==
  /\ handlers[h].step = "cancel"
  /\ Update(handlers[h].plan, "cancelled", plans[handlers[h].plan].verified)
  /\ Go(h, "idle", Nothing)
  /\ UNCHANGED <<version, signed, run, evals, artifacts>>

\* POST /deployments/:id/preflight: reads the plan ...
BeginPreflight(h, p) ==
  /\ handlers[h].step = "idle"
  /\ plans[p].mode = "preflight"
  /\ plans[p].status # "cancelled"
  /\ Go(h, "mark", p)
  /\ UNCHANGED <<version, signed, run, evals, artifacts, plans>>

\* ... marks it running, where a refusal ends the request with an error ...
MarkRunning(h) ==
  LET p == handlers[h].plan IN
  /\ handlers[h].step = "mark"
  /\ Update(p, "running", plans[p].verified)
  /\ \/ Accepts(plans[p], "running") /\ Go(h, "probe", p)
     \/ ~Accepts(plans[p], "running") /\ Go(h, "idle", Nothing)
  /\ UNCHANGED <<version, signed, run, evals, artifacts>>

\* ... and stores what the board answered: a pass, and if that is refused a failure ...
ProbePasses(h) ==
  LET p == handlers[h].plan
      status == IF plans[p].deployable THEN "ready" ELSE "blocked" IN
  /\ handlers[h].step = "probe"
  /\ \/ Accepts(plans[p], status) /\ Update(p, status, TRUE)
     \/ ~Accepts(plans[p], status) /\ Update(p, "failed", FALSE)
  /\ Go(h, "idle", Nothing)
  /\ UNCHANGED <<version, signed, run, evals, artifacts>>

\* Mutant: the pass of a simulated board makes the plan ready.
BadProbeFails(h, status) ==
  /\ handlers[h].step = "probe"
  /\ status \in {"blocked", "failed"}
  /\ Update(handlers[h].plan, IF status = "blocked" THEN "ready" ELSE "failed", FALSE)
  /\ Go(h, "idle", Nothing)
  /\ UNCHANGED <<version, signed, run, evals, artifacts>>

\* ... a failed check or a simulated board, or no answer; a refused update is ignored.
ProbeFails(h, status) ==
  /\ handlers[h].step = "probe"
  /\ status \in {"blocked", "failed"}
  /\ Update(handlers[h].plan, status, FALSE)
  /\ Go(h, "idle", Nothing)
  /\ UNCHANGED <<version, signed, run, evals, artifacts>>

\* The process ends: its handlers with it.
Restart ==
  /\ \E h \in Handlers : handlers[h].step # "idle"
  /\ handlers' = [h \in Handlers |-> Idle]
  /\ UNCHANGED <<version, signed, run, evals, artifacts, plans>>

Next ==
  \/ \E s \in BOOLEAN : AppendTelemetry(s)
  \/ \E h \in Handlers :
       \/ \E r \in References : Compute(h, r)
       \/ \E k \in Keys \cup {Derived} : Materialize(h, k)
       \/ \E p \in Plans : BeginCancel(h, p) \/ BeginPreflight(h, p)
       \/ Cancel(h) \/ MarkRunning(h) \/ ProbePasses(h)
       \/ \E s \in {"blocked", "failed"} : ProbeFails(h, s)
  \/ \E e \in Evals : \/ \E linked \in SUBSET Artifacts : RegisterEvaluation(e, linked)
                      \/ \E s \in {"running", "failed", "invalid"} : UpdateEvaluation(e, s)
  \/ \E a \in Artifacts : \/ \E linked \in SUBSET Evals : CreateArtifact(a, linked)
                          \/ \E s \in {"validated", "published", "revoked"} : UpdateArtifact(a, s)
  \/ \E p \in Plans, d \in BOOLEAN :
       \/ CreatePreflight(p, d)
       \/ \E m \in {"canary", "live"}, a \in Artifacts, e \in Evals : CreateRelease(p, m, a, e, d)
  \/ \E p \in Plans : Approve(p) \/ Reject(p)
  \/ Restart

Spec == Init /\ [][Next]_vars

----
\* The state has the shape of the ledger's records.
TypeOK ==
  /\ version \in 0..MaxVersion
  /\ signed \in BOOLEAN
  /\ run \in Run
  /\ evals \in [Evals -> Eval]
  /\ artifacts \in [Artifacts -> Artifact]
  /\ plans \in [Plans -> Plan]
  /\ handlers \in [Handlers -> Handler]

\* A passed evaluation that is not marked stale describes the telemetry the run has now,
\* and is attested only if every chunk of it was signed, although it is computed and
\* registered in two store operations between which telemetry may arrive.
PassedIsCurrent ==
  \A e \in Evals :
    evals[e].status = "passed" /\ ~evals[e].stale =>
      evals[e].revision = version /\ (evals[e].attested => signed)

\* A canary or live plan becomes ready only by an approval given while its artifact is
\* published and its evaluation describes the present, signed telemetry of the run.
ReleaseIsJustified ==
  [][\A p \in Plans :
       plans[p].mode \in {"canary", "live"} /\ plans[p].status # "ready" /\ plans'[p].status = "ready" =>
         /\ plans'[p].approval = "approved"
         /\ artifacts[plans[p].artifact].status = "published"
         /\ evals[plans[p].eval].revision = version
         /\ evals[plans[p].eval].attested /\ signed]_vars

\* A rejected plan is never approved or ready again, and a cancelled one stays as it is,
\* whatever an approval or a probe answers later.
DecisionsStay ==
  [][\A p \in Plans :
       /\ plans[p].approval = "rejected" =>
            plans'[p].approval = "rejected" /\ plans'[p].status # "ready"
       /\ plans[p].status = "cancelled" => plans'[p] = plans[p]]_vars

\* A preflight plan is ready only on the answer of a probe that passed, however many
\* probes of it are in flight.
PreflightIsVerified ==
  \A p \in Plans : plans[p].mode = "preflight" /\ plans[p].status = "ready" => plans[p].verified
====
