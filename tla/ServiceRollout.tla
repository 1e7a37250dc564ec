----------------------------- MODULE ServiceRollout -----------------------------
(***************************************************************************)
(* The delivery scripts that move the API and the Worker to a new revision *)
(* and back: promote-staging.sh and the deploy step of deploy-dev.yml      *)
(* ("rolling": both services by ECS), and promote-production.sh ("canary": *)
(* the Worker by ECS, then the API by a CodeDeploy blue/green deployment). *)
(* A workflow's concurrency group lets one script run at a time in an      *)
(* environment; ECS, its circuit breaker and CodeDeploy run beside it.     *)
(***************************************************************************)
EXTENDS Naturals, FiniteSets

CONSTANTS Releases,   \* script runs, named by the task definitions they register
          Bootstrap,  \* the task definitions Terraform created
          MaxFaults   \* bound: AWS calls that report an error they should not

ASSUME ServiceRolloutAssumption ==
    /\ Bootstrap \notin Releases
    /\ MaxFaults \in Nat

Services == {"api", "worker"}
Revisions == Releases \cup {Bootstrap}
Scripts == {"rolling", "canary"}
Outcomes == {"none", "running", "released", "failed", "killed"}
DeploymentStates == {"none", "running", "stopping", "succeeded", "failed"}
Steps == {"idle", "update_worker", "update_api", "wait_both", "check_both",
          "wait_worker", "check_worker", "create_api", "wait_api", "check_api",
          "verify", "restore_api", "wait_reverse", "restore_worker", "wait_restored"}
\* killed: a run was cut short; reported: it said "Rollback incomplete";
\* unknown_deployment: CodeDeploy runs what the script has no id of;
\* rollback_rejected: a circuit breaker refused the previous revision;
\* read_too_early: a run read PRIMARY while CodeDeploy was still rolling back.
Damages == {"killed", "reported", "unknown_deployment", "rollback_rejected",
            "read_too_early"}

VARIABLES script,        \* which kind of script serves this environment
          target,        \* the task definition of a service's primary deployment
          completed,     \* the last one that reached a steady state
          stable,        \* whether services-stable holds of the service
          deployment,    \* CodeDeploy's latest deployment of the API
          pc,            \* the next command of the script
          release,       \* its IMAGE_TAG
          previous,      \* previous_api_task and previous_worker_task
          idKnown,       \* api_deployment_id is set
          apiSucceeded,  \* api_deployment_succeeded
          inSubshell,    \* the trap is running in a command substitution
          outcome,       \* how each script run ended
          damage,        \* what went wrong that no script undoes
          faults         \* faults so far

serviceVars == <<target, completed, stable>>
scriptVars == <<release, previous, idKnown, apiSucceeded>>
vars == <<script, serviceVars, deployment, pc, scriptVars, inSubshell,
          outcome, damage, faults>>

TypeOK ==
    /\ script \in Scripts
    /\ target \in [Services -> Revisions]
    /\ completed \in [Services -> Revisions]
    /\ stable \in [Services -> BOOLEAN]
    /\ deployment \in [from : Revisions, to : Revisions, state : DeploymentStates]
    /\ pc \in Steps
    /\ release \in Revisions
    /\ previous \in [Services -> Revisions]
    /\ idKnown \in BOOLEAN
    /\ apiSucceeded \in BOOLEAN
    /\ inSubshell \in BOOLEAN
    /\ outcome \in [Releases -> Outcomes]
    /\ damage \subseteq Damages
    /\ faults \in 0..MaxFaults

Init ==
    /\ script \in Scripts
    /\ target = [s \in Services |-> Bootstrap]
    /\ completed = [s \in Services |-> Bootstrap]
    /\ stable = [s \in Services |-> TRUE]
    /\ deployment = [from |-> Bootstrap, to |-> Bootstrap, state |-> "none"]
    /\ pc = "idle"
    /\ release = Bootstrap
    /\ previous = [s \in Services |-> Bootstrap]
    /\ idKnown = FALSE
    /\ apiSucceeded = FALSE
    /\ inSubshell = FALSE
    /\ outcome = [r \in Releases |-> "none"]
    /\ damage = {}
    /\ faults = 0

NoFault == UNCHANGED faults
Fault == faults < MaxFaults /\ faults' = faults + 1

(***************************************************************************)
(* ECS rolling deployments and CodeDeploy.                                 *)
(***************************************************************************)

\* The services whose deployment controller is ECS.
Rolling == IF script = "rolling" THEN Services ELSE {"worker"}

\* update-service: nothing to do when the service has that task definition.
UpdateService(s, revision) ==
    /\ target' = [target EXCEPT ![s] = revision]
    /\ stable' = [stable EXCEPT ![s] = @ /\ target[s] = revision]
    /\ UNCHANGED completed

\* The primary deployment reaches a steady state.
Settle(s) ==
    /\ s \in Rolling
    /\ ~stable[s]
    /\ stable' = [stable EXCEPT ![s] = TRUE]
    /\ completed' = [completed EXCEPT ![s] = target[s]]
    /\ UNCHANGED <<script, target, deployment, pc, scriptVars, inSubshell,
                   outcome, damage, faults>>

\* The circuit breaker returns to the last revision that reached a steady state.
Trip(s) ==
    /\ s \in Rolling
    /\ ~stable[s]
    /\ target[s] # completed[s]
    /\ target' = [target EXCEPT ![s] = completed[s]]
    /\ damage' = IF target[s] = release THEN damage
                 ELSE damage \cup {"rollback_rejected"}
    /\ UNCHANGED <<script, completed, stable, deployment, pc, scriptVars,
                   inSubshell, outcome, faults>>

InProgress == deployment.state \in {"running", "stopping"}

\* create-deployment: a deployment group runs one deployment at a time.
CreateDeployment(revision) ==
    /\ ~InProgress
    /\ deployment' = [from |-> target["api"], to |-> revision, state |-> "running"]
    /\ UNCHANGED serviceVars

\* Production traffic goes to the green task set, which becomes PRIMARY.
ShiftTraffic ==
    /\ deployment.state = "running"
    /\ target["api"] # deployment.to
    /\ target' = [target EXCEPT !["api"] = deployment.to]
    /\ UNCHANGED <<script, completed, stable, deployment, pc, scriptVars,
                   inSubshell, outcome, damage, faults>>

DeploymentSucceeds ==
    /\ deployment.state = "running"
    /\ target["api"] = deployment.to
    /\ deployment' = [deployment EXCEPT !.state = "succeeded"]
    /\ UNCHANGED <<script, serviceVars, pc, scriptVars, inSubshell, outcome,
                   damage, faults>>

\* A failure, an alarm or a stop: CodeDeploy returns traffic to blue.
DeploymentFails ==
    /\ InProgress
    /\ deployment' = [deployment EXCEPT !.state = "failed"]
    /\ target' = [target EXCEPT !["api"] = deployment.from]
    /\ UNCHANGED <<script, completed, stable, pc, scriptVars, inSubshell,
                   outcome, damage, faults>>

(***************************************************************************)
(* The scripts.  "set -E" lets command substitutions inherit the ERR trap: *)
(* a failure inside $(...) runs rollback in the subshell, and then once    *)
(* more in the script.                                                     *)
(***************************************************************************)

Proceed(step) == pc' = step /\ UNCHANGED inSubshell

Rollback(substitution) == pc' = "restore_api" /\ inSubshell' = substitution

Report == damage' = damage \cup {"reported"}

\* Mutant of Begin: nobody checks that a task definition was read.
BeginUnchecked(r) ==
    /\ pc = "idle"
    /\ outcome[r] = "none"
    /\ release' = r
    /\ previous' = [target EXCEPT !["api"] = "None"]
    /\ idKnown' = FALSE
    /\ apiSucceeded' = FALSE
    /\ outcome' = [outcome EXCEPT ![r] = "running"]
    /\ Proceed("update_worker")
    /\ UNCHANGED <<script, serviceVars, deployment, damage, faults>>

\* Both previous task definitions are read before anything is changed.
Begin(r) ==
    /\ pc = "idle"
    /\ outcome[r] = "none"
    /\ release' = r
    /\ previous' = target
    /\ idKnown' = FALSE
    /\ apiSucceeded' = FALSE
    /\ outcome' = [outcome EXCEPT ![r] = "running"]
    /\ damage' = IF InProgress THEN damage \cup {"read_too_early"} ELSE damage
    /\ Proceed("update_worker")
    /\ UNCHANGED <<script, serviceVars, deployment, faults>>

\* An update-service of the way forward, applied or not when it fails.
Update(s, step) ==
    /\ \/ UpdateService(s, release) /\ Proceed(step) /\ NoFault
       \/ UpdateService(s, release) /\ Rollback(FALSE) /\ Fault
       \/ UNCHANGED serviceVars /\ Rollback(FALSE) /\ Fault
    /\ UNCHANGED <<script, deployment, scriptVars, outcome, damage>>

UpdateWorker ==
    /\ pc = "update_worker"
    /\ Update("worker", IF script = "rolling" THEN "update_api" ELSE "wait_worker")

UpdateApi == pc = "update_api" /\ Update("api", "wait_both")

\* services-stable polls for ten minutes.
Wait(services, step) ==
    /\ \/ (\A s \in services : stable[s]) /\ Proceed(step) /\ NoFault
       \/ (\E s \in services : ~stable[s]) /\ Rollback(FALSE) /\ NoFault
       \/ Rollback(FALSE) /\ Fault
    /\ UNCHANGED <<script, serviceVars, deployment, scriptVars, outcome, damage>>

WaitBoth == pc = "wait_both" /\ Wait(Services, "check_both")

WaitWorker == pc = "wait_worker" /\ Wait({"worker"}, "check_worker")

\* Mutant of Check: stability is taken for success.
CheckNothing(services, step) ==
    /\ Proceed(step)
    /\ UNCHANGED <<script, serviceVars, deployment, scriptVars, outcome, damage, faults>>

\* What runs must be what was asked for: a circuit breaker leaves a stable
\* service, too.
Check(services, step) ==
    /\ \/ (\A s \in services : target[s] = release) /\ Proceed(step) /\ NoFault
       \/ (\E s \in services : target[s] # release) /\ Rollback(FALSE) /\ NoFault
       \/ Rollback(TRUE) /\ Fault
    /\ UNCHANGED <<script, serviceVars, deployment, scriptVars, outcome, damage>>

CheckBoth == pc = "check_both" /\ Check(Services, "verify")

CheckWorker == pc = "check_worker" /\ Check({"worker"}, "create_api")

\* A create-deployment whose answer is lost is refused when the CLI repeats it.
CreateApi ==
    /\ pc = "create_api"
    /\ \/ /\ CreateDeployment(release)
          /\ idKnown' = TRUE
          /\ Proceed("wait_api")
          /\ NoFault /\ UNCHANGED damage
       \/ /\ InProgress
          /\ Rollback(TRUE)
          /\ NoFault /\ UNCHANGED <<serviceVars, deployment, idKnown, damage>>
       \/ /\ CreateDeployment(release)
          /\ Rollback(TRUE)
          /\ damage' = damage \cup {"unknown_deployment"}
          /\ Fault /\ UNCHANGED idKnown
       \/ /\ Rollback(TRUE)
          /\ Fault /\ UNCHANGED <<serviceVars, deployment, idKnown, damage>>
    /\ UNCHANGED <<script, release, previous, apiSucceeded, outcome>>

WaitApi ==
    /\ pc = "wait_api"
    /\ \/ /\ deployment.state = "succeeded"
          /\ apiSucceeded' = TRUE
          /\ Proceed("check_api") /\ NoFault
       \/ /\ deployment.state # "succeeded"
          /\ Rollback(FALSE) /\ NoFault /\ UNCHANGED apiSucceeded
       \/ Rollback(FALSE) /\ Fault /\ UNCHANGED apiSucceeded
    /\ UNCHANGED <<script, serviceVars, deployment, release, previous, idKnown,
                   outcome, damage>>

CheckApi == pc = "check_api" /\ Check({"api"}, "verify")

\* Health, readiness, evaluation and one asynchronous job.
Verify ==
    /\ pc = "verify"
    /\ \/ Proceed("idle") /\ outcome' = [outcome EXCEPT ![release] = "released"]
       \/ (\E substitution \in BOOLEAN : Rollback(substitution)) /\ UNCHANGED outcome
    /\ UNCHANGED <<script, serviceVars, deployment, scriptVars, damage, faults>>

(***************************************************************************)
(* rollback: it goes on after every failure and reports it.                *)
(***************************************************************************)

\* An update-service of the way back.
Restore(s, step) ==
    /\ \/ UpdateService(s, previous[s]) /\ NoFault /\ UNCHANGED damage
       \/ UpdateService(s, previous[s]) /\ Fault /\ Report
       \/ UNCHANGED serviceVars /\ Fault /\ Report
    /\ Proceed(step)
    /\ UNCHANGED <<script, deployment, scriptVars, outcome>>

RestoreApiService ==
    /\ pc = "restore_api"
    /\ script = "rolling"
    /\ Restore("api", "restore_worker")

\* stop-deployment --auto-rollback-enabled; it does not wait for the rollback.
StopDeployment ==
    LET stopped == deployment' = [deployment EXCEPT !.state = "stopping"]
    IN /\ pc = "restore_api"
       /\ script = "canary"
       /\ idKnown /\ ~apiSucceeded
       /\ \/ InProgress /\ stopped /\ NoFault /\ UNCHANGED damage
          \/ InProgress /\ stopped /\ Fault /\ Report
          \/ InProgress /\ UNCHANGED deployment /\ Fault /\ Report
          \/ ~InProgress /\ UNCHANGED deployment /\ NoFault /\ Report
       /\ Proceed("restore_worker")
       /\ UNCHANGED <<script, serviceVars, scriptVars, outcome>>

ReverseDeployment ==
    LET created == CreateDeployment(previous["api"])
        kept == UNCHANGED <<serviceVars, deployment>>
    IN /\ pc = "restore_api"
       /\ script = "canary"
       /\ apiSucceeded
       /\ \/ created /\ Proceed("wait_reverse") /\ NoFault /\ UNCHANGED damage
          \/ created /\ Proceed("restore_worker") /\ Fault /\ Report
          \/ InProgress /\ kept /\ Proceed("restore_worker") /\ NoFault /\ Report
          \/ ~InProgress /\ kept /\ Proceed("restore_worker") /\ Fault /\ Report
       /\ UNCHANGED <<script, scriptVars, outcome>>

\* The API was not touched, as far as the script knows.
NothingToReverse ==
    /\ pc = "restore_api"
    /\ script = "canary"
    /\ ~idKnown /\ ~apiSucceeded
    /\ Proceed("restore_worker")
    /\ UNCHANGED <<script, serviceVars, deployment, scriptVars, outcome, damage, faults>>

WaitReverse ==
    /\ pc = "wait_reverse"
    /\ \/ deployment.state = "succeeded" /\ NoFault /\ UNCHANGED damage
       \/ deployment.state # "succeeded" /\ NoFault /\ Report
       \/ deployment.state = "succeeded" /\ Fault /\ Report
    /\ Proceed("restore_worker")
    /\ UNCHANGED <<script, serviceVars, deployment, scriptVars, outcome>>

\* Mutant of RestoreWorker: worker_started was never set.
RestoreWorkerForgotten ==
    /\ pc = "restore_worker"
    /\ Proceed("wait_restored")
    /\ UNCHANGED <<script, serviceVars, deployment, scriptVars, outcome, damage, faults>>

RestoreWorker ==
    /\ pc = "restore_worker"
    /\ Restore("worker", "wait_restored")

\* Mutant of Leave: the subshell's trap is taken for ever.
LeaveSubshellNever ==
    IF inSubshell
    THEN Proceed("restore_api") /\ UNCHANGED outcome
    ELSE Proceed("idle") /\ outcome' = [outcome EXCEPT ![release] = "failed"]

\* exit: from the subshell back to the script's own trap, or from the script.
Leave ==
    IF inSubshell
    THEN Rollback(FALSE) /\ UNCHANGED outcome
    ELSE Proceed("idle") /\ outcome' = [outcome EXCEPT ![release] = "failed"]

WaitRestored ==
    /\ pc = "wait_restored"
    /\ \/ (\A s \in Rolling : stable[s]) /\ NoFault /\ UNCHANGED damage
       \/ (\E s \in Rolling : ~stable[s]) /\ NoFault /\ Report
       \/ (\A s \in Rolling : stable[s]) /\ Fault /\ Report
    /\ Leave
    /\ UNCHANGED <<script, serviceVars, deployment, scriptVars>>

\* The job is cancelled or times out: a signal does not run the ERR trap.
Kill ==
    /\ pc # "idle"
    /\ pc' = "idle"
    /\ inSubshell' = FALSE
    /\ outcome' = [outcome EXCEPT ![release] = "killed"]
    /\ damage' = damage \cup {"killed"}
    /\ UNCHANGED <<script, serviceVars, deployment, scriptVars, faults>>

ScriptStep ==
    \/ UpdateWorker \/ UpdateApi \/ WaitBoth \/ CheckBoth
    \/ WaitWorker \/ CheckWorker \/ CreateApi \/ WaitApi \/ CheckApi \/ Verify
    \/ RestoreApiService \/ StopDeployment \/ ReverseDeployment \/ NothingToReverse
    \/ WaitReverse \/ RestoreWorker \/ WaitRestored

CloudStep ==
    \/ \E s \in Services : Settle(s) \/ Trip(s)
    \/ ShiftTraffic \/ DeploymentSucceeds \/ DeploymentFails

Next ==
    \/ \E r \in Releases : Begin(r)
    \/ ScriptStep
    \/ Kill
    \/ CloudStep

Spec == Init /\ [][Next]_vars

\* A started script goes on: each of its commands returns or times out.
FairSpec == Spec /\ WF_vars(ScriptStep)

(***************************************************************************)
(* Properties                                                              *)
(***************************************************************************)

Quiet == pc = "idle" /\ ~InProgress /\ \A s \in Services : stable[s]

Released == {r \in Releases : outcome[r] = "released"}

\* Once an environment is quiet, both services serve one revision: the last
\* released, or after a failed release the one from before it.  Only the
\* damages can break that, and each script run may be followed by others.
ServesOneRelease ==
    Quiet /\ damage = {} =>
        /\ target["api"] = target["worker"]
        /\ target["api"] \in Released \cup {Bootstrap}
        /\ release \in Released => target["api"] = release
        /\ release \notin Released => target = previous

\* A release is reported as completed only when both services serve it,
\* whatever circuit breakers, faults and earlier runs did.
ReleasedIsServed ==
    [][\A r \in Releases : outcome[r] = "running" /\ outcome'[r] = "released" =>
            \A s \in Services : target[s] = r]_vars

\* promote-production.sh: the API takes traffic on a new revision only after
\* the Worker reached a steady state on it, in this run or an earlier one.
WorkerFirst ==
    [][script = "canary" /\ target'["api"] # target["api"]
           /\ pc \in {"create_api", "wait_api"}
           => target["worker"] = release /\ stable["worker"]]_vars

\* A script run ends, its rollback included.
ScriptEnds == (pc # "idle") ~> (pc = "idle")

\* README.md: "Any deployment or smoke-test failure restores both previous task
\* definitions" - unless the run itself reported that it could not.
FailureRestoresBoth ==
    pc = "idle" /\ script = "rolling" /\ release # Bootstrap /\ "reported" \notin damage =>
        (outcome[release] = "failed" => target = previous)
=============================================================================
