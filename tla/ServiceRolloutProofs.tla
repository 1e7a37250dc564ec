-------------------------- MODULE ServiceRolloutProofs --------------------------
(***************************************************************************)
(* Theorems about ServiceRollout for any set of releases and any number of *)
(* faults.                                                                 *)
(***************************************************************************)
EXTENDS ServiceRollout, TLAPS

(***************************************************************************)
(* The inductive invariant: what holds whatever goes wrong.                *)
(***************************************************************************)

RollingSteps == {"update_api", "wait_both", "check_both"}
CanarySteps == {"wait_worker", "check_worker", "create_api", "wait_api", "check_api",
                "wait_reverse"}

\* A script that runs is reported as running and takes the steps of its kind; ECS
\* moves the services of a rolling environment, CodeDeploy the API of the other;
\* what is stable was deployed to the end.
ScriptInv ==
    /\ pc # "idle" => release \in Releases /\ outcome[release] = "running"
    /\ pc \in RollingSteps => script = "rolling"
    /\ pc \in CanarySteps => script = "canary"
    /\ script = "rolling" => deployment.state = "none"
    /\ script = "canary" => stable["api"]
    /\ \A s \in Rolling : stable[s] => completed[s] = target[s]

\* What the script has waited for and checked on its way forward stays so.
CheckedInv ==
    /\ pc = "check_both" \/ (pc = "verify" /\ script = "rolling") =>
           \A s \in Services : stable[s]
    /\ pc \in {"check_worker", "create_api", "wait_api", "check_api", "verify"} =>
           stable["worker"]
    /\ pc \in {"create_api", "wait_api", "check_api", "verify"} =>
           target["worker"] = release
    /\ pc \in {"check_api", "verify"} => ~InProgress
    /\ pc = "verify" => target["api"] = release

(***************************************************************************)
(* What holds while no damage was done.                                    *)
(***************************************************************************)

\* A run starts from one revision, which was released, and is of another.
BaseInv ==
    /\ previous["api"] = previous["worker"]
    /\ previous["api"] \in Released \cup {Bootstrap}

\* Between two runs everything is stable: either on what was released, or on what
\* was there before, or CodeDeploy is on its way there.
IdleInv ==
    pc = "idle" =>
        /\ \A s \in Services : stable[s]
        /\ release \in Released =>
               ~InProgress /\ \A s \in Services : target[s] = release
        /\ release \notin Released =>
               /\ target["worker"] = previous["worker"]
               /\ InProgress =>
                      deployment.state = "stopping" /\ deployment.from = previous["api"]
               /\ ~InProgress => target["api"] = previous["api"]

\* While a run goes on, ECS knows the new and the previous revision only, and
\* keeps what was restored.
RollingInv ==
    /\ pc # "idle" =>
           \A s \in Rolling : {target[s], completed[s]} \subseteq {previous[s], release}
    /\ pc \in {"restore_worker", "wait_restored"} /\ script = "rolling" =>
           target["api"] = previous["api"]
    /\ pc = "wait_restored" => target["worker"] = previous["worker"]

\* CodeDeploy and what the script knows of it, from the first command to the last.
CanaryInv ==
    script = "canary" =>
        /\ pc \in {"update_worker", "wait_worker", "check_worker", "create_api"} =>
               ~InProgress /\ ~idKnown /\ ~apiSucceeded /\ target["api"] = previous["api"]
        /\ pc = "wait_api" =>
               /\ deployment.from = previous["api"]
               /\ idKnown /\ ~apiSucceeded
        /\ pc \in {"check_api", "verify"} => apiSucceeded
        /\ pc \in {"restore_api", "restore_worker", "wait_restored"} =>
               /\ ~idKnown /\ ~apiSucceeded => ~InProgress /\ target["api"] = previous["api"]
               /\ idKnown /\ ~apiSucceeded => deployment.from = previous["api"]
               /\ apiSucceeded => ~InProgress
        /\ pc = "wait_reverse" =>
               /\ apiSucceeded
               /\ deployment.to = previous["api"]
               /\ deployment.state = "succeeded" => target["api"] = previous["api"]
        /\ pc \in {"restore_worker", "wait_restored"} =>
               /\ InProgress => deployment.state = "stopping"
               /\ ~InProgress => target["api"] = previous["api"]

CleanInv == damage = {} => BaseInv /\ IdleInv /\ RollingInv /\ CanaryInv

IInv == TypeOK /\ ScriptInv /\ CheckedInv /\ CleanInv

(***************************************************************************)
(* Types, in parts: what AWS keeps, what the script keeps, what is         *)
(* recorded.                                                               *)
(***************************************************************************)

ServiceTypes ==
    /\ target \in [Services -> Revisions]
    /\ completed \in [Services -> Revisions]
    /\ stable \in [Services -> BOOLEAN]

DeploymentType ==
    deployment \in [from : Revisions, to : Revisions, state : DeploymentStates]

ScriptTypes ==
    /\ script \in Scripts
    /\ pc \in Steps
    /\ release \in Revisions
    /\ previous \in [Services -> Revisions]
    /\ idKnown \in BOOLEAN
    /\ apiSucceeded \in BOOLEAN
    /\ inSubshell \in BOOLEAN

RecordTypes ==
    /\ outcome \in [Releases -> Outcomes]
    /\ damage \subseteq Damages
    /\ faults \in 0..MaxFaults

\* TypeOK is its parts.
LEMMA TypeParts ==
    TypeOK <=> ServiceTypes /\ DeploymentType /\ ScriptTypes /\ RecordTypes
  BY DEF TypeOK, ServiceTypes, DeploymentType, ScriptTypes, RecordTypes

\* Every release is a revision, and so is what Terraform created.
LEMMA RevisionsKnown == Releases \subseteq Revisions /\ Bootstrap \in Revisions
  BY DEF Revisions

\* A service only ever gets a revision that was registered.
LEMMA ServiceTypeStep ==
    ASSUME TypeOK, [Next]_vars
    PROVE  ServiceTypes'
<1> USE DEF serviceVars, scriptVars, Proceed, Rollback, TypeOK, ServiceTypes, Services
<1>1. CASE \E r \in Releases : Begin(r)
  BY <1>1, RevisionsKnown DEF Begin, InProgress
<1>2. CASE UpdateWorker
  BY <1>2, RevisionsKnown DEF UpdateWorker, Update, UpdateService
<1>3. CASE UpdateApi
  BY <1>3, RevisionsKnown DEF UpdateApi, Update, UpdateService
<1>4. CASE WaitBoth
  BY <1>4, RevisionsKnown DEF WaitBoth, Wait
<1>5. CASE CheckBoth
  BY <1>5, RevisionsKnown DEF CheckBoth, Check
<1>6. CASE WaitWorker
  BY <1>6, RevisionsKnown DEF WaitWorker, Wait
<1>7. CASE CheckWorker
  BY <1>7, RevisionsKnown DEF CheckWorker, Check
<1>8. CASE CreateApi
  BY <1>8, RevisionsKnown DEF CreateApi, CreateDeployment, InProgress
<1>9. CASE WaitApi
  BY <1>9, RevisionsKnown DEF WaitApi
<1>10. CASE CheckApi
  BY <1>10, RevisionsKnown DEF CheckApi, Check
<1>11. CASE Verify
  BY <1>11, RevisionsKnown DEF Verify
<1>12. CASE RestoreApiService
  BY <1>12, RevisionsKnown DEF RestoreApiService, Restore, UpdateService
<1>13. CASE StopDeployment
  BY <1>13, RevisionsKnown DEF StopDeployment, InProgress
<1>14. CASE ReverseDeployment
  BY <1>14, RevisionsKnown DEF ReverseDeployment, CreateDeployment, InProgress
<1>15. CASE NothingToReverse
  BY <1>15, RevisionsKnown DEF NothingToReverse
<1>16. CASE WaitReverse
  BY <1>16, RevisionsKnown DEF WaitReverse
<1>17. CASE RestoreWorker
  BY <1>17, RevisionsKnown DEF RestoreWorker, Restore, UpdateService
<1>18. CASE WaitRestored
  BY <1>18, RevisionsKnown DEF WaitRestored, Leave
<1>19. CASE Kill
  BY <1>19, RevisionsKnown DEF Kill
<1>20. CASE \E s \in Services : Settle(s)
  BY <1>20, RevisionsKnown DEF Settle
<1>21. CASE \E s \in Services : Trip(s)
  BY <1>21, RevisionsKnown DEF Trip
<1>22. CASE ShiftTraffic
  BY <1>22, RevisionsKnown DEF ShiftTraffic
<1>23. CASE DeploymentSucceeds
  BY <1>23, RevisionsKnown DEF DeploymentSucceeds
<1>24. CASE DeploymentFails
  BY <1>24, RevisionsKnown DEF DeploymentFails, InProgress
<1>25. CASE UNCHANGED vars
  BY <1>25, RevisionsKnown DEF vars
<1> QED
  BY <1>1, <1>2, <1>3, <1>4, <1>5, <1>6, <1>7, <1>8, <1>9, <1>10, <1>11, <1>12, <1>13,
     <1>14, <1>15, <1>16, <1>17, <1>18, <1>19, <1>20, <1>21, <1>22, <1>23, <1>24, <1>25
     DEF Next, ScriptStep, CloudStep

\* CodeDeploy only ever moves between revisions that were registered.
LEMMA DeploymentTypeStep ==
    ASSUME TypeOK, [Next]_vars
    PROVE  DeploymentType'
<1> USE DEF serviceVars, scriptVars, Proceed, Rollback, TypeOK, DeploymentType, Services,
           DeploymentStates
<1>1. CASE \E r \in Releases : Begin(r)
  BY <1>1, RevisionsKnown DEF Begin, InProgress
<1>2. CASE UpdateWorker
  BY <1>2, RevisionsKnown DEF UpdateWorker, Update, UpdateService
<1>3. CASE UpdateApi
  BY <1>3, RevisionsKnown DEF UpdateApi, Update, UpdateService
<1>4. CASE WaitBoth
  BY <1>4, RevisionsKnown DEF WaitBoth, Wait
<1>5. CASE CheckBoth
  BY <1>5, RevisionsKnown DEF CheckBoth, Check
<1>6. CASE WaitWorker
  BY <1>6, RevisionsKnown DEF WaitWorker, Wait
<1>7. CASE CheckWorker
  BY <1>7, RevisionsKnown DEF CheckWorker, Check
<1>8. CASE CreateApi
  BY <1>8, RevisionsKnown DEF CreateApi, CreateDeployment, InProgress
<1>9. CASE WaitApi
  BY <1>9, RevisionsKnown DEF WaitApi
<1>10. CASE CheckApi
  BY <1>10, RevisionsKnown DEF CheckApi, Check
<1>11. CASE Verify
  BY <1>11, RevisionsKnown DEF Verify
<1>12. CASE RestoreApiService
  BY <1>12, RevisionsKnown DEF RestoreApiService, Restore, UpdateService
<1>13. CASE StopDeployment
  BY <1>13, RevisionsKnown DEF StopDeployment, InProgress
<1>14. CASE ReverseDeployment
  BY <1>14, RevisionsKnown DEF ReverseDeployment, CreateDeployment, InProgress
<1>15. CASE NothingToReverse
  BY <1>15, RevisionsKnown DEF NothingToReverse
<1>16. CASE WaitReverse
  BY <1>16, RevisionsKnown DEF WaitReverse
<1>17. CASE RestoreWorker
  BY <1>17, RevisionsKnown DEF RestoreWorker, Restore, UpdateService
<1>18. CASE WaitRestored
  BY <1>18, RevisionsKnown DEF WaitRestored, Leave
<1>19. CASE Kill
  BY <1>19, RevisionsKnown DEF Kill
<1>20. CASE \E s \in Services : Settle(s)
  BY <1>20, RevisionsKnown DEF Settle
<1>21. CASE \E s \in Services : Trip(s)
  BY <1>21, RevisionsKnown DEF Trip
<1>22. CASE ShiftTraffic
  BY <1>22, RevisionsKnown DEF ShiftTraffic
<1>23. CASE DeploymentSucceeds
  BY <1>23, RevisionsKnown DEF DeploymentSucceeds
<1>24. CASE DeploymentFails
  BY <1>24, RevisionsKnown DEF DeploymentFails, InProgress
<1>25. CASE UNCHANGED vars
  BY <1>25, RevisionsKnown DEF vars
<1> QED
  BY <1>1, <1>2, <1>3, <1>4, <1>5, <1>6, <1>7, <1>8, <1>9, <1>10, <1>11, <1>12, <1>13,
     <1>14, <1>15, <1>16, <1>17, <1>18, <1>19, <1>20, <1>21, <1>22, <1>23, <1>24, <1>25
     DEF Next, ScriptStep, CloudStep

\* The script's variables keep their types.
LEMMA ScriptTypeStep ==
    ASSUME TypeOK, [Next]_vars
    PROVE  ScriptTypes'
<1> USE DEF serviceVars, scriptVars, Proceed, Rollback, TypeOK, ScriptTypes, Steps
<1>1. CASE \E r \in Releases : Begin(r)
  BY <1>1, RevisionsKnown DEF Begin, InProgress
<1>2. CASE UpdateWorker
  BY <1>2, RevisionsKnown DEF UpdateWorker, Update, UpdateService
<1>3. CASE UpdateApi
  BY <1>3, RevisionsKnown DEF UpdateApi, Update, UpdateService
<1>4. CASE WaitBoth
  BY <1>4, RevisionsKnown DEF WaitBoth, Wait
<1>5. CASE CheckBoth
  BY <1>5, RevisionsKnown DEF CheckBoth, Check
<1>6. CASE WaitWorker
  BY <1>6, RevisionsKnown DEF WaitWorker, Wait
<1>7. CASE CheckWorker
  BY <1>7, RevisionsKnown DEF CheckWorker, Check
<1>8. CASE CreateApi
  BY <1>8, RevisionsKnown DEF CreateApi, CreateDeployment, InProgress
<1>9. CASE WaitApi
  BY <1>9, RevisionsKnown DEF WaitApi
<1>10. CASE CheckApi
  BY <1>10, RevisionsKnown DEF CheckApi, Check
<1>11. CASE Verify
  BY <1>11, RevisionsKnown DEF Verify
<1>12. CASE RestoreApiService
  BY <1>12, RevisionsKnown DEF RestoreApiService, Restore, UpdateService
<1>13. CASE StopDeployment
  BY <1>13, RevisionsKnown DEF StopDeployment, InProgress
<1>14. CASE ReverseDeployment
  BY <1>14, RevisionsKnown DEF ReverseDeployment, CreateDeployment, InProgress
<1>15. CASE NothingToReverse
  BY <1>15, RevisionsKnown DEF NothingToReverse
<1>16. CASE WaitReverse
  BY <1>16, RevisionsKnown DEF WaitReverse
<1>17. CASE RestoreWorker
  BY <1>17, RevisionsKnown DEF RestoreWorker, Restore, UpdateService
<1>18. CASE WaitRestored
  BY <1>18, RevisionsKnown DEF WaitRestored, Leave
<1>19. CASE Kill
  BY <1>19, RevisionsKnown DEF Kill
<1>20. CASE \E s \in Services : Settle(s)
  BY <1>20, RevisionsKnown DEF Settle
<1>21. CASE \E s \in Services : Trip(s)
  BY <1>21, RevisionsKnown DEF Trip
<1>22. CASE ShiftTraffic
  BY <1>22, RevisionsKnown DEF ShiftTraffic
<1>23. CASE DeploymentSucceeds
  BY <1>23, RevisionsKnown DEF DeploymentSucceeds
<1>24. CASE DeploymentFails
  BY <1>24, RevisionsKnown DEF DeploymentFails, InProgress
<1>25. CASE UNCHANGED vars
  BY <1>25, RevisionsKnown DEF vars
<1> QED
  BY <1>1, <1>2, <1>3, <1>4, <1>5, <1>6, <1>7, <1>8, <1>9, <1>10, <1>11, <1>12, <1>13,
     <1>14, <1>15, <1>16, <1>17, <1>18, <1>19, <1>20, <1>21, <1>22, <1>23, <1>24, <1>25
     DEF Next, ScriptStep, CloudStep

\* Outcomes, damages and faults keep their types.
LEMMA RecordTypeStep ==
    ASSUME TypeOK, [Next]_vars
    PROVE  RecordTypes'
<1> USE DEF serviceVars, scriptVars, Proceed, Rollback, TypeOK, RecordTypes, Outcomes
<1>1. /\ NoFault => faults' \in 0..MaxFaults
      /\ Fault => faults' \in 0..MaxFaults
  BY ServiceRolloutAssumption DEF NoFault, Fault
<1>2. /\ Report => damage' \subseteq Damages
      /\ \A d \in Damages : damage \cup {d} \subseteq Damages
      /\ {"killed", "unknown_deployment", "rollback_rejected",
          "read_too_early"} \subseteq Damages
  BY DEF Report, Damages
<1>3. CASE \E r \in Releases : Begin(r)
  BY <1>3, <1>1, <1>2 DEF Begin, InProgress
<1>4. CASE UpdateWorker
  BY <1>4, <1>1, <1>2 DEF UpdateWorker, Update, UpdateService
<1>5. CASE UpdateApi
  BY <1>5, <1>1, <1>2 DEF UpdateApi, Update, UpdateService
<1>6. CASE WaitBoth
  BY <1>6, <1>1, <1>2 DEF WaitBoth, Wait
<1>7. CASE CheckBoth
  BY <1>7, <1>1, <1>2 DEF CheckBoth, Check
<1>8. CASE WaitWorker
  BY <1>8, <1>1, <1>2 DEF WaitWorker, Wait
<1>9. CASE CheckWorker
  BY <1>9, <1>1, <1>2 DEF CheckWorker, Check
<1>10. CASE CreateApi
  BY <1>10, <1>1, <1>2 DEF CreateApi, CreateDeployment, InProgress
<1>11. CASE WaitApi
  BY <1>11, <1>1, <1>2 DEF WaitApi
<1>12. CASE CheckApi
  BY <1>12, <1>1, <1>2 DEF CheckApi, Check
<1>13. CASE Verify
  BY <1>13, <1>1, <1>2 DEF Verify
<1>14. CASE RestoreApiService
  BY <1>14, <1>1, <1>2 DEF RestoreApiService, Restore, UpdateService
<1>15. CASE StopDeployment
  BY <1>15, <1>1, <1>2 DEF StopDeployment, InProgress
<1>16. CASE ReverseDeployment
  BY <1>16, <1>1, <1>2 DEF ReverseDeployment, CreateDeployment, InProgress
<1>17. CASE NothingToReverse
  BY <1>17, <1>1, <1>2 DEF NothingToReverse
<1>18. CASE WaitReverse
  BY <1>18, <1>1, <1>2 DEF WaitReverse
<1>19. CASE RestoreWorker
  BY <1>19, <1>1, <1>2 DEF RestoreWorker, Restore, UpdateService
<1>20. CASE WaitRestored
  BY <1>20, <1>1, <1>2 DEF WaitRestored, Leave
<1>21. CASE Kill
  BY <1>21, <1>1, <1>2 DEF Kill
<1>22. CASE \E s \in Services : Settle(s)
  BY <1>22, <1>1, <1>2 DEF Settle
<1>23. CASE \E s \in Services : Trip(s)
  BY <1>23, <1>1, <1>2 DEF Trip
<1>24. CASE ShiftTraffic
  BY <1>24, <1>1, <1>2 DEF ShiftTraffic
<1>25. CASE DeploymentSucceeds
  BY <1>25, <1>1, <1>2 DEF DeploymentSucceeds
<1>26. CASE DeploymentFails
  BY <1>26, <1>1, <1>2 DEF DeploymentFails, InProgress
<1>27. CASE UNCHANGED vars
  BY <1>27, <1>1, <1>2 DEF vars
<1> QED
  BY <1>3, <1>4, <1>5, <1>6, <1>7, <1>8, <1>9, <1>10, <1>11, <1>12, <1>13, <1>14, <1>15,
     <1>16, <1>17, <1>18, <1>19, <1>20, <1>21, <1>22, <1>23, <1>24, <1>25, <1>26, <1>27
     DEF Next, ScriptStep, CloudStep

(***************************************************************************)
(* What holds whatever goes wrong is kept by every step.                   *)
(***************************************************************************)

\* A run stays in its steps and in its kind of environment.
LEMMA ScriptKept ==
    ASSUME TypeOK, ScriptInv, [Next]_vars
    PROVE  ScriptInv'
<1> USE DEF serviceVars, scriptVars, Proceed, Rollback, NoFault, Fault, Report, TypeOK,
           ScriptInv, RollingSteps, CanarySteps, Services, Rolling
<1>1. CASE \E r \in Releases : Begin(r)
  BY <1>1 DEF Begin, InProgress
<1>2. CASE UpdateWorker
  <2>1. UpdateService("worker", release) \/ UNCHANGED serviceVars
    BY <1>2 DEF UpdateWorker, Update
  <2>2. \A s \in Rolling : stable'[s] => completed'[s] = target'[s]
    BY <2>1 DEF UpdateService
  <2>3. Rolling' = Rolling /\ (script = "canary" => stable'["api"])
    BY <1>2, <2>1 DEF UpdateWorker, Update, UpdateService
  <2>4. /\ pc = "update_worker" /\ pc' \in {"update_api", "wait_worker", "restore_api"}
        /\ pc' = "update_api" => script = "rolling"
        /\ pc' = "wait_worker" => script = "canary"
        /\ UNCHANGED <<script, deployment, release, outcome>>
    BY <1>2 DEF UpdateWorker, Update, Scripts
  <2> QED
    BY <2>2, <2>3, <2>4
<1>3. CASE UpdateApi
  BY <1>3 DEF UpdateApi, Update, UpdateService
<1>4. CASE WaitBoth
  BY <1>4 DEF WaitBoth, Wait
<1>5. CASE CheckBoth
  BY <1>5 DEF CheckBoth, Check
<1>6. CASE WaitWorker
  BY <1>6 DEF WaitWorker, Wait
<1>7. CASE CheckWorker
  BY <1>7 DEF CheckWorker, Check
<1>8. CASE CreateApi
  BY <1>8 DEF CreateApi, CreateDeployment, InProgress
<1>9. CASE WaitApi
  BY <1>9 DEF WaitApi
<1>10. CASE CheckApi
  BY <1>10 DEF CheckApi, Check
<1>11. CASE Verify
  BY <1>11 DEF Verify
<1>12. CASE RestoreApiService
  BY <1>12 DEF RestoreApiService, Restore, UpdateService
<1>13. CASE StopDeployment
  BY <1>13 DEF StopDeployment, InProgress
<1>14. CASE ReverseDeployment
  BY <1>14 DEF ReverseDeployment, CreateDeployment, InProgress
<1>15. CASE NothingToReverse
  BY <1>15 DEF NothingToReverse
<1>16. CASE WaitReverse
  BY <1>16 DEF WaitReverse
<1>17. CASE RestoreWorker
  BY <1>17 DEF RestoreWorker, Restore, UpdateService
<1>18. CASE WaitRestored
  BY <1>18 DEF WaitRestored, Leave
<1>19. CASE Kill
  BY <1>19 DEF Kill
<1>20. CASE \E s \in Services : Settle(s)
  BY <1>20 DEF Settle
<1>21. CASE \E s \in Services : Trip(s)
  BY <1>21 DEF Trip
<1>22. CASE ShiftTraffic
  BY <1>22 DEF ShiftTraffic
<1>23. CASE DeploymentSucceeds
  BY <1>23 DEF DeploymentSucceeds
<1>24. CASE DeploymentFails
  BY <1>24 DEF DeploymentFails, InProgress
<1>25. CASE UNCHANGED vars
  BY <1>25 DEF vars
<1> QED
  BY <1>1, <1>2, <1>3, <1>4, <1>5, <1>6, <1>7, <1>8, <1>9, <1>10, <1>11, <1>12, <1>13,
     <1>14, <1>15, <1>16, <1>17, <1>18, <1>19, <1>20, <1>21, <1>22, <1>23, <1>24, <1>25
     DEF Next, ScriptStep, CloudStep

\* What was waited for and checked is undone neither by ECS nor by CodeDeploy: a
\* circuit breaker leaves stable services alone, and no deployment is in progress.
LEMMA CheckedKept ==
    ASSUME TypeOK, ScriptInv, CheckedInv, [Next]_vars
    PROVE  CheckedInv'
<1> USE DEF serviceVars, scriptVars, Proceed, Rollback, NoFault, Fault, Report, TypeOK,
           ScriptInv, CheckedInv, RollingSteps, CanarySteps, Services, Rolling, InProgress
<1>1. CASE \E r \in Releases : Begin(r)
  BY <1>1 DEF Begin, InProgress
<1>2. CASE UpdateWorker
  BY <1>2 DEF UpdateWorker, Update, UpdateService
<1>3. CASE UpdateApi
  BY <1>3 DEF UpdateApi, Update, UpdateService
<1>4. CASE WaitBoth
  BY <1>4 DEF WaitBoth, Wait
<1>5. CASE CheckBoth
  BY <1>5 DEF CheckBoth, Check
<1>6. CASE WaitWorker
  BY <1>6 DEF WaitWorker, Wait
<1>7. CASE CheckWorker
  BY <1>7 DEF CheckWorker, Check
<1>8. CASE CreateApi
  BY <1>8 DEF CreateApi, CreateDeployment, InProgress
<1>9. CASE WaitApi
  BY <1>9 DEF WaitApi
<1>10. CASE CheckApi
  BY <1>10 DEF CheckApi, Check
<1>11. CASE Verify
  BY <1>11 DEF Verify
<1>12. CASE RestoreApiService
  BY <1>12 DEF RestoreApiService, Restore, UpdateService
<1>13. CASE StopDeployment
  BY <1>13 DEF StopDeployment, InProgress
<1>14. CASE ReverseDeployment
  BY <1>14 DEF ReverseDeployment, CreateDeployment, InProgress
<1>15. CASE NothingToReverse
  BY <1>15 DEF NothingToReverse
<1>16. CASE WaitReverse
  BY <1>16 DEF WaitReverse
<1>17. CASE RestoreWorker
  BY <1>17 DEF RestoreWorker, Restore, UpdateService
<1>18. CASE WaitRestored
  BY <1>18 DEF WaitRestored, Leave
<1>19. CASE Kill
  BY <1>19 DEF Kill
<1>20. CASE \E s \in Services : Settle(s)
  BY <1>20 DEF Settle
<1>21. CASE \E s \in Services : Trip(s)
  BY <1>21 DEF Trip
<1>22. CASE ShiftTraffic
  BY <1>22 DEF ShiftTraffic
<1>23. CASE DeploymentSucceeds
  BY <1>23 DEF DeploymentSucceeds
<1>24. CASE DeploymentFails
  BY <1>24 DEF DeploymentFails, InProgress
<1>25. CASE UNCHANGED vars
  BY <1>25 DEF vars
<1> QED
  BY <1>1, <1>2, <1>3, <1>4, <1>5, <1>6, <1>7, <1>8, <1>9, <1>10, <1>11, <1>12, <1>13,
     <1>14, <1>15, <1>16, <1>17, <1>18, <1>19, <1>20, <1>21, <1>22, <1>23, <1>24, <1>25
     DEF Next, ScriptStep, CloudStep

(***************************************************************************)
(* What holds while no damage was done is kept by every step that does     *)
(* none.                                                                   *)
(***************************************************************************)

\* No step takes a damage away.
LEMMA DamageStays ==
    ASSUME [Next]_vars, damage' = {}
    PROVE  damage = {}
<1> USE DEF serviceVars, scriptVars, Proceed, Rollback, NoFault, Fault, Report
<1>1. CASE \E r \in Releases : Begin(r)
  BY <1>1 DEF Begin, InProgress
<1>2. CASE UpdateWorker
  BY <1>2 DEF UpdateWorker, Update, UpdateService
<1>3. CASE UpdateApi
  BY <1>3 DEF UpdateApi, Update, UpdateService
<1>4. CASE WaitBoth
  BY <1>4 DEF WaitBoth, Wait
<1>5. CASE CheckBoth
  BY <1>5 DEF CheckBoth, Check
<1>6. CASE WaitWorker
  BY <1>6 DEF WaitWorker, Wait
<1>7. CASE CheckWorker
  BY <1>7 DEF CheckWorker, Check
<1>8. CASE CreateApi
  BY <1>8 DEF CreateApi, CreateDeployment, InProgress
<1>9. CASE WaitApi
  BY <1>9 DEF WaitApi
<1>10. CASE CheckApi
  BY <1>10 DEF CheckApi, Check
<1>11. CASE Verify
  BY <1>11 DEF Verify
<1>12. CASE RestoreApiService
  BY <1>12 DEF RestoreApiService, Restore, UpdateService
<1>13. CASE StopDeployment
  BY <1>13 DEF StopDeployment, InProgress
<1>14. CASE ReverseDeployment
  BY <1>14 DEF ReverseDeployment, CreateDeployment, InProgress
<1>15. CASE NothingToReverse
  BY <1>15 DEF NothingToReverse
<1>16. CASE WaitReverse
  BY <1>16 DEF WaitReverse
<1>17. CASE RestoreWorker
  BY <1>17 DEF RestoreWorker, Restore, UpdateService
<1>18. CASE WaitRestored
  BY <1>18 DEF WaitRestored, Leave
<1>19. CASE Kill
  BY <1>19 DEF Kill
<1>20. CASE \E s \in Services : Settle(s)
  BY <1>20 DEF Settle
<1>21. CASE \E s \in Services : Trip(s)
  BY <1>21 DEF Trip
<1>22. CASE ShiftTraffic
  BY <1>22 DEF ShiftTraffic
<1>23. CASE DeploymentSucceeds
  BY <1>23 DEF DeploymentSucceeds
<1>24. CASE DeploymentFails
  BY <1>24 DEF DeploymentFails, InProgress
<1>25. CASE UNCHANGED vars
  BY <1>25 DEF vars
<1> QED
  BY <1>1, <1>2, <1>3, <1>4, <1>5, <1>6, <1>7, <1>8, <1>9, <1>10, <1>11, <1>12, <1>13,
     <1>14, <1>15, <1>16, <1>17, <1>18, <1>19, <1>20, <1>21, <1>22, <1>23, <1>24, <1>25
     DEF Next, ScriptStep, CloudStep

\* A run takes over one released revision, and a revision that was released stays so.
LEMMA BaseKept ==
    ASSUME TypeOK, ScriptInv, CheckedInv, damage = {}, damage' = {},
           BaseInv, IdleInv, RollingInv, CanaryInv, [Next]_vars
    PROVE  BaseInv'
<1> USE DEF serviceVars, scriptVars, Proceed, Rollback, NoFault, Fault, Report, TypeOK,
           ScriptInv, CheckedInv, RollingSteps, CanarySteps, Services, Rolling,
           InProgress, BaseInv, IdleInv, RollingInv, CanaryInv, Released
<1>1. CASE \E r \in Releases : Begin(r)
  BY <1>1, ServiceRolloutAssumption DEF Begin, InProgress
<1>2. CASE UpdateWorker
  BY <1>2, ServiceRolloutAssumption DEF UpdateWorker, Update, UpdateService
<1>3. CASE UpdateApi
  BY <1>3, ServiceRolloutAssumption DEF UpdateApi, Update, UpdateService
<1>4. CASE WaitBoth
  BY <1>4, ServiceRolloutAssumption DEF WaitBoth, Wait
<1>5. CASE CheckBoth
  BY <1>5, ServiceRolloutAssumption DEF CheckBoth, Check
<1>6. CASE WaitWorker
  BY <1>6, ServiceRolloutAssumption DEF WaitWorker, Wait
<1>7. CASE CheckWorker
  BY <1>7, ServiceRolloutAssumption DEF CheckWorker, Check
<1>8. CASE CreateApi
  BY <1>8, ServiceRolloutAssumption DEF CreateApi, CreateDeployment, InProgress
<1>9. CASE WaitApi
  BY <1>9, ServiceRolloutAssumption DEF WaitApi
<1>10. CASE CheckApi
  BY <1>10, ServiceRolloutAssumption DEF CheckApi, Check
<1>11. CASE Verify
  BY <1>11, ServiceRolloutAssumption DEF Verify
<1>12. CASE RestoreApiService
  BY <1>12, ServiceRolloutAssumption DEF RestoreApiService, Restore, UpdateService
<1>13. CASE StopDeployment
  BY <1>13, ServiceRolloutAssumption DEF StopDeployment, InProgress
<1>14. CASE ReverseDeployment
  BY <1>14, ServiceRolloutAssumption DEF ReverseDeployment, CreateDeployment, InProgress
<1>15. CASE NothingToReverse
  BY <1>15, ServiceRolloutAssumption DEF NothingToReverse
<1>16. CASE WaitReverse
  BY <1>16, ServiceRolloutAssumption DEF WaitReverse
<1>17. CASE RestoreWorker
  BY <1>17, ServiceRolloutAssumption DEF RestoreWorker, Restore, UpdateService
<1>18. CASE WaitRestored
  BY <1>18, ServiceRolloutAssumption DEF WaitRestored, Leave
<1>19. CASE Kill
  BY <1>19, ServiceRolloutAssumption DEF Kill
<1>20. CASE \E s \in Services : Settle(s)
  BY <1>20, ServiceRolloutAssumption DEF Settle
<1>21. CASE \E s \in Services : Trip(s)
  BY <1>21, ServiceRolloutAssumption DEF Trip
<1>22. CASE ShiftTraffic
  BY <1>22, ServiceRolloutAssumption DEF ShiftTraffic
<1>23. CASE DeploymentSucceeds
  BY <1>23, ServiceRolloutAssumption DEF DeploymentSucceeds
<1>24. CASE DeploymentFails
  BY <1>24, ServiceRolloutAssumption DEF DeploymentFails, InProgress
<1>25. CASE UNCHANGED vars
  BY <1>25, ServiceRolloutAssumption DEF vars
<1> QED
  BY <1>1, <1>2, <1>3, <1>4, <1>5, <1>6, <1>7, <1>8, <1>9, <1>10, <1>11, <1>12, <1>13,
     <1>14, <1>15, <1>16, <1>17, <1>18, <1>19, <1>20, <1>21, <1>22, <1>23, <1>24, <1>25
     DEF Next, ScriptStep, CloudStep

\* A run ends with both services on its revision or on the previous one.
LEMMA IdleKept ==
    ASSUME TypeOK, ScriptInv, CheckedInv, damage = {}, damage' = {},
           BaseInv, IdleInv, RollingInv, CanaryInv, [Next]_vars
    PROVE  IdleInv'
<1> USE DEF serviceVars, scriptVars, Proceed, Rollback, NoFault, Fault, Report, TypeOK,
           ScriptInv, CheckedInv, RollingSteps, CanarySteps, Services, Rolling,
           InProgress, BaseInv, IdleInv, RollingInv, CanaryInv, Released
<1>1. CASE \E r \in Releases : Begin(r)
  BY <1>1, ServiceRolloutAssumption DEF Begin, InProgress
<1>2. CASE UpdateWorker
  BY <1>2, ServiceRolloutAssumption DEF UpdateWorker, Update, UpdateService
<1>3. CASE UpdateApi
  BY <1>3, ServiceRolloutAssumption DEF UpdateApi, Update, UpdateService
<1>4. CASE WaitBoth
  BY <1>4, ServiceRolloutAssumption DEF WaitBoth, Wait
<1>5. CASE CheckBoth
  BY <1>5, ServiceRolloutAssumption DEF CheckBoth, Check
<1>6. CASE WaitWorker
  BY <1>6, ServiceRolloutAssumption DEF WaitWorker, Wait
<1>7. CASE CheckWorker
  BY <1>7, ServiceRolloutAssumption DEF CheckWorker, Check
<1>8. CASE CreateApi
  BY <1>8, ServiceRolloutAssumption DEF CreateApi, CreateDeployment, InProgress
<1>9. CASE WaitApi
  BY <1>9, ServiceRolloutAssumption DEF WaitApi
<1>10. CASE CheckApi
  BY <1>10, ServiceRolloutAssumption DEF CheckApi, Check
<1>11. CASE Verify
  <2>1. CASE pc' = "idle"
    <3>1. Released' = Released \cup {release} /\ UNCHANGED <<serviceVars, deployment, release>>
      BY <1>11, <2>1 DEF Verify
    <3>2. ~InProgress /\ \A s \in Services : stable[s] /\ target[s] = release
      BY <1>11 DEF Verify, Scripts
    <3> QED
      BY <3>1, <3>2
  <2> QED
    BY <2>1
<1>12. CASE RestoreApiService
  BY <1>12, ServiceRolloutAssumption DEF RestoreApiService, Restore, UpdateService
<1>13. CASE StopDeployment
  BY <1>13, ServiceRolloutAssumption DEF StopDeployment, InProgress
<1>14. CASE ReverseDeployment
  BY <1>14, ServiceRolloutAssumption DEF ReverseDeployment, CreateDeployment, InProgress
<1>15. CASE NothingToReverse
  BY <1>15, ServiceRolloutAssumption DEF NothingToReverse
<1>16. CASE WaitReverse
  BY <1>16, ServiceRolloutAssumption DEF WaitReverse
<1>17. CASE RestoreWorker
  BY <1>17, ServiceRolloutAssumption DEF RestoreWorker, Restore, UpdateService
<1>18. CASE WaitRestored
  <2>1. CASE pc' = "idle"
    <3>1. release \notin Released' /\ UNCHANGED <<serviceVars, deployment, release, previous>>
      BY <1>18, <2>1 DEF WaitRestored, Leave
    <3>2. \A s \in Services : stable[s]
      BY <1>18 DEF WaitRestored, Scripts
    <3>3. /\ target["worker"] = previous["worker"]
          /\ InProgress => deployment.state = "stopping" /\ deployment.from = previous["api"]
          /\ ~InProgress => target["api"] = previous["api"]
      BY <1>18 DEF WaitRestored, Scripts
    <3> QED
      BY <3>1, <3>2, <3>3
  <2> QED
    BY <2>1
<1>19. CASE Kill
  BY <1>19, ServiceRolloutAssumption DEF Kill
<1>20. CASE \E s \in Services : Settle(s)
  BY <1>20, ServiceRolloutAssumption DEF Settle
<1>21. CASE \E s \in Services : Trip(s)
  BY <1>21, ServiceRolloutAssumption DEF Trip
<1>22. CASE ShiftTraffic
  BY <1>22, ServiceRolloutAssumption DEF ShiftTraffic
<1>23. CASE DeploymentSucceeds
  BY <1>23, ServiceRolloutAssumption DEF DeploymentSucceeds
<1>24. CASE DeploymentFails
  BY <1>24, ServiceRolloutAssumption DEF DeploymentFails, InProgress
<1>25. CASE UNCHANGED vars
  BY <1>25, ServiceRolloutAssumption DEF vars
<1> QED
  BY <1>1, <1>2, <1>3, <1>4, <1>5, <1>6, <1>7, <1>8, <1>9, <1>10, <1>11, <1>12, <1>13,
     <1>14, <1>15, <1>16, <1>17, <1>18, <1>19, <1>20, <1>21, <1>22, <1>23, <1>24, <1>25
     DEF Next, ScriptStep, CloudStep

\* A circuit breaker that undoes what was restored does a damage; otherwise it only
\* goes back to the previous revision, as rollback does.
LEMMA RollingKept ==
    ASSUME TypeOK, ScriptInv, CheckedInv, damage = {}, damage' = {},
           BaseInv, IdleInv, RollingInv, CanaryInv, [Next]_vars
    PROVE  RollingInv'
<1> USE DEF serviceVars, scriptVars, Proceed, Rollback, NoFault, Fault, Report, TypeOK,
           ScriptInv, CheckedInv, RollingSteps, CanarySteps, Services, Rolling,
           InProgress, BaseInv, IdleInv, RollingInv, CanaryInv, Released
<1>1. CASE \E r \in Releases : Begin(r)
  BY <1>1, ServiceRolloutAssumption DEF Begin, InProgress
<1>2. CASE UpdateWorker
  BY <1>2, ServiceRolloutAssumption DEF UpdateWorker, Update, UpdateService
<1>3. CASE UpdateApi
  BY <1>3, ServiceRolloutAssumption DEF UpdateApi, Update, UpdateService
<1>4. CASE WaitBoth
  BY <1>4, ServiceRolloutAssumption DEF WaitBoth, Wait
<1>5. CASE CheckBoth
  BY <1>5, ServiceRolloutAssumption DEF CheckBoth, Check
<1>6. CASE WaitWorker
  BY <1>6, ServiceRolloutAssumption DEF WaitWorker, Wait
<1>7. CASE CheckWorker
  BY <1>7, ServiceRolloutAssumption DEF CheckWorker, Check
<1>8. CASE CreateApi
  BY <1>8, ServiceRolloutAssumption DEF CreateApi, CreateDeployment, InProgress
<1>9. CASE WaitApi
  BY <1>9, ServiceRolloutAssumption DEF WaitApi
<1>10. CASE CheckApi
  BY <1>10, ServiceRolloutAssumption DEF CheckApi, Check
<1>11. CASE Verify
  BY <1>11, ServiceRolloutAssumption DEF Verify
<1>12. CASE RestoreApiService
  BY <1>12, ServiceRolloutAssumption DEF RestoreApiService, Restore, UpdateService
<1>13. CASE StopDeployment
  BY <1>13, ServiceRolloutAssumption DEF StopDeployment, InProgress
<1>14. CASE ReverseDeployment
  BY <1>14, ServiceRolloutAssumption DEF ReverseDeployment, CreateDeployment, InProgress
<1>15. CASE NothingToReverse
  BY <1>15, ServiceRolloutAssumption DEF NothingToReverse
<1>16. CASE WaitReverse
  BY <1>16, ServiceRolloutAssumption DEF WaitReverse
<1>17. CASE RestoreWorker
  BY <1>17, ServiceRolloutAssumption DEF RestoreWorker, Restore, UpdateService
<1>18. CASE WaitRestored
  BY <1>18, ServiceRolloutAssumption DEF WaitRestored, Leave
<1>19. CASE Kill
  BY <1>19, ServiceRolloutAssumption DEF Kill
<1>20. CASE \E s \in Services : Settle(s)
  BY <1>20, ServiceRolloutAssumption DEF Settle
<1>21. CASE \E s \in Services : Trip(s)
  BY <1>21, ServiceRolloutAssumption DEF Trip
<1>22. CASE ShiftTraffic
  BY <1>22, ServiceRolloutAssumption DEF ShiftTraffic
<1>23. CASE DeploymentSucceeds
  BY <1>23, ServiceRolloutAssumption DEF DeploymentSucceeds
<1>24. CASE DeploymentFails
  BY <1>24, ServiceRolloutAssumption DEF DeploymentFails, InProgress
<1>25. CASE UNCHANGED vars
  BY <1>25, ServiceRolloutAssumption DEF vars
<1> QED
  BY <1>1, <1>2, <1>3, <1>4, <1>5, <1>6, <1>7, <1>8, <1>9, <1>10, <1>11, <1>12, <1>13,
     <1>14, <1>15, <1>16, <1>17, <1>18, <1>19, <1>20, <1>21, <1>22, <1>23, <1>24, <1>25
     DEF Next, ScriptStep, CloudStep

\* What the script knows of its deployment is enough to undo it.
LEMMA CanaryKept ==
    ASSUME TypeOK, ScriptInv, CheckedInv, damage = {}, damage' = {},
           BaseInv, IdleInv, RollingInv, CanaryInv, [Next]_vars
    PROVE  CanaryInv'
<1> USE DEF serviceVars, scriptVars, Proceed, Rollback, NoFault, Fault, Report, TypeOK,
           ScriptInv, CheckedInv, RollingSteps, CanarySteps, Services, Rolling,
           InProgress, BaseInv, IdleInv, RollingInv, CanaryInv, Released
<1>1. CASE \E r \in Releases : Begin(r)
  BY <1>1, ServiceRolloutAssumption DEF Begin, InProgress
<1>2. CASE UpdateWorker
  BY <1>2, ServiceRolloutAssumption DEF UpdateWorker, Update, UpdateService
<1>3. CASE UpdateApi
  BY <1>3, ServiceRolloutAssumption DEF UpdateApi, Update, UpdateService
<1>4. CASE WaitBoth
  BY <1>4, ServiceRolloutAssumption DEF WaitBoth, Wait
<1>5. CASE CheckBoth
  BY <1>5, ServiceRolloutAssumption DEF CheckBoth, Check
<1>6. CASE WaitWorker
  BY <1>6, ServiceRolloutAssumption DEF WaitWorker, Wait
<1>7. CASE CheckWorker
  BY <1>7, ServiceRolloutAssumption DEF CheckWorker, Check
<1>8. CASE CreateApi
  BY <1>8, ServiceRolloutAssumption DEF CreateApi, CreateDeployment, InProgress
<1>9. CASE WaitApi
  BY <1>9, ServiceRolloutAssumption DEF WaitApi
<1>10. CASE CheckApi
  BY <1>10, ServiceRolloutAssumption DEF CheckApi, Check
<1>11. CASE Verify
  BY <1>11, ServiceRolloutAssumption DEF Verify
<1>12. CASE RestoreApiService
  BY <1>12, ServiceRolloutAssumption DEF RestoreApiService, Restore, UpdateService
<1>13. CASE StopDeployment
  BY <1>13, ServiceRolloutAssumption DEF StopDeployment, InProgress
<1>14. CASE ReverseDeployment
  BY <1>14, ServiceRolloutAssumption DEF ReverseDeployment, CreateDeployment, InProgress
<1>15. CASE NothingToReverse
  BY <1>15, ServiceRolloutAssumption DEF NothingToReverse
<1>16. CASE WaitReverse
  BY <1>16, ServiceRolloutAssumption DEF WaitReverse
<1>17. CASE RestoreWorker
  BY <1>17, ServiceRolloutAssumption DEF RestoreWorker, Restore, UpdateService
<1>18. CASE WaitRestored
  BY <1>18, ServiceRolloutAssumption DEF WaitRestored, Leave
<1>19. CASE Kill
  BY <1>19, ServiceRolloutAssumption DEF Kill
<1>20. CASE \E s \in Services : Settle(s)
  BY <1>20, ServiceRolloutAssumption DEF Settle
<1>21. CASE \E s \in Services : Trip(s)
  BY <1>21, ServiceRolloutAssumption DEF Trip
<1>22. CASE ShiftTraffic
  BY <1>22, ServiceRolloutAssumption DEF ShiftTraffic
<1>23. CASE DeploymentSucceeds
  BY <1>23, ServiceRolloutAssumption DEF DeploymentSucceeds
<1>24. CASE DeploymentFails
  BY <1>24, ServiceRolloutAssumption DEF DeploymentFails, InProgress
<1>25. CASE UNCHANGED vars
  BY <1>25, ServiceRolloutAssumption DEF vars
<1> QED
  BY <1>1, <1>2, <1>3, <1>4, <1>5, <1>6, <1>7, <1>8, <1>9, <1>10, <1>11, <1>12, <1>13,
     <1>14, <1>15, <1>16, <1>17, <1>18, <1>19, <1>20, <1>21, <1>22, <1>23, <1>24, <1>25
     DEF Next, ScriptStep, CloudStep

(***************************************************************************)
(* Theorems                                                                *)
(***************************************************************************)

\* Initially both services serve what Terraform created, and no script runs.
LEMMA InitInv == Init => IInv
<1> SUFFICES ASSUME Init PROVE IInv
  OBVIOUS
<1> USE DEF Init
<1>1. TypeOK
  <2>1. ServiceTypes /\ DeploymentType
    BY DEF ServiceTypes, DeploymentType, Revisions, DeploymentStates
  <2>2. ScriptTypes
    BY DEF ScriptTypes, Revisions, Scripts, Steps
  <2>3. RecordTypes
    BY ServiceRolloutAssumption DEF RecordTypes, Outcomes
  <2> QED
    BY ONLY <2>1, <2>2, <2>3, TypeParts
<1>2. ScriptInv
  BY DEF ScriptInv, RollingSteps, CanarySteps, Rolling, Services
<1>3. CheckedInv
  BY DEF CheckedInv
<1>4. CleanInv
  BY ServiceRolloutAssumption
     DEF CleanInv, BaseInv, IdleInv, RollingInv, CanaryInv, Services, InProgress, Released
<1> QED
  BY <1>1, <1>2, <1>3, <1>4 DEF IInv

\* Every step keeps the invariant.
LEMMA NextInv == IInv /\ [Next]_vars => IInv'
<1> SUFFICES ASSUME IInv, [Next]_vars PROVE IInv'
  OBVIOUS
<1>1. TypeOK'
  BY TypeParts, ServiceTypeStep, DeploymentTypeStep, ScriptTypeStep, RecordTypeStep
     DEF IInv, TypeOK, ServiceTypes, DeploymentType, ScriptTypes, RecordTypes
<1>2. ScriptInv' /\ CheckedInv'
  BY ScriptKept, CheckedKept DEF IInv
<1>3. CleanInv'
  <2>1. SUFFICES ASSUME damage' = {}
                 PROVE  BaseInv' /\ IdleInv' /\ RollingInv' /\ CanaryInv'
    BY DEF CleanInv
  <2>2. damage = {}
    BY <2>1, DamageStays
  <2>3. TypeOK /\ ScriptInv /\ CheckedInv /\ BaseInv /\ IdleInv /\ RollingInv /\ CanaryInv
    BY <2>2 DEF IInv, CleanInv
  <2> QED
    BY <2>1, <2>2, <2>3, BaseKept, IdleKept, RollingKept, CanaryKept
<1> QED
  BY <1>1, <1>2, <1>3 DEF IInv

\* The invariant holds in every state of every sequence of script runs.
LEMMA Invariance == Spec => []IInv
  BY InitInv, NextInv, PTL DEF Spec

\* The services, the deployment and the script's variables have their types,
\* whatever revisions the circuit breakers, CodeDeploy and the rollbacks choose.
THEOREM TypeCorrect == Spec => []TypeOK
<1>1. IInv => TypeOK
  BY DEF IInv
<1> QED
  BY <1>1, Invariance, PTL

\* promote-staging.sh, promote-production.sh, deploy-dev.yml: once an environment
\* is quiet and no damage was done, both services serve one revision, the last
\* one released or the one from before a failed release.
THEOREM OneReleaseServed == Spec => []ServesOneRelease
<1>1. IInv => ServesOneRelease
  <2>1. SUFFICES ASSUME IInv, Quiet, damage = {}
                 PROVE  /\ target["api"] = target["worker"]
                        /\ target["api"] \in Released \cup {Bootstrap}
                        /\ release \in Released => target["api"] = release
                        /\ release \notin Released => target = previous
    BY DEF ServesOneRelease
  <2>2. BaseInv /\ IdleInv /\ pc = "idle" /\ ~InProgress
    BY <2>1 DEF IInv, CleanInv, Quiet
  <2>3. CASE release \in Released
    BY <2>2, <2>3 DEF IdleInv, Services
  <2>4. CASE release \notin Released
    <3>1. target["worker"] = previous["worker"] /\ target["api"] = previous["api"]
      BY <2>2, <2>4 DEF IdleInv
    <3>2. target = previous
      BY <2>1, <3>1 DEF IInv, TypeOK, Services
    <3> QED
      BY <2>2, <2>4, <3>1, <3>2 DEF BaseInv
  <2> QED
    BY <2>3, <2>4
<1> QED
  BY <1>1, Invariance, PTL

\* Only a verified run is reported as released.
LEMMA OnlyVerifyReleases ==
    ASSUME TypeOK, [Next]_vars, NEW r \in Releases,
           outcome[r] # "released", outcome'[r] = "released"
    PROVE  Verify /\ r = release
<1> USE DEF serviceVars, scriptVars, TypeOK
<1>1. CASE \E q \in Releases : Begin(q)
  BY <1>1 DEF Begin
<1>2. CASE UpdateWorker
  BY <1>2 DEF UpdateWorker, Update, UpdateService
<1>3. CASE UpdateApi
  BY <1>3 DEF UpdateApi, Update, UpdateService
<1>4. CASE WaitBoth
  BY <1>4 DEF WaitBoth, Wait
<1>5. CASE CheckBoth
  BY <1>5 DEF CheckBoth, Check
<1>6. CASE WaitWorker
  BY <1>6 DEF WaitWorker, Wait
<1>7. CASE CheckWorker
  BY <1>7 DEF CheckWorker, Check
<1>8. CASE CreateApi
  BY <1>8 DEF CreateApi, CreateDeployment, InProgress
<1>9. CASE WaitApi
  BY <1>9 DEF WaitApi
<1>10. CASE CheckApi
  BY <1>10 DEF CheckApi, Check
<1>11. CASE Verify
  BY <1>11 DEF Verify
<1>12. CASE RestoreApiService
  BY <1>12 DEF RestoreApiService, Restore, UpdateService
<1>13. CASE StopDeployment
  BY <1>13 DEF StopDeployment, InProgress
<1>14. CASE ReverseDeployment
  BY <1>14 DEF ReverseDeployment, CreateDeployment, InProgress
<1>15. CASE NothingToReverse
  BY <1>15 DEF NothingToReverse
<1>16. CASE WaitReverse
  BY <1>16 DEF WaitReverse
<1>17. CASE RestoreWorker
  BY <1>17 DEF RestoreWorker, Restore, UpdateService
<1>18. CASE WaitRestored
  BY <1>18 DEF WaitRestored, Leave
<1>19. CASE Kill
  BY <1>19 DEF Kill
<1>20. CASE CloudStep
  BY <1>20 DEF CloudStep, Settle, Trip, ShiftTraffic, DeploymentSucceeds, DeploymentFails
<1>21. CASE UNCHANGED vars
  BY <1>21 DEF vars
<1> QED
  BY <1>1, <1>2, <1>3, <1>4, <1>5, <1>6, <1>7, <1>8, <1>9, <1>10, <1>11, <1>12, <1>13,
     <1>14, <1>15, <1>16, <1>17, <1>18, <1>19, <1>20, <1>21 DEF Next, ScriptStep

\* A run is reported as released when the services were verified: both serve its
\* revision then, whatever circuit breakers, faults and earlier runs did.
THEOREM ReleaseIsServed == Spec => ReleasedIsServed
<1> DEFINE A == \A r \in Releases : outcome[r] = "running" /\ outcome'[r] = "released" =>
                     \A s \in Services : target[s] = r
<1>1. IInv /\ [Next]_vars => A
  <2>1. SUFFICES ASSUME IInv, [Next]_vars, NEW r \in Releases,
                        outcome[r] = "running", outcome'[r] = "released"
                 PROVE  \A s \in Services : target[s] = r
    OBVIOUS
  <2>2. Verify /\ r = release
    BY <2>1, OnlyVerifyReleases DEF IInv
  <2> QED
    BY <2>1, <2>2 DEF IInv, CheckedInv, Verify, Services
<1>2. IInv /\ [Next]_vars => [A]_vars
  BY <1>1
<1> QED
  BY <1>2, Invariance, PTL DEF Spec, ReleasedIsServed

\* promote-production.sh: CodeDeploy shifts the API's traffic to a new revision only
\* while the Worker is stable on it.
THEOREM WorkerGoesFirst == Spec => WorkerFirst
<1> DEFINE A == script = "canary" /\ target'["api"] # target["api"]
                    /\ pc \in {"create_api", "wait_api"}
                    => target["worker"] = release /\ stable["worker"]
<1>1. IInv /\ [Next]_vars => [A]_vars
  BY DEF IInv, CheckedInv
<1> QED
  BY <1>1, Invariance, PTL DEF Spec, WorkerFirst
=================================================================================
