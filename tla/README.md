# Verification of the LLMOps job system in TLA+

The repository is a cloud-native LLM service: a FastAPI application that answers
prompts directly and accepts asynchronous inference jobs, a worker that executes
those jobs from SQS against DynamoDB records, and the delivery, monitoring and
evaluation tooling around them. This directory models the parts that keep state
across steps, checks them with TLC on small instances and proves the central
results with TLAPS. Paths below are relative to `src/`.

## 1. Inventory

| Part | State | Operations | Interacts with |
|---|---|---|---|
| Durable job path: `AwsJobService` (`services/api/app/job_service.py:176`), `SQSJobQueue`, `DynamoDBJobRepository` (`services/worker/app/aws_jobs.py`), `DurableJobProcessor`, `run_durable_worker` (`services/worker/app/worker.py`) | DynamoDB record (status, error code, TTL), SQS message (visibility, receive count, DLQ), a worker's position in `_process_in_span` | submit (create, publish, clean-up), receive, get, mark_running, infer, mark_failed, mark_succeeded, delete | SQS redrive policy and TTL of `terraform/`, ECS |
| Local executor: `LocalJobService`, `InMemoryJobRepository`, `InMemoryJobQueue` (`services/worker/app/jobs.py`) | ordered records, queue, permits, providers, closed flag, stop event, threads | submit, worker loop, eviction, shutdown | `Metrics` |
| Job-service cache (`job_service.py:213-250`) | `lru_cache`, list of created services | get, reset | both services |
| `Metrics` (`services/api/app/metrics.py`) | counters, latency window | record_*, snapshot | request handlers, local workers |
| HTTP API (`services/api/app/main.py`, middleware, auth) | none of its own | routes and error mapping | the services |
| Worker heartbeat (`worker.py:201`, `services/worker/healthcheck.py`) | a timestamp file | write, check | ECS health check |
| Message envelope (`aws_jobs.py:50-117`) | none | serialize, deserialize, two versions | publish, receive |
| Providers (`services/common/llm/`) | none | generate | both executors |
| Evaluation (`evals/`) and its production monitor | evidence in S3, metrics | run, gate, store, publish | CI, CloudWatch alarms |
| Load generator (`loadtests/run_load.py`) | asyncio queue, results | produce, request, join, report | performance gate |
| Error-budget gate, plan summary, diagnostics (`.github/scripts/*.py`) | none | collect, evaluate | workflows |
| Promotion (`.github/scripts/promote-*.sh`) | ECS services, CodeDeploy deployments | deploy, wait, roll back | release workflows |
| Release gates (`.github/workflows/`) | statuses of a commit | build, stage, measure, release | promotion |
| Terraform | infrastructure | plan, apply | everything deployed |

What is hard here, and where it bites, is the `hazards` list of `PROJECT.json`;
the main groups are:

* **at-least-once delivery against conditional writes**: two workers may hold the
  same message, either may die between any two calls, any answer may be lost and
  the SDK repeats what was already done;
* **half-done submits**: the record exists before its message does;
* **bounds that must agree** in the local executor: permits, queue and records;
* **drain against admission** when the local executor is shut down;
* **progress**: every exception must lead back to the loop, every message must
  end acknowledged or in the DLQ;
* **multi-step delivery** of two services with a rollback that may itself fail.

What makes each part correct:

* durable path: terminal statuses are final, nothing is acknowledged before its
  outcome is recorded, accepted work is never lost, retries are used up before a
  failure is final, everything settles;
* local executor: permits are conserved, a refused submit leaves nothing, active
  records are never evicted, no thread dies, shutdown drains;
* cache: one local service per configuration;
* metrics: a snapshot is consistent with what was recorded;
* heartbeat: a worker that makes progress is not killed;
* gates: fail closed, and an intact release passes them;
* promotion: both services end on one revision, or the previous one.

## 2. Plan

Order, most important first. Modules marked done exist and are checked.

| | Module | What | Composes or refines | Runs | Theorems |
|---|---|---|---|---|---|
| done | `JobLifecycle` | abstract promise of a job repository with its queue | | through its refinements | |
| done | `DurableJobs` | the durable path, one step per AWS call | implements `JobLifecycle` | 2 passing, 2 violations | type, 4 safety invariants, refinement |
| done | `LocalJobs` | the local executor, one step per critical section | implements `JobLifecycle` | 1 passing | type, 6 safety invariants, refinement |
| done | `ServiceRollout` | two-service deploy scripts with ECS, CodeDeploy, rollback and cancellation | takes one `Deploy` of `Delivery` apart | 1 passing, 1 violation | type, `ServesOneRelease`, `ReleasedIsServed`, `WorkerFirst` |
| done | `Delivery` | builds, scans, signatures, promotions and the gates between them | | 1 passing, 1 violation | type, `ServedIsSigned`, `ServedIsOneBuild` |
| done | `LoadRun` | bounded asyncio queue, sentinels, join, report and gate | the `Load` step of `Delivery` | 1 passing | type, `AnsweredOrLost`, `ReportIsComplete`, `PassedIsEarned` |
| done | `ApiProcess` | one API process: routes, key, cached service, provider, metrics | services with the promise of `LocalJobs` and `DurableJobs`; `MCProcesses` | 1 passing, shared | type, `JobsAreFound`, `NoKeyNoCost`, `MetricsAgree` |
| done | `WorkerProcess` | one worker container: loop, heartbeat, signals, health check | worker loop of `DurableJobs`; `MCProcesses` | the same | type, `StopsWithinOneMessage`, `OnlySlowIsReplaced` |
| done | `ErrorBudget` | the error-budget gate with CloudWatch's pages | a gate of `Delivery`; `MCGates` | 1 passing, shared | type, `BudgetVerdictIsEarned` |
| done | `Evaluation` | the quality gate in its three modes, and the evidence of the monitor | `MCGates` | the same | type, `EvidenceIsSound`, `PassIsEarned`, verdicts stand |
| done | `Audits` | the drift audit and the diagnostics | `MCGates` | the same | type, `DriftIsReported`, `DiagnosticsAreHonest` |
| done | `MCGates`, `MCProcesses` | the programs of a run side by side | the five modules above | 2 passing | each program runs alone, types, `VerdictsAreEarned` |
| later | envelope versions, tracing links | only if a property needs them | | | |

Modules with theorems use no `RECURSIVE` operator.

## 3. Modules

### JobLifecycle

The record of a job goes `pending -> running -> succeeded | failed` (or
`pending -> failed`), a terminal status is final, a job starts only after its
task was queued, a finished record may be dropped to make room and any record may
expire, an expired record never comes back, and the queue lets go of a task only
in a status of `ReleaseOn`. For the durable path `ReleaseOn` is `{"succeeded"}`
(a failed job's message is kept for the DLQ); for the local executor it is both
terminal statuses.

### DurableJobs

State: `status`, `stored`, `errorCode` (the DynamoDB item; `status` keeps its
last value after expiry so that properties can speak of it, and no action but
`Expire` looks at an item that is not `stored`), `api` (where each `submit` is),
`place`, `visible`, `count`, `holder`, `redrives` (each copy of a task's SQS
message), `pc`, `held`, `heldCount` (each worker), `faults`.

* `CreateRecord` .. `ApiCrash` are the calls of `AwsJobService.submit`. `publish`
  may be rejected by `serialize_task` before anything is sent, may reach SQS
  without an answer (and be repeated by the SDK, which makes a second copy), or
  may fail for good.
* `Update` is DynamoDB's conditional update, with the condition of each caller.
  An error after an applied write stands for a lost answer; the SDK's repeated
  attempt then fails on the condition. `InvalidJobTransitionError` and
  `DurableJobStoreError` are one outcome, "error", because no caller tells them
  apart.
* `Receive` .. `Acknowledge` are the calls of `_process_in_span` in its order.
  An exception in any of them ends in the loop of `run_durable_worker`
  (`Return`). `Terminate` ends a worker anywhere; SIGTERM ends it at the top of
  the loop, which is one of these places.
* `VisibilityTimeout` may happen while a worker still holds the message: the
  model's time-outs and retries may outlast the 180 s of the queue. That gives
  duplicate delivery in every form. A stale receipt handle may or may not delete.
* `DeadLetter` and `Redrive` are the redrive policy and an operator's redrive;
  `ReceiveMalformed` is a message that `deserialize_task` rejects.

Not in the model: message retention (4 and 14 days, beyond every retry), the
fields of outcome and payload, tracing, and GET, which only reads.

### LocalJobs

State: the records in insertion order (`history`, `status`), `queue`,
`unfinished`, `permits`, `providers`, `lock`, `closed`, `stopEvent`, the position
of every submit, shutdown and worker thread, and the two counters the workers
update. `submit` holds `_state_lock` from its check of `closed` to its return
while workers release permits and write records concurrently; workers need the
lock to take the provider. Both exception handlers of `_execute` are modelled: a
`mark_failed` that raises in the handler dooms the thread. `thread.join` has a
time-out and may return early; a second shutdown returns at once.

### ServiceRollout

State: per service the task definition of its primary deployment (`target`), the
last one that reached a steady state (`completed`) and whether `services-stable`
holds; CodeDeploy's deployment of the API; the script's position and its shell
variables. `script` chooses between the two kinds: "rolling" (`promote-staging.sh`
and the deploy step of `deploy-dev.yml`: both services by ECS) and "canary"
(`promote-production.sh`: the Worker by ECS, then the API by CodeDeploy). Runs of
one environment follow each other, as its concurrency group has it.

* `UpdateWorker` .. `Verify` are the commands of the way forward; each may fail
  after it took effect or without. What fails before the first update (reading
  the previous task definitions, copying the images) changes nothing and is not a
  step here.
* `Rollback` is the ERR trap. `set -E` makes command substitutions inherit it: a
  failure inside `$(...)` runs `rollback` in the subshell, whose `exit` then fails
  the assignment and runs it once more in the script (`inSubshell`, `Leave`).
  `rollback` itself goes on after failures and reports them.
* `Trip` is the circuit breaker: it returns to the last revision that reached a
  steady state, which is then stable as well. `DeploymentFails` is an alarm, a
  failure or a stop; `stop-deployment` does not wait for it.
* `Kill` is a cancelled or timed-out job: no trap runs.

`damage` names what no script claims to undo: a killed run, a rollback that
reported itself incomplete, a deployment whose id was lost with the answer of
`create-deployment`, a previous revision refused by the circuit breaker, and a run
that read PRIMARY while CodeDeploy was still rolling back. `ServesOneRelease`
holds outside these five and TLC finds it broken by each of them alone; the last
three are silent, and the refused revision is finding 3.

### Delivery

State: where each workflow is, its commit, the digest it built or promotes, what
each repository's tag stands for, which images are clean and signed there, which
build an attested SBOM describes, the image each service runs, and which runs
succeeded. A commit may be built more than once, with another digest each time;
`Push` reuses what is there. Promotion is `promote_image`: check the source, copy,
check the copy, sign, deploy by digest. The Worker's image goes the same way as
the API's; there is one image here. Workflows overlap, one run of each at a time,
and any run may be aborted at any command (`Abort`). A deployment is one step that
succeeds; one that fails is an `Abort`, and what it does to the services is
`ServiceRollout`.

Two behaviours of the code are visible in the model and no property forbids them:
a repeated `deploy-dev` run attests an SBOM of its own rebuild for the digest that
was pushed before, and a promotion may put another commit into staging while a
load run is still measuring the one it checked. `BootstrapService` is Terraform's
two-phase bootstrap by an operator; while there is no service to deploy to no
promotion to it runs, so it waits for `Free(e)`. Without that guard TLC finds
`ServedIsSigned` broken: source and copy expire while a promotion waits before
`deploy`, and a bootstrap stores an unsigned rebuild under the tag it will read.

### LoadRun

State: the scheduler's position, the asyncio queue with its count of unfinished
tasks, the worker tasks and the results. A step is what one task does between two
awaits; putting several requests in a row without waiting is several steps here,
which allows more interleavings than asyncio has. Pacing and durations are left
open: every reply may be slow, and the achieved throughput may miss its
threshold. `Escape` is an exception that `_request_once` does not turn into a
result.

### ApiProcess

State: what the process was started with, every request with the dependencies and
steps it still has before it, the service in `lru_cache`, the counters of `Metrics`
and the sums over the EMF events. FastAPI runs each request on a thread of its own,
so the requests' steps interleave: a dependency, one critical section of `Metrics`,
or one call of the endpoint. `Route` is the order of each route: the key first,
because it is a dependency of the route, then the dependencies of the endpoint, and
the body's fields after them. (A body that is no JSON at all is refused before any
dependency runs; such a request changes only the counters of `RecordRequest`.)

* `LookUp` and `Build` are `get_job_service`: a miss runs the factory outside the
  cache's lock, the request uses the service it built, the cache keeps the first.
* `Generate` has every way `BedrockProvider.generate` ends. `ErrorStatus` gives the
  response of each; a text block without text and a JSON answer that is no object
  are not recognised as invalid and become 500, not 502.
* `RecordCall` and `EmitInferenceMetrics` are what `generate` records, in the order
  of its `finally`; `Execute` is what the in-process executor records. It counts in
  `Metrics` and emits no EMF event, which `MetricsAgree` says.
* `CreateJob` and `GetJob` only say which service keeps a job. Whether a job is
  refused, evicted or expired is `LocalJobs` and `DurableJobs`.

### WorkerProcess

State: the loop's position and clock, the heartbeat file and its age by the wall
clock, the health check's count, the stop event and how the process ended. `Tick`
is the clock. A step takes any time up to its bound, and what is due (a probe, the
end of the stop time-out) comes before the next tick. The heartbeat is written and
`stop_event` read at the top of the loop only, so neither happens while a message is
processed. ECS counts failed probes from the first success or the end of the start
period, stops the task after `Retries` in a row, and starts another. `ClockIsSet`
moves the wall clock, once per task.

### ErrorBudget

State: the configuration, what CloudWatch has, what has been delivered and what
`collect_metrics` has read. The code keeps a list of values per query and only sums
and counts it, so `values` is the set of periods whose data points are in the list.
CloudWatch may cut the window into pages anywhere and
may return any status for any query; only a last page that is complete has returned
the window. (CloudWatch today marks a page that is not the last as partial data, so
a paged answer ends the gate with an error: it fails closed.) `rounded` is the
floating-point allowance `whole * (1 - target)`: a budget that is spent exactly is
refused when the product was rounded down (99.9 per cent) and passes when it was not
(90 per cent), so `BudgetVerdictIsEarned` leaves that boundary to either side.

### Evaluation

One program in three modes: "ci" with the deterministic predictor, "staging" against
the deployed API, and "production", which then stores the report with
`IfNoneMatch="*"` and publishes it. State: the suite, the attempt of the GitHub run,
the bag of results, the evidence by key and what was published. The key of the
evidence has the attempt in it, so a run again does not meet its own old evidence;
boto3's repetition of a put whose answer was lost does, is refused, and ends the run
with evidence and no metrics. No predictor of the repository names a tool, so a case
that expects one fails. The cost is the sum of the known costs.

### Audits

The drift audit's steps run whatever became of the step before (`if: always()`),
except that the upload and the policy need a report. A plan that only moves
resources has exit code 2 and no planned change: `summarize` refuses it, there is no
report, the signal is 1 and the job fails, so drift is still reported. The
diagnostics run their seven probes one after the other; a refused call spoils its
own probe only.

### MCProcesses, MCGates

The programs of each of the two share no state with each other. A behaviour of the
run is one of the programs, chosen in the initial state, with the others waiting at
their start; nothing is lost by not interleaving them. `MCSpec` is that
composition, and it is proved to be, of every program in it, a behaviour of the
program's own specification (`GatesRunAlone`, `ProcessesRunAlone`). A program that
waits has to wait somewhere, so each of the two assumes that there is something it
could be started with: a configuration, a suite, a count (`SomethingToGate`), an
environment that is not refused (`SomeEnvironmentStarts`).

## 4. Runs

| Run | Instance | Shows |
|---|---|---|
| `durable_redelivery` | 1 job, 2 copies of its message, 2 workers, 1 redrive, TTL, 2 faults | the safety invariants and the refinement of `JobLifecycle` with duplicates, redrive and expiry (a crash and a lost answer already combine) |
| `durable_liveness` | 2 jobs (one with a blank prompt, never queued), 1 malformed message, 2 workers, TTL, 1 fault | every message and accepted job settles |
| `durable_orphan` | 2 jobs, one with a blank prompt, no fault | finding 1 |
| `durable_redrive` | 1 job, 1 worker, 1 redrive, no fault | finding 2 |
| `local` | 3 jobs, 2 permits, 2 records, 2 threads, 2 shutdowns (one waits) | permits, records, threads, counters, drain, refinement of `JobLifecycle`, progress, every shutdown returns |
| `rollout` | both kinds of script, 2 runs after each other, 1 fault | one revision after a release, the pair from before after a failed one, no release reported that is not served, every run ends |
| `rollout_restore` | 1 run, no fault | finding 3 |
| `delivery` | 2 commits, 2 builds, 1 bootstrap, 2 expired images | production serves only what staging and development served and signed |
| `delivery_measure` | 1 commit, 1 build | finding 4 |
| `load_gate` | 5 requests, queue of 4, 2 workers, 2 escaping exceptions | bounded queue, nothing lost silently, an earned pass, the run ends |
| `processes` | an API process with 3 requests in each of 3 environments (4 others are refused), and a worker container with ticks of 10 s | jobs are found, the key guards what costs, the two sets of metrics agree, ECS replaces or kills only a worker that is slow |
| `gates` | 3 periods of 0 or 10 requests and 0 or 1 errors in any pages; evaluations of up to 20 cases, run twice; every plan of 5 kinds of change; the 7 probes | a gate passes only on what it was to find, fails only without it, and evidence is immutable |

Bounds. Two workers are enough for one to act on what the other has made stale;
two receives make one delivery that is not the last and one that is. Two copies
are what one lost publish answer makes. `MaxFaults` bounds crashes, lost answers
and unavailable calls together, the provider's failures are unbounded. Three
jobs against two records make eviction happen with an active record in front of
a finished one; `MaxStored = MaxPending` is the boundary `WorkerSettings`
allows, and one shutdown that waits beside one that does not is the pair that
races. Two script runs let one start in what the other left behind; two builds
are one commit built twice or two commits overlapping; one expired image is what
makes the gates by commit differ from gates by digest, two are a source and its
copy gone within one promotion. Five requests are one more than two workers'
queue holds. Three requests to the API are one that builds a service, one that
builds another meanwhile, and one that asks for a job the first accepted; the
three environments differ in all that `Starts` and a request test. A tick of ten
seconds divides every interval of the health check; the age limit is nine of
them, a receive with its retries eight, a model call with its retries up to
twenty, so that a message may or may not outlast the limit and the retries after
it. In `gates`, three periods are the fewest that a page can cut in two ways,
and twenty evaluation cases the fewest of which one may be slow and two wrong.
The deadlock check is off where the system may really stop: an executor that was
shut down, an environment whose releases have all run, a load run that has
ended, an API process whose requests are answered, a gate with its verdict. The
durable workers poll for ever.

Fairness. `DurableJobs`: weak fairness of a worker's next call (every AWS and
Bedrock call has a time-out), of ECS restarting a task and of SQS's time-out and
redrive policy; nothing is assumed of the provider's answers, of faults, TTL,
redrives or submits. `LocalJobs`: the threads run, a submit holding the lock and
a started shutdown go on; nobody has to submit or shut down. `ServiceRollout`:
each command of a started script returns or times out (`services-stable` gives up
after ten minutes, the CodeDeploy loop after its own limit); nothing is assumed of
ECS or CodeDeploy. `LoadRun`: the event loop runs what can run, and httpx's
time-outs end every request. The modules of `processes` and `gates` state no
liveness: a worker need not get faster, and a gate may be cancelled.

## 5. Findings

1. **A blank prompt leaves a record pending for ever** (`durable_orphan`).
   `CreateJobRequest` accepts `" "`; `publish` raises `ValueError` from
   `serialize_task` after the record was created, and `submit` handles
   `DurableJobStoreError` only, against the comment at `job_service.py:194`.
2. **A redriven dead letter of a failed job is never executed**
   (`durable_redrive`). The record is failed before the message reaches the DLQ
   and a worker leaves failed jobs alone, so the sample that
   `docs/runbooks/queue-backlog.md:24-30` asks for goes back to the DLQ.

3. **A rollback may end on the release that failed** (`rollout_restore`). After
   `rollback` asked for the previous revision the circuit breaker may refuse that
   one and return to the last steady one, the failed release; the service is
   stable, and the script exits as if it had restored it. The way forward compares
   the task definitions after the wait, the way back does not
   (`promote-staging.sh:108`, against `README.md:257`).
4. **The performance gate refuses a promoted revision** (`delivery_measure`).
   `performance-staging.yml:114` wants the image of the running task definition to
   end in `:` and the commit; `promote-staging.sh` registers it by digest. Only a
   service just created by Terraform runs an image by tag, so a production release
   finds no performance run otherwise.

## 6. Proofs

`DurableJobsProofs` proves, for all sets of jobs, workers and malformed messages
and all bounds, from the assumptions of `DurableJobs` only: `TypeOK`,
`AckOnlyAfterSuccess`, `AcceptedWorkIsKept`, `FailedExactlyWhenExhausted`,
`InferenceImpliesClaimed`, and that the specification implements `JobLifecycle`.

The inductive invariant `IInv` adds to the properties what a worker knows at each
of its steps (`HoldsTask`, `AckReady`, `CountedReceives`) and what submit has
already done (`RecordShape`). `AckOnlyAfterSuccess` alone is not inductive: a
worker at `delete` must be known to have seen or written the success, which
needs that success is final; `FailedOnlyWhenExhausted` needs the count a worker
was given to stay below the message's own count although others receive it too.
`FailedExactlyWhenExhausted` has two halves. The second, `ExhaustedIsSettled`, says
that no message goes to the DLQ with its job open as long as no call failed and no
process died: while a message has its last delivery behind it, that delivery is in
progress or the job is settled. It needs every message to be of a record that was
created (`SentIsCreated`), or an update could miss a record that is not there yet,
and is shown from what a worker without faults does at each call (`TaskGoesOn`).
Three lemmas say what one step may do to a record (`StatusStep`), a message
(`MessageStep`) and a worker (`WorkerStep`); the other conjuncts follow from them
without looking at the actions again.

`DeliveryProofs` proves, for all sets of commits and all bounds, from
`DeliveryAssumption` only: `TypeOK`, `ServedIsSigned` and `ServedIsOneBuild`. The
invariants follow an image from its verification to the service. For signatures:
an environment signs only what its source signed (`SignedInOrder`), what a run
holds after `verify_source` is trusted (`CopiesAreTrusted`), what it is about to
deploy is signed (`DeploysAreSigned`); none of it depends on expired images. For one
build: a tag stands for a build of its own commit (`TagsNameCommits`), a copy is
its source (`ImagesAreCopies`), a workflow that passed has served what its tag
stands for (`PassedIsServed`), and a running promotion has passed its gates
(`GatesHold`), each for commits of which no image expired: for those a tag, once
set, never changes (`TagsStay`), which is why gates that know only commits are
enough. As above, three lemmas (`TagStep`, `RunStep`, `EvidenceStep`) say what one
step may do.

`LocalJobsProofs` proves, for all sets of jobs, threads and shutdowns and all
bounds, from the assumptions of `LocalJobs`: `TypeOK`, `PermitsAreConserved`,
`ActiveIsStored`, `WorkersSurvive`, `ErrorsMatchRecords`, `RejectedLeavesNothing`,
`DrainedBeforeStop`, and the refinement of `JobLifecycle`. They lean on each other:
a thread survives because `mark_failed` finds its record; it does since active
records are never evicted; and they are not since there are no more of them than
permits in use, and no more permits than records: a full repository has a finished
one to drop. `IInv` therefore adds how far the holder of the lock has come
(`LockInv`, `ClientInv`),
that a queued task is pending and in no worker (`QueueInv`), which status the job of
each thread has at each of its steps (`WorkerInv`), and that `unfinished` is the
number of tasks queued or held (`UnfinishedInv`), which is what a drain waits for.
Counts are made of one function over the jobs or threads, and lemmas say what one
update of it does to them.

`ServiceRolloutProofs` proves, for every number of runs and faults: `TypeOK`,
`ServesOneRelease`, `ReleasedIsServed` and `WorkerFirst`. The inductive invariant
says which commands belong to which script and which services they may disturb
(`ScriptInv`), that what the script has waited for and checked on its way forward
stays so until its last command (`CheckedInv`), and, while `damage` is empty, what
is served between runs and what the services and CodeDeploy's deployment may be at
each command, forward and in the trap (`CleanInv`). `ServesOneRelease` speaks of
quiet states only; without these, nothing is known when a rollback begins.

`LoadRunProofs` proves, for all plans, queue bounds and sets of workers: `TypeOK`,
`AnsweredOrLost`, `ReportIsComplete` and `PassedIsEarned`. The central part is that
the queue is the tail of the schedule (`RunningInv`), so that the requests taken are
the first ones and `unfinished` is what is queued plus what is being posted. Each
request taken is with one worker, living or dead, or has one result, and never both
(`PlacedInv`), also when an exception escapes. When `join` has returned, all were
taken and none is being posted (`StoppingInv`): only results and the requests of dead
workers are left.

`WorkerProcessProofs` proves, for every tick, interval, age limit, number of retries
and length of a message: the type invariant, `StopsWithinOneMessage` and
`OnlySlowIsReplaced`. `WorkerInv` relates clocks that run side by side: a heartbeat
is older than its iteration by less than the interval (`BeatInv`), and after failed
probes either the age tells how long they have gone on, or a heartbeat was written
since and the next probe finds it fresh (`FailuresInv`). The attempt showed that
with one retry and a start that takes the whole start period a probe may count
before the first heartbeat, so `WorkerProcess` assumes
`Retries = 1 => MaxBoot < StartPeriod`. `terraform/modules/ecs/main.tf:147-148` and
`:249-250` have three retries and thirty seconds.

`ApiProcessProofs` proves, for every finite set of requests: the type invariant,
`JobsAreFound`, `NoKeyNoCost` and `MetricsAgree`. `ApiInv` says of each request that
what it has still to do is a rest of its route (`PlaceInv`), that only a call being
recorded or answered, or an accepted job, has a model's answer (`AnswerInv`), and
that without the key it is at its first step or was refused (`KeyInv`); of the cache,
that a request that arrived after a service was cached uses that one (`ServiceInv`);
and of each counter and EMF sum, that it is the number of requests whose own record
says so (`CountInv`). `MetricsAgree` follows: what is recorded of a request that is
through is what it was answered. A step is first shown to move one request from one
place to another (`Moves`), and lemmas recount. One assumption is added: `None` is no
kind of request, no answer and no number.

`WorkerProcessProofs` also proves, for the composition of the two containers, that
each runs as its own specification has it and that all types are kept.

`GatesProofs` proves of each of the four programs its type invariant and what its
verdict rests on, and of the composition that each program runs alone and
`VerdictsAreEarned`.

* `ErrorBudget`, for every window, configuration and traffic, whatever pages and
  statuses CloudWatch returns. `BudgetInv` says that what was read is what
  CloudWatch has of the periods delivered so far, and that a verdict is computed
  when they are the window. Then the sums over what was read are those over the
  window, because a period without data points counts nothing (`WindowRead`), and
  the two inequalities of the verdict follow from those of the code by the exactness
  of integers, but for a budget that is spent exactly.
* `Evaluation`, for all suites, replies, thresholds and attempts. `EvidenceIsSound`
  needs to know that no evidence of an attempt exists before its results are
  complete, and that what is published next is the report of those results and not
  of a later state (`EvidenceInv`). A verdict is the gate's on one result per case,
  in production with its report stored and published (`VerdictsStand`).
  `PassIsEarned` says what the gate's scores mean for the cases: a rounded ratio is
  over its threshold exactly when few enough answers are wrong (`AccuracyByCount`),
  the nearest-rank percentile is within the limit exactly when at most one case in
  twenty is over it (`LatencyByCount`), the cost is the sum of what is known
  (`CostBySum`).
* `Audits`, for every plan and whatever fails. `DriftInv` ties report and signal to
  the plan from the step that made them; `DiagnosticsInv` says of every probe so far
  that it is called ok unless it was refused, which a later refusal keeps because the
  seven names differ. `Audits` assumes that `NoReport` is no number, or a missing
  signal could read as 0.

The sums of these modules are `SumFunctionOnSet` of the community modules, a fold
the provers know nothing about. The lemmas about it (what the empty sum is, that one
element may be taken out first whatever `CHOOSE` takes, that sums of two functions
and over two disjoint sets add up) start from its definition as a recursive function
(`SumExists`, `SumMeaning`). Where they need induction, it is that every set of
natural numbers, or of finite subsets, closed under the next one holds them all
(`NaturalsAreReached`, `SubsetsAreReached`): both are lemmas about a set and not
about an operator, proved from a least counterexample.

The inductive invariants of all these modules were checked by TLC on the
instances of the runs before they were proved. The theorems are stated for `Spec`,
which `FairSpec` implies, so they need no fairness.

Only model-checked: liveness (`MessageSettles`, `AcceptedJobSettles`,
`AcceptedJobFinishes`, `ShutdownReturns`, `ScriptEnds`, `RunEnds`), which is out of
TLAPS's reach here. Every invariant, every action property and both refinements
that the runs check are theorems.

## 7. Not modelled

* Output nothing reads back: tracing, logging, the percentiles and ratios of a
  metrics snapshot, the rounding of numbers in reports, the fields a diagnostics
  probe keeps, the policy findings of the plan summary.
* The envelope of queue messages beyond which tasks are refused, and the syntax of
  single settings: checks of one value, without state.
* The `ValueError` of `record_token_usage` and `record_estimated_cost` for negative
  amounts: `bedrock.py:135-139` refuses negative counts, and the local provider costs
  nothing.
* Thresholds that are not numbers, and Python's rounding of exact ties to the even
  digit: scores and thresholds of `Evaluation` are integers, and `Ratio` rounds ties up.
* The branch of `run_worker` with a queue, which no entry point reaches.
* The API container's own health check: `/health` needs one of the server's threads,
  which model calls may hold for minutes. How many threads there are is the server's
  business and not in this repository.
* Declarative provisioning beyond the parts the models name, and the verification
  requests of the delivery scripts.

Two differences between text and behaviour were met that are no finding of a run.
`main.py:244` documents 502 for an invalid model response while two kinds of invalid
response become 500 (`ErrorStatus`). `README.md:345` and `:373`
say that the drift audit and the production evaluation run every day, but their
workflows are started by hand only.
