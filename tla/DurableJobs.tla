------------------------------ MODULE DurableJobs ------------------------------
(***************************************************************************)
(* The durable job path: the API's AwsJobService.submit writes a record to *)
(* DynamoDB and publishes a task to SQS; worker processes receive, claim,  *)
(* infer, record the outcome and acknowledge.  Every AWS call is a step of *)
(* its own and may be applied without its answer arriving.                 *)
(***************************************************************************)
EXTENDS Naturals, FiniteSets

CONSTANTS Jobs,             \* calls of submit, each with a fresh job_id
          BlankPrompts,     \* the jobs whose prompt is only white space
          Expiring,         \* the jobs whose TTL runs out while we watch
          Malformed,        \* foreign messages that fail deserialize_task
          Workers,          \* worker processes (ECS tasks)
          MaxReceiveCount,  \* JOB_MAX_RECEIVE_COUNT = the redrive policy's
          MaxCopies,        \* bound: times one task reaches SQS (SDK retries)
          MaxRedrives,      \* bound: times an operator redrives one message
          MaxFaults,        \* bound: crashes, lost answers and unavailable calls
          None              \* no message, no worker

ASSUME DurableJobsAssumption ==
    /\ BlankPrompts \subseteq Jobs
    /\ Expiring \subseteq Jobs
    /\ Jobs \cap Malformed = {}
    /\ MaxReceiveCount \in Nat \ {0}
    /\ MaxCopies \in Nat \ {0}
    /\ MaxRedrives \in Nat
    /\ MaxFaults \in Nat
    /\ None \notin Workers

Copies == 1..MaxCopies
Messages == (Jobs \cup Malformed) \X Copies
JobOf(m) == m[1]

ASSUME NoneAssumption == None \notin Messages

Statuses == {"absent", "pending", "running", "succeeded", "failed"}
Terminal == {"succeeded", "failed"}
ErrorCodes == {"none", "enqueue_failed", "inference_failed"}
ApiStates == {"idle", "publish", "cleanup", "accepted", "raised", "crashed"}
Places == {"none", "queue", "dlq", "deleted"}
WorkerSteps == {"poll", "get", "mark_running", "infer", "mark_failed",
                "mark_succeeded", "delete", "down"}

VARIABLES status,     \* status attribute of the record; its last value once expired
          stored,     \* whether the DynamoDB item exists
          errorCode,  \* error_code attribute of the record
          api,        \* where the submit call of each job is
          place,      \* where each SQS message is
          visible,    \* whether a queued message may be received
          count,      \* ApproximateReceiveCount
          holder,     \* the worker with the message's newest receipt handle
          redrives,   \* times the message was moved back from the DLQ
          pc,         \* the next call of each worker
          held,       \* the message a worker is processing
          heldCount,  \* ReceivedJob.receive_count of that message
          faults      \* faults so far

recordVars == <<status, stored, errorCode>>
queueVars == <<place, visible, count, holder, redrives>>
workerVars == <<pc, held, heldCount>>
vars == <<recordVars, api, queueVars, workerVars, faults>>

TypeOK ==
    /\ status \in [Jobs -> Statuses]
    /\ stored \in [Jobs -> BOOLEAN]
    /\ errorCode \in [Jobs -> ErrorCodes]
    /\ api \in [Jobs -> ApiStates]
    /\ place \in [Messages -> Places]
    /\ visible \in [Messages -> BOOLEAN]
    /\ count \in [Messages -> 0..MaxReceiveCount]
    /\ holder \in [Messages -> Workers \cup {None}]
    /\ redrives \in [Messages -> 0..MaxRedrives]
    /\ pc \in [Workers -> WorkerSteps]
    /\ held \in [Workers -> Messages \cup {None}]
    /\ heldCount \in [Workers -> 0..MaxReceiveCount]
    /\ faults \in 0..MaxFaults

Init ==
    /\ status = [j \in Jobs |-> "absent"]
    /\ stored = [j \in Jobs |-> FALSE]
    /\ errorCode = [j \in Jobs |-> "none"]
    /\ api = [j \in Jobs |-> "idle"]
    /\ place = [m \in Messages |->
                  IF JobOf(m) \in Malformed /\ m[2] = 1 THEN "queue" ELSE "none"]
    /\ visible = [m \in Messages |-> TRUE]
    /\ count = [m \in Messages |-> 0]
    /\ holder = [m \in Messages |-> None]
    /\ redrives = [m \in Messages |-> 0]
    /\ pc = [w \in Workers |-> "poll"]
    /\ held = [w \in Workers |-> None]
    /\ heldCount = [w \in Workers |-> 0]
    /\ faults = 0

NoFault == UNCHANGED faults
Fault == faults < MaxFaults /\ faults' = faults + 1

(***************************************************************************)
(* The DynamoDB repository: conditional updates.                           *)
(***************************************************************************)

\* _update: the condition and the write are atomic in DynamoDB.  "error" is
\* either exception, InvalidJobTransitionError or DurableJobStoreError: no
\* caller tells them apart.  The SDK retries a lost answer and the condition
\* then fails on its own write, so an error may also follow an applied write.
Update(j, from, to, code, answer) ==
    LET matches == stored[j] /\ status[j] \in from
        written == /\ status' = [status EXCEPT ![j] = to]
                   /\ errorCode' = [errorCode EXCEPT ![j] = code]
    IN /\ UNCHANGED stored
       /\ \/ answer = "ok" /\ matches /\ written /\ NoFault
          \/ answer = "error" /\ ~matches /\ UNCHANGED <<status, errorCode>> /\ NoFault
          \/ answer = "error" /\ matches /\ written /\ Fault
          \/ answer = "error" /\ matches /\ UNCHANGED <<status, errorCode>> /\ Fault

MarkRunning(j, answer) ==
    Update(j, {"pending", "running"}, "running", errorCode[j], answer)

MarkSucceeded(j, answer) ==
    Update(j, {"running"}, "succeeded", errorCode[j], answer)

\* Mutant of MarkFailed: its condition also lets a succeeded record through.
MarkFailedUnlessFailed(j, code, answer) ==
    Update(j, {"pending", "running", "succeeded"}, "failed", code, answer)

MarkFailed(j, code, answer) ==
    Update(j, {"pending", "running"}, "failed", code, answer)

\* DynamoDB's TTL process deletes the item, whatever its status.
Expire(j) ==
    /\ j \in Expiring
    /\ stored[j]
    /\ stored' = [stored EXCEPT ![j] = FALSE]
    /\ UNCHANGED <<status, errorCode, api, queueVars, workerVars, faults>>

(***************************************************************************)
(* AwsJobService.submit, one step per AWS call.                            *)
(***************************************************************************)

\* create: a conditional put under a new UUID.
CreateRecord(j) ==
    /\ api[j] = "idle"
    /\ status' = [status EXCEPT ![j] = "pending"]
    /\ stored' = [stored EXCEPT ![j] = TRUE]
    /\ \/ NoFault /\ api' = [api EXCEPT ![j] = "publish"]
       \/ Fault /\ api' = [api EXCEPT ![j] = "raised"]
    /\ UNCHANGED <<errorCode, queueVars, workerVars>>

\* create raises and nothing was written.
CreateFails(j) ==
    /\ api[j] = "idle"
    /\ Fault
    /\ api' = [api EXCEPT ![j] = "raised"]
    /\ UNCHANGED <<recordVars, queueVars, workerVars>>

\* SQS stores one more copy of the task's message.
Send(m) ==
    /\ place[m] = "none"
    /\ place' = [place EXCEPT ![m] = "queue"]
    /\ UNCHANGED <<visible, count, holder, redrives>>

\* serialize_task raises ValueError, which submit does not catch.
PublishRejected(j) ==
    /\ api[j] = "publish"
    /\ j \in BlankPrompts
    /\ api' = [api EXCEPT ![j] = "raised"]
    /\ UNCHANGED <<recordVars, queueVars, workerVars, faults>>

Publish(j) ==
    /\ api[j] = "publish"
    /\ j \notin BlankPrompts
    /\ \E c \in Copies : Send(<<j, c>>)
    /\ api' = [api EXCEPT ![j] = "accepted"]
    /\ UNCHANGED <<recordVars, workerVars, faults>>

\* The message arrived but the answer did not: the SDK sends it again.
PublishRetried(j) ==
    /\ api[j] = "publish"
    /\ j \notin BlankPrompts
    /\ \E c, d \in Copies : c # d /\ place[<<j, d>>] = "none" /\ Send(<<j, c>>)
    /\ Fault
    /\ UNCHANGED <<recordVars, api, workerVars>>

\* Mutant of PublishFails: submit swallows the error and returns the record.
PublishFailureIgnored(j) ==
    /\ api[j] = "publish"
    /\ j \notin BlankPrompts
    /\ Fault
    /\ api' = [api EXCEPT ![j] = "accepted"]
    /\ UNCHANGED <<recordVars, queueVars, workerVars>>

\* publish raises DurableJobStoreError; the last attempt may have arrived.
PublishFails(j) ==
    /\ api[j] = "publish"
    /\ j \notin BlankPrompts
    /\ Fault
    /\ \/ \E c \in Copies : Send(<<j, c>>)
       \/ UNCHANGED queueVars
    /\ api' = [api EXCEPT ![j] = "cleanup"]
    /\ UNCHANGED <<recordVars, workerVars>>

\* submit marks the record failed and raises; an error of mark_failed escapes.
Cleanup(j) ==
    /\ api[j] = "cleanup"
    /\ \E answer \in {"ok", "error"} : MarkFailed(j, "enqueue_failed", answer)
    /\ api' = [api EXCEPT ![j] = "raised"]
    /\ UNCHANGED <<queueVars, workerVars>>

\* The API task dies between two calls of submit.
ApiCrash(j) ==
    /\ api[j] \in {"publish", "cleanup"}
    /\ Fault
    /\ api' = [api EXCEPT ![j] = "crashed"]
    /\ UNCHANGED <<recordVars, queueVars, workerVars>>

(***************************************************************************)
(* SQS: visibility, the redrive policy, and an operator's redrive.         *)
(***************************************************************************)

VisibilityTimeout(m) ==
    /\ place[m] = "queue"
    /\ ~visible[m]
    /\ visible' = [visible EXCEPT ![m] = TRUE]
    /\ UNCHANGED <<recordVars, api, place, count, holder, redrives, workerVars, faults>>

\* maxReceiveCount deliveries were not acknowledged.
DeadLetter(m) ==
    /\ place[m] = "queue"
    /\ visible[m]
    /\ count[m] >= MaxReceiveCount
    /\ place' = [place EXCEPT ![m] = "dlq"]
    /\ UNCHANGED <<recordVars, api, visible, count, holder, redrives, workerVars, faults>>

\* The move makes a new message: its receive count starts again at zero.
Redrive(m) ==
    /\ place[m] = "dlq"
    /\ redrives[m] < MaxRedrives
    /\ place' = [place EXCEPT ![m] = "queue"]
    /\ visible' = [visible EXCEPT ![m] = TRUE]
    /\ count' = [count EXCEPT ![m] = 0]
    /\ holder' = [holder EXCEPT ![m] = None]
    /\ redrives' = [redrives EXCEPT ![m] = @ + 1]
    /\ UNCHANGED <<recordVars, api, workerVars, faults>>

\* Mutant of Deliver: the queue has no redrive policy.
DeliverForEver(m, receiver) ==
    /\ place[m] = "queue"
    /\ visible[m]
    /\ visible' = [visible EXCEPT ![m] = FALSE]
    /\ count' = [count EXCEPT ![m] = @ + 1]
    /\ holder' = [holder EXCEPT ![m] = receiver]
    /\ UNCHANGED <<place, redrives>>

\* SQS hands out the message: hidden, counted, under a new receipt handle.
Deliver(m, receiver) ==
    /\ place[m] = "queue"
    /\ visible[m]
    /\ count[m] < MaxReceiveCount
    /\ visible' = [visible EXCEPT ![m] = FALSE]
    /\ count' = [count EXCEPT ![m] = @ + 1]
    /\ holder' = [holder EXCEPT ![m] = receiver]
    /\ UNCHANGED <<place, redrives>>

(***************************************************************************)
(* run_durable_worker and DurableJobProcessor.process, one step per call.  *)
(***************************************************************************)

Goto(w, step) ==
    /\ pc' = [pc EXCEPT ![w] = step]
    /\ UNCHANGED <<held, heldCount>>

\* Back to the top of the loop: by return, or by an exception it catches.
Leave(w, step) ==
    /\ pc' = [pc EXCEPT ![w] = step]
    /\ held' = [held EXCEPT ![w] = None]
    /\ heldCount' = [heldCount EXCEPT ![w] = 0]

Return(w) == Leave(w, "poll")

Receive(w, m) ==
    /\ pc[w] = "poll"
    /\ JobOf(m) \in Jobs
    /\ Deliver(m, w)
    /\ pc' = [pc EXCEPT ![w] = "get"]
    /\ held' = [held EXCEPT ![w] = m]
    /\ heldCount' = [heldCount EXCEPT ![w] = count[m] + 1]
    /\ UNCHANGED <<recordVars, api, faults>>

\* InvalidQueueMessageError: the loop logs it and keeps the message.
ReceiveMalformed(w, m) ==
    /\ pc[w] = "poll"
    /\ JobOf(m) \in Malformed
    /\ Deliver(m, w)
    /\ UNCHANGED <<recordVars, api, workerVars, faults>>

\* SQS counts the delivery, but its answer never arrives.
ReceiveLost(w, m) ==
    /\ pc[w] = "poll"
    /\ Deliver(m, None)
    /\ Fault
    /\ UNCHANGED <<recordVars, api, workerVars>>

\* A long poll that finds nothing.
ReceiveNothing(w) ==
    /\ pc[w] = "poll"
    /\ \A m \in Messages : ~(place[m] = "queue" /\ visible[m])
    /\ UNCHANGED vars

\* Mutant of GetRecord: a failed job's message is acknowledged, too.
GetRecordAckFailed(w) ==
    LET j == JobOf(held[w])
    IN /\ pc[w] = "get"
       /\ \/ ~stored[j] /\ Return(w)
          \/ stored[j] /\ status[j] \in Terminal /\ Goto(w, "delete")
          \/ stored[j] /\ status[j] \notin Terminal /\ Goto(w, "mark_running")
       /\ UNCHANGED <<recordVars, api, queueVars, faults>>

\* get, and what _process_in_span does with the status it read.
GetRecord(w) ==
    LET j == JobOf(held[w])
    IN /\ pc[w] = "get"
       /\ \/ ~stored[j] /\ Return(w) /\ NoFault               \* JobNotFoundError
          \/ stored[j] /\ status[j] = "succeeded" /\ Goto(w, "delete") /\ NoFault
          \/ stored[j] /\ status[j] = "failed" /\ Return(w) /\ NoFault
          \/ stored[j] /\ status[j] \notin Terminal /\ Goto(w, "mark_running") /\ NoFault
          \/ Return(w) /\ Fault                               \* DurableJobStoreError
       /\ UNCHANGED <<recordVars, api, queueVars>>

\* Mutant of ClaimRecord: an error of mark_running does not stop the worker.
ClaimErrorIgnored(w) ==
    /\ pc[w] = "mark_running"
    /\ \E answer \in {"ok", "error"} : MarkRunning(JobOf(held[w]), answer)
    /\ Goto(w, "infer")
    /\ UNCHANGED <<api, queueVars>>

\* Mutant of ClaimRecord: the worker repeats mark_running until it succeeds.
ClaimRepeated(w) ==
    /\ pc[w] = "mark_running"
    /\ MarkRunning(JobOf(held[w]), "ok") /\ Goto(w, "infer")
    /\ UNCHANGED <<api, queueVars>>

ClaimRecord(w) ==
    /\ pc[w] = "mark_running"
    /\ \/ MarkRunning(JobOf(held[w]), "ok") /\ Goto(w, "infer")
       \/ MarkRunning(JobOf(held[w]), "error") /\ Return(w)
    /\ UNCHANGED <<api, queueVars>>

\* Mutant of Infer: the failure is final one delivery too early.
InferGivesUpEarly(w) ==
    /\ pc[w] = "infer"
    /\ \/ Goto(w, "mark_succeeded")
       \/ heldCount[w] + 1 >= MaxReceiveCount /\ Goto(w, "mark_failed")
       \/ heldCount[w] + 1 < MaxReceiveCount /\ Return(w)
    /\ UNCHANGED <<recordVars, api, queueVars, faults>>

\* Mutant of Infer: the count is compared as if it began at zero.
InferNeverGivesUp(w) ==
    /\ pc[w] = "infer"
    /\ \/ Goto(w, "mark_succeeded")
       \/ heldCount[w] > MaxReceiveCount /\ Goto(w, "mark_failed")
       \/ heldCount[w] <= MaxReceiveCount /\ Return(w)
    /\ UNCHANGED <<recordVars, api, queueVars, faults>>

\* The model answers, or it fails: only the last delivery records a failure.
Infer(w) ==
    /\ pc[w] = "infer"
    /\ \/ Goto(w, "mark_succeeded")
       \/ heldCount[w] >= MaxReceiveCount /\ Goto(w, "mark_failed")
       \/ heldCount[w] < MaxReceiveCount /\ Return(w)
    /\ UNCHANGED <<recordVars, api, queueVars, faults>>

\* Any exception of mark_failed is logged and swallowed.
RecordFailure(w) ==
    /\ pc[w] = "mark_failed"
    /\ \E answer \in {"ok", "error"} :
          MarkFailed(JobOf(held[w]), "inference_failed", answer)
    /\ Return(w)
    /\ UNCHANGED <<api, queueVars>>

\* Mutant of RecordSuccess: the message is deleted although the write failed.
AckWithoutRecord(w) ==
    /\ pc[w] = "mark_succeeded"
    /\ \E answer \in {"ok", "error"} : MarkSucceeded(JobOf(held[w]), answer)
    /\ Goto(w, "delete")
    /\ UNCHANGED <<api, queueVars>>

RecordSuccess(w) ==
    /\ pc[w] = "mark_succeeded"
    /\ \/ MarkSucceeded(JobOf(held[w]), "ok") /\ Goto(w, "delete")
       \/ MarkSucceeded(JobOf(held[w]), "error") /\ Return(w)
    /\ UNCHANGED <<api, queueVars>>

\* delete_message: a stale receipt handle may or may not delete, and the
\* answer may be lost; the worker goes on to the next message in any case.
Acknowledge(w) ==
    LET m == held[w]
    IN /\ pc[w] = "delete"
       /\ \/ /\ place[m] = "queue"
             /\ place' = [place EXCEPT ![m] = "deleted"]
             /\ NoFault
          \/ /\ place[m] # "queue" \/ holder[m] # w
             /\ UNCHANGED place
             /\ NoFault
          \/ Fault /\ UNCHANGED place
       /\ Return(w)
       /\ UNCHANGED <<recordVars, api, visible, count, holder, redrives>>

\* The process dies anywhere; a SIGTERM only ends it at the top of the loop.
Terminate(w) ==
    /\ pc[w] # "down"
    /\ Fault
    /\ Leave(w, "down")
    /\ UNCHANGED <<recordVars, api, queueVars>>

\* ECS replaces the task.
Restart(w) ==
    /\ pc[w] = "down"
    /\ Return(w)
    /\ UNCHANGED <<recordVars, api, queueVars, faults>>

(***************************************************************************)
(* The system.                                                             *)
(***************************************************************************)

Submit(j) ==
    \/ CreateRecord(j) \/ CreateFails(j) \/ PublishRejected(j) \/ Publish(j)
    \/ PublishRetried(j) \/ PublishFails(j) \/ Cleanup(j) \/ ApiCrash(j)

Take(w) == \E m \in Messages : Receive(w, m) \/ ReceiveMalformed(w, m)

Process(w) ==
    \/ GetRecord(w) \/ ClaimRecord(w) \/ Infer(w) \/ RecordFailure(w)
    \/ RecordSuccess(w) \/ Acknowledge(w)

QueueStep(m) == VisibilityTimeout(m) \/ DeadLetter(m) \/ Redrive(m)

Next ==
    \/ \E j \in Jobs : Submit(j) \/ Expire(j)
    \/ \E m \in Messages : QueueStep(m)
    \/ \E w \in Workers :
          \/ Take(w) \/ Process(w) \/ ReceiveNothing(w)
          \/ Terminate(w) \/ Restart(w)
          \/ \E m \in Messages : ReceiveLost(w, m)

Spec == Init /\ [][Next]_vars

\* A worker's loop goes on (its calls have time-outs), ECS replaces a stopped
\* task, and SQS returns and dead-letters messages.  Nothing is assumed of
\* faults, of the provider's answer, of TTL, of redrives or of submit.
Fairness ==
    /\ \A w \in Workers :
          /\ WF_vars(Take(w))
          /\ WF_vars(Process(w))
          /\ WF_vars(Restart(w))
    /\ \A m \in Messages :
          /\ WF_vars(VisibilityTimeout(m))
          /\ WF_vars(DeadLetter(m))

FairSpec == Spec /\ Fairness

(***************************************************************************)
(* Properties.                                                             *)
(***************************************************************************)

Sent(j) == \E c \in Copies : place[<<j, c>>] # "none"
InCustody(m) == place[m] \in {"queue", "dlq"}

\* A message is acknowledged (deleted from SQS) only when its job's outcome
\* is recorded: no crash, lost answer, duplicate or late worker can make the
\* queue forget work whose result is not in the table (worker.py:157-158),
\* and a final failure's message is kept for the DLQ (worker.py:86-92).
AckOnlyAfterSuccess ==
    \A m \in Messages :
        place[m] = "deleted" =>
            JobOf(m) \in Jobs /\ status[JobOf(m)] = "succeeded"

\* A job the client was told is accepted (202) is never lost: SQS still holds
\* its task, in the queue or the DLQ, or it succeeded.
AcceptedWorkIsKept ==
    \A j \in Jobs :
        api[j] = "accepted" =>
            \/ status[j] = "succeeded"
            \/ \E c \in Copies : InCustody(<<j, c>>)

\* An inference failure is final only after some delivery used up the receives
\* the redrive policy allows.  A redrive starts the count again.
FailedOnlyWhenExhausted ==
    \A j \in Jobs :
        errorCode[j] = "inference_failed" =>
            \E c \in Copies :
                \/ count[<<j, c>>] >= MaxReceiveCount
                \/ redrives[<<j, c>>] > 0

\* A message that used up its receives, and of which no worker has the last
\* delivery any more, has a job that is settled: unless a call failed or a
\* process died on the way, it succeeded, failed for good, or its record expired.
ExhaustedIsSettled ==
    \A m \in Messages :
        JobOf(m) \in Jobs /\ count[m] >= MaxReceiveCount /\ faults = 0 =>
            \/ status[JobOf(m)] \in Terminal
            \/ ~stored[JobOf(m)]
            \/ \E w \in Workers : /\ pc[w] \notin {"poll", "down"}
                                  /\ held[w] = m
                                  /\ heldCount[w] >= MaxReceiveCount

\* A failure is recorded on the last delivery the redrive policy allows and on
\* no other: the worker's comparison (worker.py:124) neither cuts retries short
\* nor lets a message go to the DLQ with its job open, whatever its earlier
\* deliveries, other workers, a redrive and an expiring record do meanwhile.
FailedExactlyWhenExhausted == FailedOnlyWhenExhausted /\ ExhaustedIsSettled

\* While a worker calls the model or holds its answer, the record no longer
\* says pending: the claim was written first, and no other actor undoes it.
InferenceImpliesClaimed ==
    \A w \in Workers :
        pc[w] \in {"infer", "mark_failed", "mark_succeeded"} =>
            status[JobOf(held[w])] \notin {"absent", "pending"}

\* The delivery of a job's task as JobLifecycle sees it.
deliveryOf ==
    [j \in Jobs |->
        IF \E c \in Copies : InCustody(<<j, c>>) THEN "held"
        ELSE IF Sent(j) THEN "released" ELSE "none"]

JL == INSTANCE JobLifecycle WITH delivery <- deliveryOf, ReleaseOn <- {"succeeded"}

\* The durable path implements the job lifecycle: no interleaving of clients,
\* workers, retries, TTL and redrives takes a record out of a terminal status,
\* revives an expired record, runs a job that was never queued, or lets a
\* task go before success.
LifecycleSpec == JL!Spec

\* Every message put in the queue ends acknowledged or in the DLQ, malformed
\* ones and those of failed, expired or crashed jobs included: none is
\* received for ever.
MessageSettles ==
    \A m \in Messages :
        place[m] = "queue" ~> place[m] \in {"deleted", "dlq"}

\* An accepted job never stays open unnoticed: it reaches a terminal status,
\* or its record expires, or an operator finds its message in the DLQ.
AcceptedJobSettles ==
    \A j \in Jobs :
        api[j] = "accepted" ~>
            \/ status[j] \in Terminal
            \/ ~stored[j]
            \/ \E c \in Copies : place[<<j, c>>] = "dlq"

\* What the comment in submit says (job_service.py:194): when submit raises,
\* no record stays pending with nothing left to advance it.
RaisedIsNotLeftPending ==
    \A j \in Jobs :
        api[j] = "raised" /\ stored[j] => status[j] # "pending" \/ Sent(j)

\* What the runbook says of a redriven dead letter (queue-backlog.md:24-30):
\* the job completes; at the least some worker takes it up to the model again.
RedrivenJobIsRetried ==
    \A m \in Messages :
        redrives[m] > 0 ~>
            \/ \E w \in Workers : held[w] = m /\ pc[w] = "infer"
            \/ place[m] = "deleted"
===============================================================================
