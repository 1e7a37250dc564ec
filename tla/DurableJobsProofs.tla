--------------------------- MODULE DurableJobsProofs ---------------------------
(***************************************************************************)
(* Theorems about DurableJobs for every set of jobs, workers and malformed *)
(* messages and every value of the bounds, with proofs checked by TLAPS.   *)
(***************************************************************************)
EXTENDS DurableJobs, TLAPS

USE DurableJobsAssumption, NoneAssumption

LEMMA MessageFacts ==
    /\ \A m \in Messages : JobOf(m) \in Jobs \cup Malformed
    /\ \A j \in Jobs, c \in Copies : <<j, c>> \in Messages /\ JobOf(<<j, c>>) = j
    /\ \A m \in Messages : m[2] \in Copies /\ m = <<JobOf(m), m[2]>>
BY DEF Messages, JobOf

-------------------------------------------------------------------------------
(***************************************************************************)
(* Type correctness.                                                       *)
(***************************************************************************)

LEMMA InitType == Init => TypeOK
BY DEF Init, TypeOK, Statuses, ErrorCodes, ApiStates, Places, WorkerSteps

LEMMA UpdateType ==
    ASSUME TypeOK, NEW j \in Jobs, NEW from, NEW to \in Statuses,
           NEW code \in ErrorCodes, NEW answer, Update(j, from, to, code, answer)
    PROVE  /\ status' \in [Jobs -> Statuses]
           /\ stored' \in [Jobs -> BOOLEAN]
           /\ errorCode' \in [Jobs -> ErrorCodes]
           /\ faults' \in 0..MaxFaults
BY DEF Update, TypeOK, Fault, NoFault

LEMMA SendType ==
    ASSUME TypeOK, NEW m, Send(m)
    PROVE  /\ place' \in [Messages -> Places]
           /\ UNCHANGED <<visible, count, holder, redrives>>
BY DEF TypeOK, Send, Places

LEMMA SubmitType ==
    ASSUME TypeOK, NEW j \in Jobs, Submit(j)
    PROVE  TypeOK'
<1> USE DEF TypeOK, recordVars, queueVars, workerVars, Fault, NoFault
<1>1. CASE CreateRecord(j)
  BY <1>1 DEF CreateRecord, Statuses, ApiStates
<1>2. CASE CreateFails(j)
  BY <1>2 DEF CreateFails, ApiStates
<1>3. CASE PublishRejected(j)
  BY <1>3 DEF PublishRejected, ApiStates
<1>4. CASE Publish(j)
  BY <1>4, SendType DEF Publish, ApiStates
<1>5. CASE PublishRetried(j)
  BY <1>5, SendType DEF PublishRetried
<1>6. CASE PublishFails(j)
  <2>1. /\ place' \in [Messages -> Places]
        /\ UNCHANGED <<visible, count, holder, redrives>>
    BY <1>6, SendType DEF PublishFails
  <2> QED
    BY <1>6, <2>1 DEF PublishFails, ApiStates
<1>7. CASE Cleanup(j)
  <2>1. PICK answer : MarkFailed(j, "enqueue_failed", answer)
    BY <1>7 DEF Cleanup
  <2>2. /\ status' \in [Jobs -> Statuses]
        /\ stored' \in [Jobs -> BOOLEAN]
        /\ errorCode' \in [Jobs -> ErrorCodes]
        /\ faults' \in 0..MaxFaults
    BY <2>1, UpdateType DEF MarkFailed, Statuses, ErrorCodes
  <2> QED
    BY <1>7, <2>2 DEF Cleanup, ApiStates
<1>8. CASE ApiCrash(j)
  BY <1>8 DEF ApiCrash, ApiStates
<1> QED
  BY <1>1, <1>2, <1>3, <1>4, <1>5, <1>6, <1>7, <1>8 DEF Submit

LEMMA QueueType ==
    ASSUME TypeOK, NEW m \in Messages, QueueStep(m)
    PROVE  TypeOK'
<1> USE DEF TypeOK, recordVars, workerVars
<1>1. CASE VisibilityTimeout(m)
  BY <1>1 DEF VisibilityTimeout
<1>2. CASE DeadLetter(m)
  BY <1>2 DEF DeadLetter, Places
<1>3. CASE Redrive(m)
  BY <1>3 DEF Redrive, Places
<1> QED
  BY <1>1, <1>2, <1>3 DEF QueueStep

LEMMA DeliverType ==
    ASSUME TypeOK, NEW m \in Messages, NEW r \in Workers \cup {None}, Deliver(m, r)
    PROVE  /\ place' \in [Messages -> Places]
           /\ visible' \in [Messages -> BOOLEAN]
           /\ count' \in [Messages -> 0..MaxReceiveCount]
           /\ holder' \in [Messages -> Workers \cup {None}]
           /\ redrives' \in [Messages -> 0..MaxRedrives]
           /\ count[m] + 1 \in 0..MaxReceiveCount
BY DEF TypeOK, Deliver

LEMMA TakeType ==
    ASSUME TypeOK, NEW w \in Workers, NEW m \in Messages,
           Receive(w, m) \/ ReceiveMalformed(w, m) \/ ReceiveLost(w, m)
    PROVE  TypeOK'
<1> USE DEF TypeOK, recordVars, workerVars
<1>1. CASE Receive(w, m)
  <2>1. Deliver(m, w)
    BY <1>1 DEF Receive
  <2> QED
    BY <1>1, <2>1, DeliverType DEF Receive, WorkerSteps
<1>2. CASE ReceiveMalformed(w, m)
  <2>1. Deliver(m, w)
    BY <1>2 DEF ReceiveMalformed
  <2> QED
    BY <1>2, <2>1, DeliverType DEF ReceiveMalformed
<1>3. CASE ReceiveLost(w, m)
  <2>1. Deliver(m, None)
    BY <1>3 DEF ReceiveLost
  <2> QED
    BY <1>3, <2>1, DeliverType DEF ReceiveLost, Fault
<1> QED
  BY <1>1, <1>2, <1>3

\* A worker between two calls holds a job's task that was sent to SQS.
HoldsTask ==
    \A w \in Workers :
        pc[w] \notin {"poll", "down"} =>
            /\ held[w] \in Messages
            /\ JobOf(held[w]) \in Jobs
            /\ place[held[w]] # "none"

LEMMA ProcessType ==
    ASSUME TypeOK, HoldsTask, NEW w \in Workers, Process(w)
    PROVE  TypeOK'
<1> USE DEF TypeOK, recordVars, queueVars
<1> DEFINE j == JobOf(held[w])
<1>0. pc[w] \notin {"poll", "down"} /\ j \in Jobs
  BY DEF Process, GetRecord, ClaimRecord, Infer, RecordFailure, RecordSuccess,
         Acknowledge, HoldsTask
<1>1. ASSUME NEW step \in WorkerSteps, Goto(w, step) \/ Leave(w, step)
      PROVE  /\ pc' \in [Workers -> WorkerSteps]
             /\ held' \in [Workers -> Messages \cup {None}]
             /\ heldCount' \in [Workers -> 0..MaxReceiveCount]
  BY <1>1 DEF Goto, Leave
<1>2. ASSUME NEW from, NEW to \in Statuses, NEW code \in ErrorCodes, NEW answer,
             Update(j, from, to, code, answer)
      PROVE  /\ status' \in [Jobs -> Statuses]
             /\ stored' \in [Jobs -> BOOLEAN]
             /\ errorCode' \in [Jobs -> ErrorCodes]
             /\ faults' \in 0..MaxFaults
  BY <1>0, <1>2, UpdateType
<1>3. CASE GetRecord(w)
  <2>1. \E step \in WorkerSteps : Goto(w, step) \/ Leave(w, step)
    BY <1>3 DEF GetRecord, Return, WorkerSteps
  <2>2. faults' \in 0..MaxFaults
    BY <1>3 DEF GetRecord, Fault, NoFault
  <2> QED
    BY <1>1, <1>3, <2>1, <2>2 DEF GetRecord
<1>4. CASE ClaimRecord(w)
  <2>1. \E step \in WorkerSteps : Goto(w, step) \/ Leave(w, step)
    BY <1>4 DEF ClaimRecord, Return, WorkerSteps
  <2>2. \E answer : Update(j, {"pending", "running"}, "running", errorCode[j], answer)
    BY <1>4 DEF ClaimRecord, MarkRunning
  <2>3. errorCode[j] \in ErrorCodes /\ "running" \in Statuses
    BY <1>0 DEF Statuses
  <2> QED
    BY <1>1, <1>2, <1>4, <2>1, <2>2, <2>3 DEF ClaimRecord
<1>5. CASE Infer(w)
  <2>1. \E step \in WorkerSteps : Goto(w, step) \/ Leave(w, step)
    BY <1>5 DEF Infer, Return, WorkerSteps
  <2> QED
    BY <1>1, <1>5, <2>1 DEF Infer
<1>6. CASE RecordFailure(w)
  <2>1. \E step \in WorkerSteps : Goto(w, step) \/ Leave(w, step)
    BY <1>6 DEF RecordFailure, Return, WorkerSteps
  <2>2. \E answer : Update(j, {"pending", "running"}, "failed", "inference_failed", answer)
    BY <1>6 DEF RecordFailure, MarkFailed
  <2> QED
    BY <1>1, <1>2, <1>6, <2>1, <2>2 DEF RecordFailure, Statuses, ErrorCodes
<1>7. CASE RecordSuccess(w)
  <2>1. \E step \in WorkerSteps : Goto(w, step) \/ Leave(w, step)
    BY <1>7 DEF RecordSuccess, Return, WorkerSteps
  <2>2. \E answer : Update(j, {"running"}, "succeeded", errorCode[j], answer)
    BY <1>7 DEF RecordSuccess, MarkSucceeded
  <2>3. errorCode[j] \in ErrorCodes /\ "succeeded" \in Statuses
    BY <1>0 DEF Statuses
  <2> QED
    BY <1>1, <1>2, <1>7, <2>1, <2>2, <2>3 DEF RecordSuccess
<1>8. CASE Acknowledge(w)
  <2>1. \E step \in WorkerSteps : Goto(w, step) \/ Leave(w, step)
    BY <1>8 DEF Acknowledge, Return, WorkerSteps
  <2>2. place' \in [Messages -> Places] /\ faults' \in 0..MaxFaults
    BY <1>8 DEF Acknowledge, Places, Fault, NoFault
  <2> QED
    BY <1>1, <1>8, <2>1, <2>2 DEF Acknowledge
<1> QED
  BY <1>3, <1>4, <1>5, <1>6, <1>7, <1>8 DEF Process

LEMMA WorkerType ==
    ASSUME TypeOK, NEW w \in Workers, Terminate(w) \/ Restart(w)
    PROVE  TypeOK'
BY DEF TypeOK, Terminate, Restart, Return, Leave, Fault, recordVars, queueVars, WorkerSteps

LEMMA TypeStep == TypeOK /\ HoldsTask /\ [Next]_vars => TypeOK'
<1> SUFFICES ASSUME TypeOK, HoldsTask, [Next]_vars PROVE TypeOK'
  OBVIOUS
<1>1. CASE UNCHANGED vars
  BY <1>1 DEF TypeOK, vars, recordVars, queueVars, workerVars
<1>2. CASE \E j \in Jobs : Expire(j)
  BY <1>2 DEF TypeOK, Expire, queueVars, workerVars
<1>3. CASE \E w \in Workers : ReceiveNothing(w)
  BY <1>1, <1>3 DEF ReceiveNothing
<1> QED
  BY <1>1, <1>2, <1>3, SubmitType, QueueType, TakeType, ProcessType, WorkerType
     DEF Next, Take

-------------------------------------------------------------------------------
(***************************************************************************)
(* The inductive invariant.  Beside the properties themselves it says what *)
(* a worker knows at each of its steps, and that a record exists as soon   *)
(* as submit is past create.                                               *)
(***************************************************************************)

\* A worker about to acknowledge has seen, or written, the success.
AckReady ==
    \A w \in Workers : pc[w] = "delete" => status[JobOf(held[w])] = "succeeded"

\* The receive count a worker was given is not above the message's, unless a
\* redrive has started the count again; mark_failed is the last delivery's.
CountedReceives ==
    \A w \in Workers :
        /\ pc[w] \notin {"poll", "down"} =>
               \/ heldCount[w] <= count[held[w]]
               \/ redrives[held[w]] > 0
        /\ pc[w] = "mark_failed" => heldCount[w] >= MaxReceiveCount

RecordShape ==
    \A j \in Jobs :
        /\ stored[j] => status[j] # "absent"
        /\ api[j] = "idle" => status[j] = "absent"
        /\ api[j] \in {"publish", "cleanup"} => status[j] # "absent"
        /\ api[j] = "accepted" => status[j] # "absent" /\ Sent(j)

\* A message is of a job whose record was created.
SentIsCreated ==
    \A m \in Messages :
        JobOf(m) \in Jobs /\ (place[m] # "none" \/ count[m] > 0)
            => status[JobOf(m)] # "absent"

IInv ==
    /\ TypeOK
    /\ HoldsTask
    /\ AckReady
    /\ CountedReceives
    /\ RecordShape
    /\ SentIsCreated
    /\ AckOnlyAfterSuccess
    /\ InferenceImpliesClaimed
    /\ FailedOnlyWhenExhausted
    /\ ExhaustedIsSettled

LEMMA InitIInv == Init => IInv
<1> SUFFICES ASSUME Init PROVE IInv
  OBVIOUS
<1>1. TypeOK
  BY InitType
<1>2. HoldsTask /\ AckReady /\ CountedReceives /\ InferenceImpliesClaimed
  BY DEF Init, HoldsTask, AckReady, CountedReceives, InferenceImpliesClaimed
<1>3. RecordShape /\ SentIsCreated
  BY DurableJobsAssumption DEF Init, RecordShape, SentIsCreated
<1>4. AckOnlyAfterSuccess
  BY DEF Init, AckOnlyAfterSuccess
<1>5. FailedOnlyWhenExhausted
  BY DEF Init, FailedOnlyWhenExhausted
<1>6. ExhaustedIsSettled
  BY DEF Init, ExhaustedIsSettled
<1> QED
  BY <1>1, <1>2, <1>3, <1>4, <1>5, <1>6 DEF IInv

(***************************************************************************)
(* What one step may do to a record, a message and a worker.  Every part   *)
(* of the invariant, and the refinement, follows from these three facts.   *)
(***************************************************************************)

\* A record moves along the lifecycle or stays; only the last delivery of a
\* message makes an inference failure final.
StatusMoves(j) ==
    /\ \/ status'[j] = status[j]
       \/ status[j] = "absent" /\ status'[j] = "pending" /\ api'[j] # "idle"
       \/ status[j] = "pending" /\ status'[j] \in {"running", "failed"}
       \/ status[j] = "running" /\ status'[j] \in {"succeeded", "failed"}
    /\ \/ errorCode'[j] = errorCode[j]
       \/ errorCode'[j] # "inference_failed"
       \/ \E w \in Workers : pc[w] = "mark_failed" /\ JobOf(held[w]) = j
    /\ stored'[j] => stored[j] \/ (status[j] = "absent" /\ status'[j] = "pending")

LEMMA UpdateMoves ==
    ASSUME IInv, NEW k \in Jobs, NEW j \in Jobs, NEW from, NEW to, NEW code, NEW answer,
           Update(k, from, to, code, answer)
    PROVE  /\ \/ status'[j] = status[j]
              \/ j = k /\ status[j] \in from /\ status'[j] = to
           /\ \/ errorCode'[j] = errorCode[j]
              \/ j = k /\ errorCode'[j] = code
           /\ stored'[j] = stored[j]
BY DEF Update, IInv, TypeOK

LEMMA StatusStep ==
    ASSUME IInv, [Next]_vars, NEW j \in Jobs
    PROVE  StatusMoves(j)
<1> USE DEF StatusMoves
<1>1. CASE UNCHANGED recordVars
  BY <1>1 DEF recordVars
<1>2. ASSUME NEW k \in Jobs, CreateRecord(k) PROVE StatusMoves(j)
  BY <1>2 DEF CreateRecord, IInv, TypeOK, RecordShape
<1>3. ASSUME NEW k \in Jobs, Cleanup(k) PROVE StatusMoves(j)
  <2>1. PICK answer : Update(k, {"pending", "running"}, "failed", "enqueue_failed", answer)
    BY <1>3 DEF Cleanup, MarkFailed
  <2> QED
    BY <2>1, UpdateMoves
<1>4. ASSUME NEW w \in Workers, ClaimRecord(w) PROVE StatusMoves(j)
  <2>1. PICK answer : Update(JobOf(held[w]), {"pending", "running"}, "running",
                             errorCode[JobOf(held[w])], answer)
    BY <1>4 DEF ClaimRecord, MarkRunning
  <2>2. JobOf(held[w]) \in Jobs
    BY <1>4 DEF ClaimRecord, IInv, HoldsTask
  <2> QED
    BY <2>1, <2>2, UpdateMoves
<1>5. ASSUME NEW w \in Workers, RecordFailure(w) PROVE StatusMoves(j)
  <2>1. PICK answer : Update(JobOf(held[w]), {"pending", "running"}, "failed",
                             "inference_failed", answer)
    BY <1>5 DEF RecordFailure, MarkFailed
  <2>2. JobOf(held[w]) \in Jobs /\ pc[w] = "mark_failed"
    BY <1>5 DEF RecordFailure, IInv, HoldsTask
  <2> QED
    BY <2>1, <2>2, UpdateMoves
<1>6. ASSUME NEW w \in Workers, RecordSuccess(w) PROVE StatusMoves(j)
  <2>1. PICK answer : Update(JobOf(held[w]), {"running"}, "succeeded",
                             errorCode[JobOf(held[w])], answer)
    BY <1>6 DEF RecordSuccess, MarkSucceeded
  <2>2. JobOf(held[w]) \in Jobs
    BY <1>6 DEF RecordSuccess, IInv, HoldsTask
  <2> QED
    BY <2>1, <2>2, UpdateMoves
<1>7. ASSUME NEW k \in Jobs, Submit(k) PROVE StatusMoves(j)
  BY <1>1, <1>2, <1>3, <1>7
     DEF Submit, CreateFails, PublishRejected, Publish, PublishRetried, PublishFails, ApiCrash
<1>8. ASSUME NEW m \in Messages, QueueStep(m) PROVE StatusMoves(j)
  BY <1>1, <1>8 DEF QueueStep, VisibilityTimeout, DeadLetter, Redrive
<1>9. ASSUME NEW w \in Workers, Process(w) PROVE StatusMoves(j)
  BY <1>1, <1>4, <1>5, <1>6, <1>9 DEF Process, GetRecord, Infer, Acknowledge
<1>10. ASSUME NEW w \in Workers, NEW m \in Messages,
              Receive(w, m) \/ ReceiveMalformed(w, m) \/ ReceiveLost(w, m)
       PROVE  StatusMoves(j)
  BY <1>1, <1>10 DEF Receive, ReceiveMalformed, ReceiveLost
<1>11. CASE \E k \in Jobs : Expire(k)
  BY <1>11 DEF Expire, IInv, TypeOK
<1>12. CASE \E w \in Workers : Terminate(w) \/ Restart(w)
  BY <1>1, <1>12 DEF Terminate, Restart
<1>13. CASE UNCHANGED vars \/ \E w \in Workers : ReceiveNothing(w)
  BY <1>1, <1>13 DEF ReceiveNothing, vars
<1> QED
  BY <1>7, <1>8, <1>9, <1>10, <1>11, <1>12, <1>13 DEF Next, Take

\* A message moves from queue to queue and is deleted only by a worker at its
\* acknowledgement; counts grow until a redrive.
MessageMoves(m) ==
    /\ \/ place'[m] = place[m]
       \/ place[m] = "none" /\ place'[m] = "queue" /\ status[JobOf(m)] # "absent"
       \/ place[m] = "queue" /\ place'[m] = "dlq"
       \/ place[m] = "dlq" /\ place'[m] = "queue"
       \/ /\ place[m] = "queue" /\ place'[m] = "deleted"
          /\ \E w \in Workers : pc[w] = "delete" /\ held[w] = m
    /\ redrives'[m] >= redrives[m]
    /\ count'[m] >= count[m] \/ redrives'[m] > 0
    /\ count'[m] > count[m] => place[m] = "queue"

LEMMA MessageStep ==
    ASSUME IInv, [Next]_vars, NEW m \in Messages
    PROVE  MessageMoves(m)
<1> USE DEF MessageMoves
<1>0. /\ place \in [Messages -> Places]
      /\ count \in [Messages -> Nat]
      /\ redrives \in [Messages -> Nat]
  BY DEF IInv, TypeOK
<1>1. CASE UNCHANGED queueVars \/ UNCHANGED <<place, count, holder, redrives>>
  BY <1>0, <1>1 DEF queueVars
<1>2. ASSUME NEW n \in Messages, Send(n), status[JobOf(n)] # "absent" PROVE MessageMoves(m)
  BY <1>0, <1>2 DEF Send
<1>3. ASSUME NEW n \in Messages, NEW r, Deliver(n, r) PROVE MessageMoves(m)
  BY <1>0, <1>3 DEF Deliver
<1>4. ASSUME NEW n \in Messages, QueueStep(n) PROVE MessageMoves(m)
  BY <1>0, <1>1, <1>4 DEF QueueStep, VisibilityTimeout, DeadLetter, Redrive
<1>5. ASSUME NEW j \in Jobs, Submit(j) PROVE MessageMoves(m)
  <2>1. UNCHANGED queueVars \/ (status[j] # "absent" /\ \E c \in Copies : Send(<<j, c>>))
    BY <1>5 DEF Submit, CreateRecord, CreateFails, PublishRejected, Publish, PublishRetried,
                PublishFails, Cleanup, ApiCrash, IInv, RecordShape
  <2> QED
    BY <1>1, <1>2, <2>1, MessageFacts
<1>6. ASSUME NEW w \in Workers, NEW n \in Messages,
             Receive(w, n) \/ ReceiveMalformed(w, n) \/ ReceiveLost(w, n)
      PROVE  MessageMoves(m)
  BY <1>3, <1>6 DEF Receive, ReceiveMalformed, ReceiveLost
<1>7. ASSUME NEW w \in Workers, Process(w) PROVE MessageMoves(m)
  <2>1. CASE Acknowledge(w)
    BY <1>0, <2>1 DEF Acknowledge
  <2> QED
    BY <1>1, <1>7, <2>1 DEF Process, GetRecord, ClaimRecord, Infer, RecordFailure, RecordSuccess
<1>8. CASE \E j \in Jobs : Expire(j)
  BY <1>1, <1>8 DEF Expire
<1>9. CASE \E w \in Workers : Terminate(w) \/ Restart(w)
  BY <1>1, <1>9 DEF Terminate, Restart
<1>10. CASE UNCHANGED vars \/ \E w \in Workers : ReceiveNothing(w)
  BY <1>1, <1>10 DEF ReceiveNothing, vars
<1> QED
  BY <1>4, <1>5, <1>6, <1>7, <1>8, <1>9, <1>10 DEF Next, Take

\* A worker stays, leaves its task, takes a new one, or goes on with its task
\* knowing what its last call told it.
WorkerMoves(w) ==
    \/ pc'[w] = pc[w] /\ held'[w] = held[w] /\ heldCount'[w] = heldCount[w]
    \/ pc'[w] \in {"poll", "down"}
    \/ /\ pc'[w] = "get"
       /\ held'[w] \in Messages
       /\ JobOf(held'[w]) \in Jobs
       /\ place[held'[w]] = "queue"
       /\ heldCount'[w] <= count'[held'[w]]
    \/ /\ pc[w] \notin {"poll", "down"}
       /\ held'[w] = held[w]
       /\ heldCount'[w] = heldCount[w]
       /\ \/ pc'[w] = "mark_running"
          \/ pc'[w] = "infer" /\ status'[JobOf(held[w])] = "running"
          \/ pc'[w] = "mark_succeeded" /\ pc[w] = "infer"
          \/ pc'[w] = "mark_failed" /\ pc[w] = "infer" /\ heldCount[w] >= MaxReceiveCount
          \/ pc'[w] = "delete" /\ status'[JobOf(held[w])] = "succeeded"

LEMMA WorkerStep ==
    ASSUME IInv, [Next]_vars, NEW w \in Workers
    PROVE  WorkerMoves(w)
<1> USE DEF WorkerMoves
<1>0. /\ pc \in [Workers -> WorkerSteps]
      /\ held \in [Workers -> Messages \cup {None}]
      /\ heldCount \in [Workers -> 0..MaxReceiveCount]
      /\ count \in [Messages -> 0..MaxReceiveCount]
      /\ status \in [Jobs -> Statuses]
  BY DEF IInv, TypeOK
<1>1. CASE UNCHANGED workerVars
  BY <1>1 DEF workerVars
<1>2. ASSUME NEW v \in Workers, NEW m \in Messages, Receive(v, m)
      PROVE  WorkerMoves(w)
  <2>1. place[m] = "queue" /\ count'[m] = count[m] + 1 /\ JobOf(m) \in Jobs
    BY <1>0, <1>2 DEF Receive, Deliver
  <2>2. CASE w = v
    BY <1>0, <1>2, <2>1, <2>2 DEF Receive
  <2>3. CASE w # v
    BY <1>0, <1>2, <2>3 DEF Receive
  <2> QED
    BY <2>2, <2>3
<1>3. ASSUME NEW v \in Workers, NEW step \in {"poll", "down"}, Leave(v, step)
      PROVE  WorkerMoves(w)
  <2>1. CASE w = v
    BY <1>0, <1>3, <2>1 DEF Leave
  <2>2. CASE w # v
    BY <1>0, <1>3, <2>2 DEF Leave
  <2> QED
    BY <2>1, <2>2
<1>4. ASSUME NEW v \in Workers, NEW step, Goto(v, step), w # v
      PROVE  WorkerMoves(w)
  BY <1>0, <1>4 DEF Goto
<1>5. ASSUME NEW step, Goto(w, step)
      PROVE  pc'[w] = step /\ held'[w] = held[w] /\ heldCount'[w] = heldCount[w]
  BY <1>0, <1>5 DEF Goto
<1>6. ASSUME NEW v \in Workers, GetRecord(v) PROVE WorkerMoves(w)
  <2>1. CASE Leave(v, "poll")
    BY <1>3, <2>1
  <2>2. CASE ~Leave(v, "poll")
    <3>1. /\ pc[v] = "get"
          /\ UNCHANGED status
          /\ \/ status[JobOf(held[v])] = "succeeded" /\ Goto(v, "delete")
             \/ Goto(v, "mark_running")
      BY <1>6, <2>2 DEF GetRecord, Return, recordVars
    <3> QED
      BY <1>4, <1>5, <3>1
  <2> QED
    BY <2>1, <2>2
<1>7. ASSUME NEW v \in Workers, ClaimRecord(v) PROVE WorkerMoves(w)
  <2>1. CASE Leave(v, "poll")
    BY <1>3, <2>1
  <2>2. CASE ~Leave(v, "poll")
    <3>1. pc[v] = "mark_running" /\ MarkRunning(JobOf(held[v]), "ok") /\ Goto(v, "infer")
      BY <1>7, <2>2 DEF ClaimRecord, Return
    <3>2. JobOf(held[v]) \in Jobs
      BY <3>1 DEF IInv, HoldsTask
    <3>3. status'[JobOf(held[v])] = "running"
      BY <1>0, <3>1, <3>2 DEF MarkRunning, Update
    <3> QED
      BY <1>4, <1>5, <3>1, <3>3
  <2> QED
    BY <2>1, <2>2
<1>8. ASSUME NEW v \in Workers, Infer(v) PROVE WorkerMoves(w)
  <2>1. CASE Leave(v, "poll")
    BY <1>3, <2>1
  <2>2. CASE ~Leave(v, "poll")
    <3>1. /\ pc[v] = "infer"
          /\ \/ Goto(v, "mark_succeeded")
             \/ heldCount[v] >= MaxReceiveCount /\ Goto(v, "mark_failed")
      BY <1>8, <2>2 DEF Infer, Return
    <3> QED
      BY <1>4, <1>5, <3>1
  <2> QED
    BY <2>1, <2>2
<1>9. ASSUME NEW v \in Workers, RecordSuccess(v) PROVE WorkerMoves(w)
  <2>1. CASE Leave(v, "poll")
    BY <1>3, <2>1
  <2>2. CASE ~Leave(v, "poll")
    <3>1. pc[v] = "mark_succeeded" /\ MarkSucceeded(JobOf(held[v]), "ok") /\ Goto(v, "delete")
      BY <1>9, <2>2 DEF RecordSuccess, Return
    <3>2. JobOf(held[v]) \in Jobs
      BY <3>1 DEF IInv, HoldsTask
    <3>3. status'[JobOf(held[v])] = "succeeded"
      BY <1>0, <3>1, <3>2 DEF MarkSucceeded, Update
    <3> QED
      BY <1>4, <1>5, <3>1, <3>3
  <2> QED
    BY <2>1, <2>2
<1>10. ASSUME NEW v \in Workers, Process(v) PROVE WorkerMoves(w)
  BY <1>3, <1>6, <1>7, <1>8, <1>9, <1>10 DEF Process, RecordFailure, Acknowledge, Return
<1>11. ASSUME NEW v \in Workers, NEW m \in Messages,
              Receive(v, m) \/ ReceiveMalformed(v, m) \/ ReceiveLost(v, m)
       PROVE  WorkerMoves(w)
  BY <1>1, <1>2, <1>11 DEF ReceiveMalformed, ReceiveLost
<1>12. ASSUME NEW v \in Workers, Terminate(v) \/ Restart(v) PROVE WorkerMoves(w)
  BY <1>3, <1>12 DEF Terminate, Restart, Return
<1>13. ASSUME NEW j \in Jobs, Submit(j) \/ Expire(j) PROVE WorkerMoves(w)
  BY <1>1, <1>13 DEF Submit, CreateRecord, CreateFails, PublishRejected, Publish,
                     PublishRetried, PublishFails, Cleanup, ApiCrash, Expire
<1>14. ASSUME NEW m \in Messages, QueueStep(m) PROVE WorkerMoves(w)
  BY <1>1, <1>14 DEF QueueStep, VisibilityTimeout, DeadLetter, Redrive
<1>15. CASE UNCHANGED vars \/ \E v \in Workers : ReceiveNothing(v)
  BY <1>1, <1>15 DEF ReceiveNothing, vars
<1> QED
  BY <1>10, <1>11, <1>12, <1>13, <1>14, <1>15 DEF Next, Take

(***************************************************************************)
(* The invariant is preserved, one conjunct at a time.                     *)
(***************************************************************************)

LEMMA RecordShapeStep ==
    ASSUME IInv, [Next]_vars
    PROVE  RecordShape'
<1> SUFFICES ASSUME NEW j \in Jobs
             PROVE  /\ stored'[j] => status'[j] # "absent"
                    /\ api'[j] = "idle" => status'[j] = "absent"
                    /\ api'[j] \in {"publish", "cleanup"} => status'[j] # "absent"
                    /\ api'[j] = "accepted" => status'[j] # "absent" /\ Sent(j)'
  BY DEF RecordShape
<1>0. /\ status \in [Jobs -> Statuses]
      /\ stored \in [Jobs -> BOOLEAN]
      /\ api \in [Jobs -> ApiStates]
      /\ place \in [Messages -> Places]
  BY DEF IInv, TypeOK
<1>1. status[j] # "absent" => status'[j] # "absent"
  BY StatusStep DEF StatusMoves
<1>2. Sent(j) => Sent(j)'
  BY MessageStep, MessageFacts DEF Sent, MessageMoves
<1>3. /\ stored[j] => status[j] # "absent"
      /\ api[j] = "idle" => status[j] = "absent"
      /\ api[j] \in {"publish", "cleanup"} => status[j] # "absent"
      /\ api[j] = "accepted" => status[j] # "absent" /\ Sent(j)
  BY DEF IInv, RecordShape
<1>4. \/ api'[j] = api[j]
      \/ api[j] \in {"publish", "cleanup"} /\ api'[j] \notin {"idle", "accepted"}
      \/ api'[j] = "raised"
      \/ api'[j] = "publish" /\ status'[j] = "pending"
      \/ api[j] = "publish" /\ api'[j] = "accepted" /\ Sent(j)'
  <2>1. CASE UNCHANGED api
    BY <2>1
  <2>2. ASSUME NEW k \in Jobs, Submit(k)
        PROVE  \/ api'[j] = api[j]
               \/ api[j] \in {"publish", "cleanup"} /\ api'[j] \notin {"idle", "accepted"}
               \/ api'[j] = "raised"
               \/ api'[j] = "publish" /\ status'[j] = "pending"
               \/ api[j] = "publish" /\ api'[j] = "accepted" /\ Sent(j)'
    <3>1. CASE Publish(k)
      <4>1. PICK c \in Copies : Send(<<k, c>>)
        BY <3>1 DEF Publish
      <4>2. place'[<<k, c>>] = "queue"
        BY <1>0, <4>1, MessageFacts DEF Send
      <4> QED
        BY <1>0, <3>1, <4>2 DEF Publish, Sent
    <3>2. CASE CreateRecord(k)
      BY <1>0, <3>2 DEF CreateRecord
    <3> QED
      BY <1>0, <2>2, <3>1, <3>2
         DEF Submit, CreateFails, PublishRejected, PublishRetried, PublishFails, Cleanup, ApiCrash
  <2>3. UNCHANGED api \/ \E k \in Jobs : Submit(k)
    BY DEF Next, QueueStep, VisibilityTimeout, DeadLetter, Redrive, Take, Receive,
           ReceiveMalformed, ReceiveLost, ReceiveNothing, Process, GetRecord, ClaimRecord,
           Infer, RecordFailure, RecordSuccess, Acknowledge, Terminate, Restart, Expire, vars
  <2> QED
    BY <2>1, <2>2, <2>3
<1> QED
  BY <1>1, <1>2, <1>3, <1>4, StatusStep DEF StatusMoves

LEMMA SentIsCreatedStep ==
    ASSUME IInv, [Next]_vars
    PROVE  SentIsCreated'
<1> SUFFICES ASSUME NEW m \in Messages, JobOf(m) \in Jobs, place'[m] # "none" \/ count'[m] > 0
             PROVE  status'[JobOf(m)] # "absent"
  BY DEF SentIsCreated
<1>1. MessageMoves(m) /\ StatusMoves(JobOf(m))
  BY MessageStep, StatusStep
<1>2. count[m] \in Nat /\ count'[m] \in Nat
  BY TypeStep DEF IInv, TypeOK
<1>3. status[JobOf(m)] # "absent"
  BY <1>1, <1>2 DEF MessageMoves, IInv, SentIsCreated
<1> QED
  BY <1>1, <1>3 DEF StatusMoves

LEMMA HoldsTaskStep ==
    ASSUME IInv, [Next]_vars
    PROVE  HoldsTask'
<1> SUFFICES ASSUME NEW w \in Workers, pc'[w] \notin {"poll", "down"}
             PROVE  /\ held'[w] \in Messages
                    /\ JobOf(held'[w]) \in Jobs
                    /\ place'[held'[w]] # "none"
  BY DEF HoldsTask
<1>1. \A m \in Messages : place[m] # "none" => place'[m] # "none"
  BY MessageStep DEF MessageMoves
<1> QED
  BY <1>1, WorkerStep DEF WorkerMoves, IInv, HoldsTask

LEMMA AckReadyStep ==
    ASSUME IInv, [Next]_vars
    PROVE  AckReady'
<1> SUFFICES ASSUME NEW w \in Workers, pc'[w] = "delete"
             PROVE  status'[JobOf(held'[w])] = "succeeded"
  BY DEF AckReady
<1>1. \A j \in Jobs : status[j] = "succeeded" => status'[j] = "succeeded"
  BY StatusStep DEF StatusMoves
<1> QED
  BY <1>1, WorkerStep DEF WorkerMoves, IInv, HoldsTask, AckReady

LEMMA AckOnlyAfterSuccessStep ==
    ASSUME IInv, [Next]_vars
    PROVE  AckOnlyAfterSuccess'
<1> SUFFICES ASSUME NEW m \in Messages, place'[m] = "deleted"
             PROVE  JobOf(m) \in Jobs /\ status'[JobOf(m)] = "succeeded"
  BY DEF AckOnlyAfterSuccess
<1>1. JobOf(m) \in Jobs /\ status[JobOf(m)] = "succeeded"
  <2>1. CASE place[m] = "deleted"
    BY <2>1 DEF IInv, AckOnlyAfterSuccess
  <2>2. CASE \E w \in Workers : pc[w] = "delete" /\ held[w] = m
    BY <2>2 DEF IInv, HoldsTask, AckReady
  <2> QED
    BY <2>1, <2>2, MessageStep DEF MessageMoves
<1> QED
  BY <1>1, StatusStep DEF StatusMoves

LEMMA InferenceImpliesClaimedStep ==
    ASSUME IInv, [Next]_vars
    PROVE  InferenceImpliesClaimed'
<1> SUFFICES ASSUME NEW w \in Workers, pc'[w] \in {"infer", "mark_failed", "mark_succeeded"}
             PROVE  status'[JobOf(held'[w])] \notin {"absent", "pending"}
  BY DEF InferenceImpliesClaimed
<1>1. \A j \in Jobs : status[j] \notin {"absent", "pending"}
                         => status'[j] \notin {"absent", "pending"}
  BY StatusStep DEF StatusMoves
<1> QED
  BY <1>1, WorkerStep DEF WorkerMoves, IInv, HoldsTask, InferenceImpliesClaimed

LEMMA CountedReceivesStep ==
    ASSUME IInv, [Next]_vars
    PROVE  CountedReceives'
<1> SUFFICES ASSUME NEW w \in Workers
             PROVE  /\ pc'[w] \notin {"poll", "down"} =>
                           \/ heldCount'[w] <= count'[held'[w]]
                           \/ redrives'[held'[w]] > 0
                    /\ pc'[w] = "mark_failed" => heldCount'[w] >= MaxReceiveCount
  BY DEF CountedReceives
<1>1. \A m \in Messages : /\ redrives'[m] >= redrives[m]
                          /\ count'[m] >= count[m] \/ redrives'[m] > 0
  BY MessageStep DEF MessageMoves
<1>2. TypeOK /\ TypeOK'
  BY TypeStep DEF IInv
<1>3. pc[w] \notin {"poll", "down"} =>
         /\ held[w] \in Messages
         /\ heldCount[w] <= count'[held[w]] \/ redrives'[held[w]] > 0
  BY <1>1, <1>2 DEF TypeOK, IInv, HoldsTask, CountedReceives
<1> QED
  BY <1>3, WorkerStep DEF WorkerMoves, IInv, CountedReceives

LEMMA FailedOnlyWhenExhaustedStep ==
    ASSUME IInv, [Next]_vars
    PROVE  FailedOnlyWhenExhausted'
<1> SUFFICES ASSUME NEW j \in Jobs, errorCode'[j] = "inference_failed"
             PROVE  \E c \in Copies : \/ count'[<<j, c>>] >= MaxReceiveCount
                                      \/ redrives'[<<j, c>>] > 0
  BY DEF FailedOnlyWhenExhausted
<1>0. TypeOK /\ TypeOK'
  BY TypeStep DEF IInv
<1>1. \E c \in Copies : count[<<j, c>>] >= MaxReceiveCount \/ redrives[<<j, c>>] > 0
  <2>1. CASE errorCode[j] = "inference_failed"
    BY <2>1 DEF IInv, FailedOnlyWhenExhausted
  <2>2. CASE \E w \in Workers : pc[w] = "mark_failed" /\ JobOf(held[w]) = j
    <3>1. PICK w \in Workers : pc[w] = "mark_failed" /\ JobOf(held[w]) = j
      BY <2>2
    <3>2. PICK c \in Copies : held[w] = <<j, c>>
      BY <3>1, MessageFacts DEF IInv, HoldsTask
    <3>3. /\ heldCount[w] <= count[held[w]] \/ redrives[held[w]] > 0
          /\ heldCount[w] >= MaxReceiveCount
      BY <3>1 DEF IInv, CountedReceives
    <3>4. heldCount[w] \in Nat /\ count[<<j, c>>] \in Nat
      BY <1>0, <3>2, MessageFacts DEF TypeOK
    <3> QED
      BY <3>2, <3>3, <3>4
  <2> QED
    BY <2>1, <2>2, StatusStep DEF StatusMoves
<1>2. PICK c \in Copies : count[<<j, c>>] >= MaxReceiveCount \/ redrives[<<j, c>>] > 0
  BY <1>1
<1>3. <<j, c>> \in Messages
  BY MessageFacts
<1>4. /\ redrives'[<<j, c>>] >= redrives[<<j, c>>]
      /\ count'[<<j, c>>] >= count[<<j, c>>] \/ redrives'[<<j, c>>] > 0
  BY <1>3, MessageStep DEF MessageMoves
<1> QED
  BY <1>0, <1>2, <1>3, <1>4 DEF TypeOK

\* Without a fault a worker with a task lets it go only when the job is settled, the
\* record has expired, or this was not the last delivery.
LEMMA TaskGoesOn ==
    ASSUME IInv, [Next]_vars, faults' = faults,
           NEW w \in Workers, pc[w] \notin {"poll", "down"}, heldCount[w] >= MaxReceiveCount
    PROVE  \/ /\ pc'[w] \notin {"poll", "down"}
              /\ held'[w] = held[w]
              /\ heldCount'[w] = heldCount[w]
           \/ status'[JobOf(held[w])] \in Terminal
           \/ ~stored'[JobOf(held[w])]
<1> DEFINE j == JobOf(held[w])
           Settled == status'[j] \in Terminal \/ ~stored'[j]
           Stays == pc'[w] \notin {"poll", "down"} /\ held'[w] = held[w]
                    /\ heldCount'[w] = heldCount[w]
<1> SUFFICES Stays \/ Settled
  OBVIOUS
<1>0. /\ pc \in [Workers -> WorkerSteps]
      /\ held \in [Workers -> Messages \cup {None}]
      /\ heldCount \in [Workers -> 0..MaxReceiveCount]
      /\ status \in [Jobs -> Statuses]
      /\ stored \in [Jobs -> BOOLEAN]
      /\ faults \in Nat
      /\ j \in Jobs
  BY DEF IInv, TypeOK, HoldsTask
<1>1. CASE UNCHANGED workerVars
  BY <1>1 DEF workerVars
<1>2. ASSUME NEW v \in Workers, v # w,
             Goto(v, pc'[v]) \/ Leave(v, pc'[v]) \/ \E m \in Messages : Receive(v, m)
      PROVE  Stays
  BY <1>0, <1>2 DEF Goto, Leave, Receive
<1>3. ASSUME NEW step \in {"mark_running", "infer", "mark_failed", "mark_succeeded", "delete"},
             Goto(w, step)
      PROVE  Stays
  BY <1>0, <1>3 DEF Goto
<1>4. ASSUME NEW from, NEW to, NEW code, Update(j, from, to, code, "error")
      PROVE  ~(stored[j] /\ status[j] \in from) /\ UNCHANGED <<status, stored>>
  BY <1>0, <1>4 DEF Update, Fault
<1>5. CASE GetRecord(w)
  <2>1. UNCHANGED <<status, stored>>
    BY <1>5 DEF GetRecord, recordVars
  <2>2. \/ ~stored[j] \/ status[j] = "failed"
        \/ Goto(w, "delete") \/ Goto(w, "mark_running")
    BY <1>0, <1>5 DEF GetRecord, Fault
  <2> QED
    BY <1>3, <2>1, <2>2 DEF Terminal
<1>6. CASE ClaimRecord(w)
  <2>1. CASE Goto(w, "infer")
    BY <1>3, <2>1
  <2>2. CASE MarkRunning(j, "error")
    <3>1. ~(stored[j] /\ status[j] \in {"pending", "running"}) /\ UNCHANGED <<status, stored>>
      BY <1>4, <2>2 DEF MarkRunning
    <3>2. stored[j] => status[j] # "absent"
      BY <1>0 DEF IInv, RecordShape
    <3> QED
      BY <1>0, <3>1, <3>2 DEF Statuses, Terminal
  <2> QED
    BY <1>6, <2>1, <2>2 DEF ClaimRecord
<1>7. CASE Infer(w)
  <2>1. Goto(w, "mark_succeeded") \/ Goto(w, "mark_failed")
    BY <1>0, <1>7 DEF Infer
  <2> QED
    BY <1>3, <2>1
<1>8. CASE RecordFailure(w)
  <2>1. status[j] \notin {"absent", "pending"}
    BY <1>8 DEF RecordFailure, IInv, InferenceImpliesClaimed
  <2>2. CASE MarkFailed(j, "inference_failed", "ok")
    BY <1>0, <2>2 DEF MarkFailed, Update, Terminal
  <2>3. CASE MarkFailed(j, "inference_failed", "error")
    <3>1. ~(stored[j] /\ status[j] \in {"pending", "running"}) /\ UNCHANGED <<status, stored>>
      BY <1>4, <2>3 DEF MarkFailed
    <3> QED
      BY <1>0, <2>1, <3>1 DEF Statuses, Terminal
  <2> QED
    BY <1>8, <2>2, <2>3 DEF RecordFailure
<1>9. CASE RecordSuccess(w)
  <2>1. status[j] \notin {"absent", "pending"}
    BY <1>9 DEF RecordSuccess, IInv, InferenceImpliesClaimed
  <2>2. CASE Goto(w, "delete")
    BY <1>3, <2>2
  <2>3. CASE MarkSucceeded(j, "error")
    <3>1. ~(stored[j] /\ status[j] \in {"running"}) /\ UNCHANGED <<status, stored>>
      BY <1>4, <2>3 DEF MarkSucceeded
    <3> QED
      BY <1>0, <2>1, <3>1 DEF Statuses, Terminal
  <2> QED
    BY <1>9, <2>2, <2>3 DEF RecordSuccess
<1>10. CASE Acknowledge(w)
  <2>1. status[j] = "succeeded"
    BY <1>10 DEF Acknowledge, IInv, AckReady
  <2> QED
    BY <1>10, <2>1 DEF Acknowledge, recordVars, Terminal
<1>11. CASE \E v \in Workers : v # w /\ Process(v)
  <2>1. PICK v \in Workers : v # w /\ Process(v)
    BY <1>11
  <2>2. Goto(v, pc'[v]) \/ Leave(v, pc'[v])
    BY <1>0, <2>1 DEF Process, GetRecord, ClaimRecord, Infer, RecordFailure, RecordSuccess,
                      Acknowledge, Return, Goto, Leave
  <2> QED
    BY <1>2, <2>1, <2>2
<1>12. ASSUME NEW v \in Workers, NEW m \in Messages,
              Receive(v, m) \/ ReceiveMalformed(v, m) \/ ReceiveLost(v, m)
       PROVE  Stays \/ Settled
  <2>1. CASE Receive(v, m)
    <3>1. v # w
      BY <2>1 DEF Receive
    <3> QED
      BY <1>2, <2>1, <3>1
  <2> QED
    BY <1>1, <1>12, <2>1 DEF ReceiveMalformed, ReceiveLost
<1>13. CASE \E v \in Workers : Terminate(v)
  BY <1>0, <1>13 DEF Terminate, Fault
<1>14. CASE \E v \in Workers : Restart(v)
  <2>1. PICK v \in Workers : v # w /\ Leave(v, "poll")
    BY <1>14 DEF Restart, Return
  <2> QED
    BY <1>0, <2>1 DEF Leave
<1>15. ASSUME NEW k \in Jobs, Submit(k) \/ Expire(k) PROVE UNCHANGED workerVars
  BY <1>15 DEF Submit, CreateRecord, CreateFails, PublishRejected, Publish,
               PublishRetried, PublishFails, Cleanup, ApiCrash, Expire
<1>16. ASSUME NEW m \in Messages, QueueStep(m) PROVE UNCHANGED workerVars
  BY <1>16 DEF QueueStep, VisibilityTimeout, DeadLetter, Redrive
<1>17. CASE UNCHANGED vars \/ \E v \in Workers : ReceiveNothing(v)
  BY <1>1, <1>17 DEF ReceiveNothing, vars
<1>18. CASE Process(w)
  BY <1>5, <1>6, <1>7, <1>8, <1>9, <1>10, <1>18 DEF Process
<1> HIDE DEF Settled, Stays
<1> QED
  BY <1>1, <1>11, <1>12, <1>13, <1>14, <1>15, <1>16, <1>17, <1>18 DEF Next, Take

\* Without a fault a message reaches the last receive only in the hands of a worker.
LEMMA LastReceive ==
    ASSUME IInv, [Next]_vars, faults' = faults,
           NEW m \in Messages, JobOf(m) \in Jobs,
           count'[m] >= MaxReceiveCount
    PROVE  \/ count[m] >= MaxReceiveCount
           \/ \E w \in Workers : /\ pc'[w] \notin {"poll", "down"}
                                 /\ held'[w] = m
                                 /\ heldCount'[w] >= MaxReceiveCount
<1>0. /\ pc \in [Workers -> WorkerSteps]
      /\ held \in [Workers -> Messages \cup {None}]
      /\ heldCount \in [Workers -> 0..MaxReceiveCount]
      /\ count \in [Messages -> 0..MaxReceiveCount]
      /\ faults \in Nat
  BY DEF IInv, TypeOK
<1>1. CASE UNCHANGED count
  BY <1>1
<1>2. ASSUME NEW w \in Workers, NEW n \in Messages, Receive(w, n)
      PROVE  \/ count[m] >= MaxReceiveCount
             \/ /\ pc'[w] \notin {"poll", "down"}
                /\ held'[w] = m
                /\ heldCount'[w] >= MaxReceiveCount
  BY <1>0, <1>2 DEF Receive, Deliver
<1>3. ASSUME NEW w \in Workers, NEW n \in Messages, ReceiveMalformed(w, n)
      PROVE  count[m] >= MaxReceiveCount
  <2>1. m # n
    BY <1>3, DurableJobsAssumption DEF ReceiveMalformed
  <2> QED
    BY <1>0, <1>3, <2>1 DEF ReceiveMalformed, Deliver
<1>4. ASSUME NEW w \in Workers, NEW n \in Messages PROVE ~ReceiveLost(w, n)
  BY <1>0 DEF ReceiveLost, Fault
<1>5. ASSUME NEW n \in Messages, QueueStep(n) PROVE count[m] >= MaxReceiveCount
  BY <1>0, <1>5 DEF QueueStep, VisibilityTimeout, DeadLetter, Redrive
<1>6. ASSUME NEW k \in Jobs, Submit(k) \/ Expire(k) PROVE UNCHANGED count
  BY <1>6 DEF Submit, CreateRecord, CreateFails, PublishRejected, Publish, PublishRetried,
              PublishFails, Cleanup, ApiCrash, Expire, Send, queueVars
<1>7. ASSUME NEW w \in Workers, Process(w) \/ Terminate(w) \/ Restart(w)
      PROVE  UNCHANGED count
  BY <1>7 DEF Process, GetRecord, ClaimRecord, Infer, RecordFailure, RecordSuccess,
              Acknowledge, Terminate, Restart, queueVars
<1>8. CASE UNCHANGED vars \/ \E w \in Workers : ReceiveNothing(w)
  BY <1>1, <1>8 DEF ReceiveNothing, vars, queueVars
<1> QED
  BY <1>1, <1>2, <1>3, <1>4, <1>5, <1>6, <1>7, <1>8 DEF Next, Take

\* Faults are counted and never forgotten.
LEMMA FaultsStay == ASSUME IInv, [Next]_vars PROVE faults' = faults \/ faults' > 0
<1>1. faults \in Nat
  BY DEF IInv, TypeOK
<1>2. faults' = faults \/ faults' = faults + 1
  BY DEF Next, Submit, CreateRecord, CreateFails, PublishRejected, Publish, PublishRetried,
         PublishFails, Cleanup, ApiCrash, Expire, QueueStep, VisibilityTimeout, DeadLetter,
         Redrive, Take, Receive, ReceiveMalformed, ReceiveLost, ReceiveNothing, Process,
         GetRecord, ClaimRecord, Infer, RecordFailure, RecordSuccess, Acknowledge, Terminate,
         Restart, MarkRunning, MarkFailed, MarkSucceeded, Update, NoFault, Fault, vars
<1> QED
  BY <1>1, <1>2

LEMMA ExhaustedIsSettledStep ==
    ASSUME IInv, [Next]_vars
    PROVE  ExhaustedIsSettled'
<1> SUFFICES ASSUME NEW m \in Messages, JobOf(m) \in Jobs,
                    count'[m] >= MaxReceiveCount, faults' = 0
             PROVE  \/ status'[JobOf(m)] \in Terminal
                    \/ ~stored'[JobOf(m)]
                    \/ \E w \in Workers : /\ pc'[w] \notin {"poll", "down"}
                                          /\ held'[w] = m
                                          /\ heldCount'[w] >= MaxReceiveCount
  BY DEF ExhaustedIsSettled
<1>1. faults' = faults
  BY FaultsStay
<1>2. CASE count[m] >= MaxReceiveCount
  <2>1. CASE status[JobOf(m)] \in Terminal
    <3>1. StatusMoves(JobOf(m))
      BY StatusStep
    <3> QED
      BY <2>1, <3>1 DEF StatusMoves, Terminal
  <2>2. CASE ~stored[JobOf(m)]
    <3>1. StatusMoves(JobOf(m)) /\ status[JobOf(m)] # "absent"
      BY <1>2, StatusStep DEF IInv, TypeOK, SentIsCreated
    <3> QED
      BY <2>2, <3>1 DEF StatusMoves
  <2>3. CASE \E w \in Workers : /\ pc[w] \notin {"poll", "down"} /\ held[w] = m
                               /\ heldCount[w] >= MaxReceiveCount
    BY <1>1, <2>3, TaskGoesOn
  <2> QED
    BY <1>1, <1>2, <2>1, <2>2, <2>3 DEF IInv, ExhaustedIsSettled
<1>3. CASE ~(count[m] >= MaxReceiveCount)
  BY <1>1, <1>3, LastReceive
<1> QED
  BY <1>2, <1>3

LEMMA IInvStep == IInv /\ [Next]_vars => IInv'
<1> SUFFICES ASSUME IInv, [Next]_vars PROVE IInv'
  OBVIOUS
<1>1. TypeOK'
  BY TypeStep DEF IInv
<1> QED
  BY <1>1, HoldsTaskStep, AckReadyStep, CountedReceivesStep, RecordShapeStep,
     SentIsCreatedStep, AckOnlyAfterSuccessStep, InferenceImpliesClaimedStep,
     FailedOnlyWhenExhaustedStep, ExhaustedIsSettledStep
     DEF IInv

\* Every reachable state satisfies the inductive invariant.
THEOREM Invariance == Spec => []IInv
BY InitIInv, IInvStep, PTL DEF Spec

-------------------------------------------------------------------------------
(***************************************************************************)
(* The results.                                                            *)
(***************************************************************************)

\* Every variable of the durable path keeps its type; in particular SQS never
\* counts more than MaxReceiveCount deliveries of one message.
THEOREM TypeCorrect == Spec => []TypeOK
<1>1. IInv => TypeOK
  BY DEF IInv
<1> QED
  BY <1>1, Invariance, PTL

\* No message is acknowledged before its job's success is in the table.
THEOREM AckSafety == Spec => []AckOnlyAfterSuccess
<1>1. IInv => AckOnlyAfterSuccess
  BY DEF IInv
<1> QED
  BY <1>1, Invariance, PTL

\* An accepted job's task is in the queue or the DLQ until the job succeeded.
THEOREM NoAcceptedWorkLost == Spec => []AcceptedWorkIsKept
<1>1. IInv => AcceptedWorkIsKept
  <2> SUFFICES ASSUME IInv, NEW j \in Jobs, api[j] = "accepted"
               PROVE  status[j] = "succeeded" \/ \E c \in Copies : InCustody(<<j, c>>)
    BY DEF AcceptedWorkIsKept
  <2>1. PICK c \in Copies : place[<<j, c>>] # "none"
    BY DEF IInv, RecordShape, Sent
  <2>2. <<j, c>> \in Messages /\ JobOf(<<j, c>>) = j
    BY MessageFacts
  <2>3. place[<<j, c>>] \in Places
    BY <2>2 DEF IInv, TypeOK
  <2> QED
    BY <2>1, <2>2, <2>3 DEF IInv, AckOnlyAfterSuccess, InCustody, Places
<1> QED
  BY <1>1, Invariance, PTL

\* The worker makes no failure final while a delivery is left, and, where no call fails
\* and no process dies, leaves none unrecorded when there is none.
THEOREM RetriesAreUsed == Spec => []FailedExactlyWhenExhausted
<1>1. IInv => FailedExactlyWhenExhausted
  BY DEF IInv, FailedExactlyWhenExhausted
<1> QED
  BY <1>1, Invariance, PTL

\* The model is only ever called for a job whose record was claimed.
THEOREM ClaimBeforeInference == Spec => []InferenceImpliesClaimed
<1>1. IInv => InferenceImpliesClaimed
  BY DEF IInv
<1> QED
  BY <1>1, Invariance, PTL

-------------------------------------------------------------------------------
(***************************************************************************)
(* DurableJobs implements JobLifecycle.                                    *)
(***************************************************************************)

LEMMA InitRefines == Init => JL!Init
<1> SUFFICES ASSUME Init PROVE JL!Init
  OBVIOUS
<1>1. ASSUME NEW j \in Jobs, NEW c \in Copies PROVE place[<<j, c>>] = "none"
  BY <1>1, MessageFacts DEF Init
<1>2. deliveryOf = [j \in Jobs |-> "none"]
  BY <1>1 DEF deliveryOf, InCustody, Sent
<1> QED
  BY <1>2 DEF Init, JL!Init

\* A step that leaves status and stored alone and keeps every message either
\* out of SQS, in custody or deleted is a stutter of the lifecycle.
LEMMA Stutter ==
    ASSUME UNCHANGED <<status, stored>>,
           \A m \in Messages : /\ InCustody(m)' <=> InCustody(m)
                               /\ place'[m] # "none" <=> place[m] # "none"
    PROVE  UNCHANGED JL!lifecycleVars
<1>1. deliveryOf' = deliveryOf
  BY MessageFacts DEF deliveryOf, Sent
<1> QED
  BY <1>1 DEF JL!lifecycleVars

LEMMA PlacesKept ==
    ASSUME UNCHANGED place
    PROVE  deliveryOf' = deliveryOf
BY DEF deliveryOf, Sent, InCustody

\* Every conditional update is a Change of the lifecycle or changes nothing.
LEMMA UpdateRefines ==
    ASSUME IInv, NEW j \in Jobs, NEW from, NEW to, NEW code, NEW answer,
           Update(j, from, to, code, answer), UNCHANGED place
    PROVE  JL!Change(j, from, to) \/ UNCHANGED JL!lifecycleVars
<1>1. deliveryOf' = deliveryOf
  BY PlacesKept
<1> QED
  BY <1>1 DEF Update, JL!Change, JL!lifecycleVars

LEMMA SendRefines ==
    ASSUME IInv, NEW j \in Jobs, NEW c \in Copies, Send(<<j, c>>),
           UNCHANGED <<status, stored>>, status[j] # "absent"
    PROVE  JL!Enqueue(j)
<1>1. /\ <<j, c>> \in Messages
      /\ place \in [Messages -> Places]
      /\ place' = [place EXCEPT ![<<j, c>>] = "queue"]
  BY MessageFacts DEF IInv, TypeOK, Send
<1>2. deliveryOf'[j] = "held"
  BY <1>1 DEF deliveryOf, InCustody
<1>3. ASSUME NEW k \in Jobs, k # j PROVE deliveryOf'[k] = deliveryOf[k]
  <2>1. \A d \in Copies : place'[<<k, d>>] = place[<<k, d>>]
    BY <1>1, <1>3, MessageFacts
  <2> QED
    BY <2>1 DEF deliveryOf, InCustody, Sent
<1>4. deliveryOf' = [deliveryOf EXCEPT ![j] = "held"]
  BY <1>2, <1>3 DEF deliveryOf
<1> QED
  BY <1>4 DEF JL!Enqueue

LEMMA SubmitRefines ==
    ASSUME IInv, NEW j \in Jobs, Submit(j)
    PROVE  JL!Step(j) \/ UNCHANGED JL!lifecycleVars
<1>1. CASE CreateRecord(j)
  <2>1. deliveryOf' = deliveryOf
    BY <1>1, PlacesKept DEF CreateRecord, queueVars
  <2>2. status[j] = "absent"
    BY <1>1 DEF CreateRecord, IInv, RecordShape
  <2>3. stored' = [k \in Jobs |-> k = j \/ (stored[k] /\ k \notin {})]
    BY <1>1 DEF CreateRecord, IInv, TypeOK
  <2>4. {} \in SUBSET {k \in Jobs : status[k] \in JL!Terminal}
    OBVIOUS
  <2>5. status' = [status EXCEPT ![j] = "pending"]
    BY <1>1 DEF CreateRecord
  <2>6. JL!Create(j)
    BY <2>1, <2>2, <2>3, <2>4, <2>5 DEF JL!Create
  <2> QED
    BY <2>6 DEF JL!Step
<1>2. CASE Publish(j) \/ PublishRetried(j) \/ PublishFails(j)
  <2>1. /\ UNCHANGED <<status, stored>>
        /\ status[j] # "absent"
        /\ UNCHANGED place \/ \E c \in Copies : Send(<<j, c>>)
    BY <1>2 DEF Publish, PublishRetried, PublishFails, recordVars, queueVars, IInv, RecordShape
  <2>2. CASE UNCHANGED place
    BY <2>1, <2>2, PlacesKept DEF JL!lifecycleVars
  <2>3. CASE \E c \in Copies : Send(<<j, c>>)
    BY <2>1, <2>3, SendRefines DEF JL!Step
  <2> QED
    BY <2>1, <2>2, <2>3
<1>3. CASE Cleanup(j)
  <2>1. PICK answer : Update(j, {"pending", "running"}, "failed", "enqueue_failed", answer)
    BY <1>3 DEF Cleanup, MarkFailed
  <2>2. UNCHANGED place
    BY <1>3 DEF Cleanup, queueVars
  <2> QED
    BY <2>1, <2>2, UpdateRefines DEF JL!Step, JL!Fail
<1>4. CASE CreateFails(j) \/ PublishRejected(j) \/ ApiCrash(j)
  BY <1>4, PlacesKept
     DEF CreateFails, PublishRejected, ApiCrash, recordVars, queueVars, JL!lifecycleVars
<1> QED
  BY <1>1, <1>2, <1>3, <1>4 DEF Submit

LEMMA QueueRefines ==
    ASSUME IInv, NEW m \in Messages, QueueStep(m)
    PROVE  UNCHANGED JL!lifecycleVars
<1>1. UNCHANGED <<status, stored>> /\ place \in [Messages -> Places]
  BY DEF QueueStep, VisibilityTimeout, DeadLetter, Redrive, recordVars, IInv, TypeOK
<1>2. \A n \in Messages : /\ InCustody(n)' <=> InCustody(n)
                          /\ place'[n] # "none" <=> place[n] # "none"
  BY <1>1 DEF QueueStep, VisibilityTimeout, DeadLetter, Redrive, InCustody
<1> QED
  BY <1>1, <1>2, Stutter

LEMMA AcknowledgeRefines ==
    ASSUME IInv, NEW w \in Workers, Acknowledge(w)
    PROVE  JL!Step(JobOf(held[w])) \/ UNCHANGED JL!lifecycleVars
<1> DEFINE j == JobOf(held[w])
<1>1. /\ held[w] \in Messages /\ j \in Jobs
      /\ status[j] = "succeeded"
      /\ UNCHANGED <<status, stored>>
      /\ place \in [Messages -> Places]
  BY DEF Acknowledge, IInv, TypeOK, HoldsTask, AckReady, recordVars
<1>0. j = JobOf(held[w])
  OBVIOUS
<1> HIDE DEF j
<1>2. CASE UNCHANGED place
  BY <1>1, <1>2, PlacesKept DEF JL!lifecycleVars
<1>3. CASE place[held[w]] = "queue" /\ place' = [place EXCEPT ![held[w]] = "deleted"]
  <2>1. PICK c \in Copies : held[w] = <<j, c>>
    BY <1>0, <1>1, MessageFacts
  <2>2. ASSUME NEW k \in Jobs, k # j PROVE deliveryOf'[k] = deliveryOf[k]
    <3>1. \A d \in Copies : place'[<<k, d>>] = place[<<k, d>>]
      BY <1>1, <1>3, <2>1, <2>2, MessageFacts
    <3> QED
      BY <3>1 DEF deliveryOf, InCustody, Sent
  <2>3. /\ <<j, c>> \in Messages
        /\ place[<<j, c>>] = "queue"
        /\ place'[<<j, c>>] = "deleted"
    BY <1>1, <1>3, <2>1
  <2>4. deliveryOf[j] = "held"
    BY <1>1, <2>3 DEF deliveryOf, InCustody
  <2>5. \E d \in Copies : place'[<<j, d>>] # "none"
    BY <2>3
  <2>6. deliveryOf'[j] \in {"held", "released"}
    BY <1>1, <2>5 DEF deliveryOf, Sent
  <2>7. \/ deliveryOf' = deliveryOf
        \/ deliveryOf' = [deliveryOf EXCEPT ![j] = "released"]
    BY <2>2, <2>4, <2>6 DEF deliveryOf
  <2> QED
    BY <1>0, <1>1, <2>4, <2>7 DEF JL!Step, JL!Release, JL!lifecycleVars
<1> QED
  BY <1>0, <1>2, <1>3 DEF Acknowledge

LEMMA ProcessRefines ==
    ASSUME IInv, NEW w \in Workers, Process(w)
    PROVE  JL!Step(JobOf(held[w])) \/ UNCHANGED JL!lifecycleVars
<1> DEFINE j == JobOf(held[w])
<1>0. /\ held[w] \in Messages /\ j \in Jobs /\ place[held[w]] # "none"
  BY DEF Process, GetRecord, ClaimRecord, Infer, RecordFailure, RecordSuccess,
         Acknowledge, IInv, HoldsTask
<1>1. deliveryOf[j] # "none"
  <2>1. PICK c \in Copies : held[w] = <<j, c>>
    BY <1>0, MessageFacts
  <2>2. Sent(j)
    BY <1>0, <2>1 DEF Sent
  <2> QED
    BY <1>0, <2>2 DEF deliveryOf
<1>2. CASE GetRecord(w) \/ Infer(w)
  BY <1>2, PlacesKept DEF GetRecord, Infer, recordVars, queueVars, JL!lifecycleVars
<1>3. CASE ClaimRecord(w)
  <2>1. PICK answer : Update(j, {"pending", "running"}, "running", errorCode[j], answer)
    BY <1>3 DEF ClaimRecord, MarkRunning
  <2>2. UNCHANGED place
    BY <1>3 DEF ClaimRecord, queueVars
  <2>3. CASE status[j] = "running"
    <3>1. UNCHANGED <<status, stored>>
      BY <2>1, <2>3, <1>0 DEF Update, IInv, TypeOK
    <3> QED
      BY <2>2, <3>1, PlacesKept DEF JL!lifecycleVars
  <2>4. CASE status[j] # "running"
    <3>1. Update(j, {"pending"}, "running", errorCode[j], answer)
      BY <2>1, <2>4 DEF Update
    <3>2. JL!Change(j, {"pending"}, "running") \/ UNCHANGED JL!lifecycleVars
      BY <1>0, <2>2, <3>1, UpdateRefines
    <3> QED
      BY <1>1, <3>2 DEF JL!Step, JL!Start
  <2> QED
    BY <2>3, <2>4
<1>4. CASE RecordFailure(w)
  <2>1. PICK answer : Update(j, {"pending", "running"}, "failed", "inference_failed", answer)
    BY <1>4 DEF RecordFailure, MarkFailed
  <2>2. UNCHANGED place
    BY <1>4 DEF RecordFailure, queueVars
  <2> QED
    BY <1>0, <2>1, <2>2, UpdateRefines DEF JL!Step, JL!Fail
<1>5. CASE RecordSuccess(w)
  <2>1. PICK answer : Update(j, {"running"}, "succeeded", errorCode[j], answer)
    BY <1>5 DEF RecordSuccess, MarkSucceeded
  <2>2. UNCHANGED place
    BY <1>5 DEF RecordSuccess, queueVars
  <2> QED
    BY <1>0, <2>1, <2>2, UpdateRefines DEF JL!Step, JL!Succeed
<1> QED
  BY <1>2, <1>3, <1>4, <1>5, AcknowledgeRefines DEF Process

LEMMA StepRefines == IInv /\ [Next]_vars => [JL!Next]_(JL!lifecycleVars)
<1> SUFFICES ASSUME IInv, [Next]_vars
             PROVE  JL!Next \/ UNCHANGED JL!lifecycleVars
  OBVIOUS
<1>1. CASE \E j \in Jobs : Submit(j)
  BY <1>1, SubmitRefines DEF JL!Next
<1>2. CASE \E j \in Jobs : Expire(j)
  <2>1. PICK j \in Jobs : Expire(j)
    BY <1>2
  <2>2. JL!Expire(j)
    BY <2>1, PlacesKept DEF Expire, JL!Expire, queueVars
  <2> QED
    BY <2>2 DEF JL!Next, JL!Step
<1>3. CASE \E m \in Messages : QueueStep(m)
  BY <1>3, QueueRefines
<1>4. CASE \E w \in Workers : Process(w)
  <2>1. PICK w \in Workers : Process(w)
    BY <1>4
  <2>2. JobOf(held[w]) \in Jobs
    BY <2>1 DEF Process, GetRecord, ClaimRecord, Infer, RecordFailure, RecordSuccess,
                Acknowledge, IInv, HoldsTask
  <2> QED
    BY <2>1, <2>2, ProcessRefines DEF JL!Next
<1>5. CASE UNCHANGED <<status, stored, place>>
  BY <1>5, PlacesKept DEF JL!lifecycleVars
<1>6. ASSUME NEW w \in Workers,
             \/ Take(w) \/ ReceiveNothing(w) \/ Terminate(w) \/ Restart(w)
             \/ \E m \in Messages : ReceiveLost(w, m)
      PROVE  UNCHANGED <<status, stored, place>>
  BY <1>6 DEF Take, Receive, ReceiveMalformed, ReceiveLost, Deliver, ReceiveNothing,
              Terminate, Restart, recordVars, queueVars, vars
<1>7. UNCHANGED vars => UNCHANGED <<status, stored, place>>
  BY DEF vars, recordVars, queueVars
<1> QED
  BY <1>1, <1>2, <1>3, <1>4, <1>5, <1>6, <1>7 DEF Next

\* Every behaviour of the durable path is, seen through deliveryOf, a
\* behaviour of the job lifecycle: terminal statuses are final, an expired
\* record stays gone, nothing runs unqueued, nothing is let go unsucceeded.
THEOREM ImplementsLifecycle == Spec => LifecycleSpec
BY InitRefines, StepRefines, Invariance, PTL DEF Spec, LifecycleSpec, JL!Spec

===============================================================================
