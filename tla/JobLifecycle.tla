----------------------------- MODULE JobLifecycle -----------------------------
(***************************************************************************)
(* What a job repository together with its queue promises to a client that *)
(* submits an inference job: the record goes pending -> running ->         *)
(* succeeded | failed (or pending -> failed), a terminal status never      *)
(* changes, a job only runs after its task was queued, and the queue lets  *)
(* go of the task only when the record has reached a status of ReleaseOn.  *)
(* DurableJobs (DynamoDB and SQS) and LocalJobs (in process) implement it. *)
(***************************************************************************)
CONSTANTS Jobs,       \* the job identifiers that submit may create
          ReleaseOn   \* the statuses in which a queued task may be let go

Terminal == {"succeeded", "failed"}
Statuses == {"absent", "pending", "running"} \cup Terminal

VARIABLES status,     \* status of the job's record; the last one once it is gone
          stored,     \* whether the repository still holds the record
          delivery    \* "none" before the task is queued, "held" while some
                      \* queue holds it, "released" after the last was let go

lifecycleVars == <<status, stored, delivery>>

Init ==
    /\ status = [j \in Jobs |-> "absent"]
    /\ stored = [j \in Jobs |-> FALSE]
    /\ delivery = [j \in Jobs |-> "none"]

\* A bounded repository may make room by dropping finished records only.
Create(j) ==
    /\ status[j] = "absent"
    /\ status' = [status EXCEPT ![j] = "pending"]
    /\ \E gone \in SUBSET {k \in Jobs : status[k] \in Terminal} :
          stored' = [k \in Jobs |-> k = j \/ (stored[k] /\ k \notin gone)]
    /\ UNCHANGED delivery

\* The task may be queued again: a retried publish, or an operator's redrive.
Enqueue(j) ==
    /\ status[j] # "absent"
    /\ delivery' = [delivery EXCEPT ![j] = "held"]
    /\ UNCHANGED <<status, stored>>

\* Every change of a status happens in the store, on a record that is there.
Change(j, from, to) ==
    /\ stored[j]
    /\ status[j] \in from
    /\ status' = [status EXCEPT ![j] = to]
    /\ UNCHANGED <<stored, delivery>>

Start(j) == delivery[j] # "none" /\ Change(j, {"pending"}, "running")

Succeed(j) == Change(j, {"running"}, "succeeded")

Fail(j) == Change(j, {"pending", "running"}, "failed")

Release(j) ==
    /\ delivery[j] = "held"
    /\ status[j] \in ReleaseOn
    /\ delivery' = [delivery EXCEPT ![j] = "released"]
    /\ UNCHANGED <<status, stored>>

\* The record reaches the end of its life (DynamoDB TTL), whatever its status.
Expire(j) ==
    /\ stored[j]
    /\ stored' = [stored EXCEPT ![j] = FALSE]
    /\ UNCHANGED <<status, delivery>>

Step(j) ==
    \/ Create(j) \/ Enqueue(j) \/ Start(j) \/ Succeed(j)
    \/ Fail(j) \/ Release(j) \/ Expire(j)

Next == \E j \in Jobs : Step(j)

Spec == Init /\ [][Next]_lifecycleVars
===============================================================================
