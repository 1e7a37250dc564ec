------------------------------- MODULE LocalJobs -------------------------------
(***************************************************************************)
(* The in-process job path: LocalJobService with its InMemoryJobRepository,*)
(* InMemoryJobQueue, capacity semaphore, worker threads and shutdown, and  *)
(* the model counters of Metrics that its workers update.  A step is one   *)
(* critical section or one call on a thread-safe object.                   *)
(***************************************************************************)
EXTENDS Naturals, FiniteSets, Sequences, SequencesExt

CONSTANTS Jobs,            \* calls of submit, each with a fresh job_id
          Workers,         \* worker threads: max_workers
          Closers,         \* calls of shutdown
          WaitingClosers,  \* those with wait=True
          MaxPending,      \* max_pending_jobs
          MaxStored,       \* max_stored_jobs
          None             \* no task; nobody holds the lock

ASSUME LocalJobsAssumption ==
    /\ IsFiniteSet(Jobs) /\ IsFiniteSet(Workers)
    /\ WaitingClosers \subseteq Closers
    /\ MaxPending \in Nat \ {0}
    /\ MaxStored \in Nat
    /\ MaxStored >= MaxPending          \* WorkerSettings.__post_init__
    /\ None \notin Jobs

Terminal == {"succeeded", "failed"}
Statuses == {"absent", "pending", "running"} \cup Terminal
ClientSteps == {"idle", "create", "enqueue", "accepted", "rejected"}
WorkerSteps == {"loop", "poll", "pop", "mark_running", "infer", "mark_succeeded",
                "record_error", "mark_failed", "latency", "task_done", "release",
                "exited", "dead"}
CloserSteps == {"idle", "join", "stop", "join_threads", "returned", "ignored"}

VARIABLES status,       \* status of each record; its last value once evicted
          history,      \* _jobs: the stored records, oldest first
          client,       \* where each submit call is
          queue,        \* _queue: tasks waiting, in order
          unfinished,   \* the queue's unfinished_tasks
          permits,      \* _capacity: free permits
          providers,    \* _providers: the jobs with a provider waiting
          lock,         \* _state_lock: the submit call that holds it, or None
          closed,       \* _closed
          stopEvent,    \* _stop_event
          closer,       \* where each shutdown call is
          pc,           \* where each worker thread is
          task,         \* the task it executes
          doomed,       \* threads with an exception on its way out of _execute
          modelErrors,  \* Metrics._model_error_count
          llmRequests   \* Metrics._llm_request_count

repositoryVars == <<status, history>>
queueVars == <<queue, unfinished>>
shutdownVars == <<closed, stopEvent, closer>>
workerVars == <<pc, task, doomed>>
metricVars == <<modelErrors, llmRequests>>
vars == <<repositoryVars, client, queueVars, permits, providers, lock,
          shutdownVars, workerVars, metricVars>>

stored == ToSet(history)

TypeOK ==
    /\ status \in [Jobs -> Statuses]
    /\ history \in Seq(Jobs)
    /\ client \in [Jobs -> ClientSteps]
    /\ queue \in Seq(Jobs)
    /\ unfinished \in Nat
    /\ permits \in 0..MaxPending
    /\ providers \in SUBSET Jobs
    /\ lock \in Jobs \cup {None}
    /\ closed \in BOOLEAN
    /\ stopEvent \in BOOLEAN
    /\ closer \in [Closers -> CloserSteps]
    /\ pc \in [Workers -> WorkerSteps]
    /\ task \in [Workers -> Jobs \cup {None}]
    /\ doomed \in SUBSET Workers
    /\ modelErrors \in Nat
    /\ llmRequests \in Nat

Init ==
    /\ status = [j \in Jobs |-> "absent"]
    /\ history = <<>>
    /\ client = [j \in Jobs |-> "idle"]
    /\ queue = <<>>
    /\ unfinished = 0
    /\ permits = MaxPending
    /\ providers = {}
    /\ lock = None
    /\ closed = FALSE
    /\ stopEvent = FALSE
    /\ closer = [c \in Closers |-> "idle"]
    /\ pc = [w \in Workers |-> "loop"]
    /\ task = [w \in Workers |-> None]
    /\ doomed = {}
    /\ modelErrors = 0
    /\ llmRequests = 0

(***************************************************************************)
(* submit: it holds _state_lock from the check of _closed to its return.   *)
(***************************************************************************)

\* Neither closed nor at capacity: a permit is taken and the lock kept.
Admit(j) ==
    /\ client[j] = "idle"
    /\ lock = None
    /\ ~closed
    /\ permits > 0
    /\ permits' = permits - 1
    /\ lock' = j
    /\ client' = [client EXCEPT ![j] = "create"]
    /\ UNCHANGED <<repositoryVars, queueVars, providers, shutdownVars,
                   workerVars, metricVars>>

\* JobCapacityError: the executor is closed or has no permit left.
Refuse(j) ==
    /\ client[j] = "idle"
    /\ lock = None
    /\ closed \/ permits = 0
    /\ client' = [client EXCEPT ![j] = "rejected"]
    /\ UNCHANGED <<repositoryVars, queueVars, permits, providers, lock,
                   shutdownVars, workerVars, metricVars>>

\* submit's except clause, and the end of the with block.
Rollback(j) ==
    /\ permits' = permits + 1
    /\ lock' = None
    /\ client' = [client EXCEPT ![j] = "rejected"]

\* Mutant of Evict: the oldest record goes, whatever its status.
EvictOldest(records) ==
    IF Len(records) < MaxStored THEN records ELSE Tail(records)

\* _evict_terminal_jobs_for_space: the oldest finished record makes room.
Evict(records) ==
    IF Len(records) < MaxStored THEN records
    ELSE RemoveFirstMatch(records, LAMBDA k : status[k] \in Terminal)

CreateRecord(j) ==
    LET kept == Evict(history)
    IN /\ client[j] = "create"
       /\ IF Len(kept) >= MaxStored
          THEN Rollback(j) /\ UNCHANGED repositoryVars
          ELSE /\ history' = Append(kept, j)
               /\ status' = [status EXCEPT ![j] = "pending"]
               /\ client' = [client EXCEPT ![j] = "enqueue"]
               /\ UNCHANGED <<permits, lock>>
       /\ UNCHANGED <<queueVars, providers, shutdownVars, workerVars, metricVars>>

\* Mutant of Enqueue: submit forgets the task once it has a record.
EnqueueForgotten(j) ==
    /\ client[j] = "enqueue"
    /\ client' = [client EXCEPT ![j] = "accepted"]
    /\ lock' = None
    /\ UNCHANGED <<repositoryVars, queueVars, permits, providers, shutdownVars,
                   workerVars, metricVars>>

\* Mutant of Enqueue: the queue holds one task less than there are permits.
EnqueueSmaller(j) ==
    /\ client[j] = "enqueue"
    /\ providers' = providers \cup {j}
    /\ IF Len(queue) >= MaxPending - 1
       THEN Rollback(j) /\ UNCHANGED queueVars
       ELSE /\ queue' = Append(queue, j)
            /\ unfinished' = unfinished + 1
            /\ client' = [client EXCEPT ![j] = "accepted"]
            /\ lock' = None
            /\ UNCHANGED permits
    /\ UNCHANGED <<repositoryVars, shutdownVars, workerVars, metricVars>>

\* The provider is registered and the task put; Full would roll back.
Enqueue(j) ==
    /\ client[j] = "enqueue"
    /\ providers' = providers \cup {j}
    /\ IF Len(queue) >= MaxPending
       THEN Rollback(j) /\ UNCHANGED queueVars
       ELSE /\ queue' = Append(queue, j)
            /\ unfinished' = unfinished + 1
            /\ client' = [client EXCEPT ![j] = "accepted"]
            /\ lock' = None
            /\ UNCHANGED permits
    /\ UNCHANGED <<repositoryVars, shutdownVars, workerVars, metricVars>>

(***************************************************************************)
(* shutdown                                                                *)
(***************************************************************************)

\* Mutant of Close: wait is ignored, the threads are stopped at once.
CloseWithoutJoin(c) ==
    /\ closer[c] = "idle"
    /\ lock = None
    /\ closed' = TRUE
    /\ closer' = [closer EXCEPT ![c] = IF closed THEN "ignored" ELSE "stop"]
    /\ UNCHANGED <<repositoryVars, client, queueVars, permits, providers, lock,
                   stopEvent, workerVars, metricVars>>

\* The first call closes the executor; any later one returns at once.
Close(c) ==
    /\ closer[c] = "idle"
    /\ lock = None
    /\ closed' = TRUE
    /\ closer' = [closer EXCEPT ![c] =
                     IF closed THEN "ignored"
                     ELSE IF c \in WaitingClosers THEN "join" ELSE "stop"]
    /\ UNCHANGED <<repositoryVars, client, queueVars, permits, providers, lock,
                   stopEvent, workerVars, metricVars>>

\* queue.join: every task that was put has been marked done.
JoinQueue(c) ==
    /\ closer[c] = "join"
    /\ unfinished = 0
    /\ closer' = [closer EXCEPT ![c] = "stop"]
    /\ UNCHANGED <<repositoryVars, client, queueVars, permits, providers, lock,
                   closed, stopEvent, workerVars, metricVars>>

SetStopEvent(c) ==
    /\ closer[c] = "stop"
    /\ stopEvent' = TRUE
    /\ closer' = [closer EXCEPT ![c] = "join_threads"]
    /\ UNCHANGED <<repositoryVars, client, queueVars, permits, providers, lock,
                   closed, workerVars, metricVars>>

\* Every thread.join has a time-out, so this may return before they end.
JoinThreads(c) ==
    /\ closer[c] = "join_threads"
    /\ closer' = [closer EXCEPT ![c] = "returned"]
    /\ UNCHANGED <<repositoryVars, client, queueVars, permits, providers, lock,
                   closed, stopEvent, workerVars, metricVars>>

(***************************************************************************)
(* _worker_loop and _execute                                               *)
(***************************************************************************)

Goto(w, step) ==
    /\ pc' = [pc EXCEPT ![w] = step]
    /\ UNCHANGED <<task, doomed>>

CheckStop(w) ==
    /\ pc[w] = "loop"
    /\ Goto(w, IF stopEvent THEN "exited" ELSE "poll")
    /\ UNCHANGED <<repositoryVars, client, queueVars, permits, providers, lock,
                   shutdownVars, metricVars>>

PollTask(w) ==
    /\ pc[w] = "poll"
    /\ queue # <<>>
    /\ queue' = Tail(queue)
    /\ task' = [task EXCEPT ![w] = Head(queue)]
    /\ pc' = [pc EXCEPT ![w] = "pop"]
    /\ UNCHANGED <<repositoryVars, client, unfinished, permits, providers, lock,
                   shutdownVars, doomed, metricVars>>

PollTimeout(w) ==
    /\ pc[w] = "poll"
    /\ queue = <<>>
    /\ Goto(w, "loop")
    /\ UNCHANGED <<repositoryVars, client, queueVars, permits, providers, lock,
                   shutdownVars, metricVars>>

\* A missing provider (KeyError) would go to the outer handler.
PopProvider(w) ==
    /\ pc[w] = "pop"
    /\ lock = None
    /\ providers' = providers \ {task[w]}
    /\ Goto(w, IF task[w] \in providers THEN "mark_running" ELSE "record_error")
    /\ UNCHANGED <<repositoryVars, client, queueVars, permits, lock,
                   shutdownVars, metricVars>>

\* _transition and mark_failed check the stored record under the repository's
\* lock and raise JobNotFoundError or InvalidJobTransitionError.
Matches(j, from) == j \in stored /\ status[j] \in from

MarkRunning(w) ==
    /\ pc[w] = "mark_running"
    /\ IF Matches(task[w], {"pending"})
       THEN status' = [status EXCEPT ![task[w]] = "running"] /\ Goto(w, "infer")
       ELSE UNCHANGED status /\ Goto(w, "record_error")
    /\ UNCHANGED <<history, client, queueVars, permits, providers, lock,
                   shutdownVars, metricVars>>

\* provider.generate returns an outcome or raises.
Infer(w) ==
    /\ pc[w] = "infer"
    /\ Goto(w, "mark_succeeded") \/ Goto(w, "record_error")
    /\ UNCHANGED <<repositoryVars, client, queueVars, permits, providers, lock,
                   shutdownVars, metricVars>>

\* Mutant of MarkSucceeded: the success path also falls through to the handler.
MarkSucceededThenFail(w) ==
    /\ pc[w] = "mark_succeeded"
    /\ status' = [status EXCEPT ![task[w]] = "succeeded"]
    /\ Goto(w, "record_error")
    /\ UNCHANGED <<history, client, queueVars, permits, providers, lock,
                   shutdownVars, metricVars>>

MarkSucceeded(w) ==
    /\ pc[w] = "mark_succeeded"
    /\ IF Matches(task[w], {"running"})
       THEN status' = [status EXCEPT ![task[w]] = "succeeded"] /\ Goto(w, "latency")
       ELSE UNCHANGED status /\ Goto(w, "record_error")
    /\ UNCHANGED <<history, client, queueVars, permits, providers, lock,
                   shutdownVars, metricVars>>

\* Mutant of RecordError: the handler releases the permit, as finally does.
RecordErrorAndRelease(w) ==
    /\ pc[w] = "record_error"
    /\ modelErrors' = modelErrors + 1
    /\ permits' = permits + 1
    /\ Goto(w, "mark_failed")
    /\ UNCHANGED <<repositoryVars, client, queueVars, providers, lock,
                   shutdownVars, llmRequests>>

RecordError(w) ==
    /\ pc[w] = "record_error"
    /\ modelErrors' = modelErrors + 1
    /\ Goto(w, "mark_failed")
    /\ UNCHANGED <<repositoryVars, client, queueVars, permits, providers, lock,
                   shutdownVars, llmRequests>>

\* If the inner handler's mark_failed raises, the outer handler counts one
\* more error, repeats it and raises for the same reason: the thread ends
\* after its finally clause.
MarkFailed(w) ==
    /\ pc[w] = "mark_failed"
    /\ IF Matches(task[w], {"pending", "running"})
       THEN /\ status' = [status EXCEPT ![task[w]] = "failed"]
            /\ UNCHANGED <<doomed, modelErrors>>
       ELSE /\ doomed' = doomed \cup {w}
            /\ modelErrors' = modelErrors + 1
            /\ UNCHANGED status
    /\ pc' = [pc EXCEPT ![w] = "latency"]
    /\ UNCHANGED <<history, client, queueVars, permits, providers, lock,
                   shutdownVars, task, llmRequests>>

RecordLatency(w) ==
    /\ pc[w] = "latency"
    /\ llmRequests' = llmRequests + 1
    /\ Goto(w, "task_done")
    /\ UNCHANGED <<repositoryVars, client, queueVars, permits, providers, lock,
                   shutdownVars, modelErrors>>

\* Mutant of TaskDone: the queue is never told.
TaskDoneForgotten(w) ==
    /\ pc[w] = "task_done"
    /\ task' = [task EXCEPT ![w] = None]
    /\ pc' = [pc EXCEPT ![w] = "release"]
    /\ UNCHANGED <<repositoryVars, client, queueVars, permits, providers, lock,
                   shutdownVars, doomed, metricVars>>

TaskDone(w) ==
    /\ pc[w] = "task_done"
    /\ unfinished' = unfinished - 1
    /\ task' = [task EXCEPT ![w] = None]
    /\ pc' = [pc EXCEPT ![w] = "release"]
    /\ UNCHANGED <<repositoryVars, client, queue, permits, providers, lock,
                   shutdownVars, doomed, metricVars>>

\* Mutant of ReleasePermit: the permit is kept.
ReleaseForgotten(w) ==
    /\ pc[w] = "release"
    /\ Goto(w, "loop")
    /\ UNCHANGED <<repositoryVars, client, queueVars, permits, providers, lock,
                   shutdownVars, metricVars>>

ReleasePermit(w) ==
    /\ pc[w] = "release"
    /\ permits' = permits + 1
    /\ Goto(w, IF w \in doomed THEN "dead" ELSE "loop")
    /\ UNCHANGED <<repositoryVars, client, queueVars, providers, lock,
                   shutdownVars, metricVars>>

(***************************************************************************)
(* The system.                                                             *)
(***************************************************************************)

Submit(j) == Admit(j) \/ Refuse(j) \/ CreateRecord(j) \/ Enqueue(j)

Shutdown(c) == Close(c) \/ JoinQueue(c) \/ SetStopEvent(c) \/ JoinThreads(c)

Work(w) ==
    \/ CheckStop(w) \/ PollTask(w) \/ PollTimeout(w) \/ PopProvider(w)
    \/ MarkRunning(w) \/ Infer(w) \/ MarkSucceeded(w) \/ RecordError(w)
    \/ MarkFailed(w) \/ RecordLatency(w) \/ TaskDone(w) \/ ReleasePermit(w)

Next ==
    \/ \E j \in Jobs : Submit(j)
    \/ \E c \in Closers : Shutdown(c)
    \/ \E w \in Workers : Work(w)

Spec == Init /\ [][Next]_vars

\* Threads are scheduled; a submit that holds the lock goes on; a shutdown
\* that was called goes on.  No submit or shutdown has to be called.
Fairness ==
    /\ \A j \in Jobs : WF_vars(CreateRecord(j) \/ Enqueue(j))
    /\ \A c \in Closers : WF_vars(JoinQueue(c) \/ SetStopEvent(c) \/ JoinThreads(c))
    /\ \A w \in Workers : WF_vars(Work(w))

FairSpec == Spec /\ Fairness

(***************************************************************************)
(* Properties.                                                             *)
(***************************************************************************)

Executing(w) == task[w] # None
Submitting(j) == client[j] \in {"create", "enqueue"}

\* Every permit is free or stands for exactly one submit in progress, one
\* unfinished task or one worker about to release it: none leaks and none is
\* released twice (BoundedSemaphore.release would raise), whatever fails.
PermitsAreConserved ==
    permits + unfinished
            + Cardinality({j \in Jobs : Submitting(j)})
            + Cardinality({w \in Workers : pc[w] = "release"}) = MaxPending

\* The clean-up in submit never has a record or provider to forget: a
\* rejected submit left no record, no provider and no task (job_service.py:95
\* releases the permit only), because put and create cannot fail once a
\* permit is held.
RejectedLeavesNothing ==
    \A j \in Jobs :
        client[j] = "rejected" =>
            status[j] = "absent" /\ j \notin providers

\* Eviction for space only ever drops finished records: a job that is pending
\* or running can always be read (jobs.py:158).
ActiveIsStored ==
    \A j \in Jobs : status[j] \in {"pending", "running"} => j \in stored

\* No exception leaves _execute, so no worker thread ever ends but by
\* shutdown: eviction, failure handling and the two exception handlers never
\* meet in a transition the repository refuses.
WorkersSurvive == doomed = {} /\ \A w \in Workers : pc[w] # "dead"

\* The error counter tells the truth of the records: it is the number of
\* failed jobs plus the workers between record_model_error and mark_failed.
ErrorsMatchRecords ==
    modelErrors = Cardinality({j \in Jobs : status[j] = "failed"})
                  + Cardinality({w \in Workers : pc[w] = "mark_failed"})

\* When shutdown(wait=True) goes on to stop the threads, every job that was
\* accepted is finished: none is left in the queue or in a worker.
DrainedBeforeStop ==
    \A c \in WaitingClosers :
        closer[c] \in {"stop", "join_threads", "returned"} =>
            \A j \in Jobs : client[j] = "accepted" => status[j] \in Terminal

\* Where the task of a job is, as JobLifecycle sees it.
deliveryOf ==
    [j \in Jobs |->
        IF client[j] # "accepted" THEN "none"
        ELSE IF j \in ToSet(queue) \/ \E w \in Workers : task[w] = j THEN "held"
        ELSE "released"]

JL == INSTANCE JobLifecycle
        WITH stored <- [j \in Jobs |-> j \in ToSet(history)],
             delivery <- deliveryOf, ReleaseOn <- Terminal

\* The local executor implements the job lifecycle under every interleaving
\* of submits, workers, eviction and shutdown.
LifecycleSpec == JL!Spec

\* An accepted job finishes, unless an immediate shutdown abandons the queue:
\* a waiting one never does.
AcceptedJobFinishes ==
    \A j \in Jobs :
        client[j] = "accepted" ~>
            \/ status[j] \in Terminal
            \/ \E c \in Closers \ WaitingClosers :
                   closer[c] \in {"join_threads", "returned"}

\* A shutdown that was started returns: the drain cannot wait for ever.
ShutdownReturns ==
    \A c \in Closers :
        closer[c] # "idle" ~> closer[c] \in {"returned", "ignored"}
===============================================================================
