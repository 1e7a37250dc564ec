--------------------------------- MODULE LoadRun ---------------------------------
(***************************************************************************)
(* The load generator of the staging performance gate, loadtests/          *)
(* run_load.py: one asyncio process in which run_load feeds a bounded      *)
(* queue and `concurrency` worker tasks take from it.  Tasks change over   *)
(* only where one awaits: a full or empty queue, a request, join, gather.  *)
(* When a request is due is left open, and so is how long anything takes.  *)
(* The semaphore is left out: there are as many permits as workers, and a  *)
(* worker holds at most one.                                               *)
(***************************************************************************)
EXTENDS Naturals, Sequences, FiniteSets

CONSTANTS RequestCount,     \* planned_requests, and request_count
          Workers,          \* `concurrency` worker tasks
          MaxErrorPercent,  \* 100 * max_error_rate
          Sentinel,         \* the None that ends a worker
          MaxFaults         \* bound: exceptions _request_once does not handle

ASSUME LoadRunAssumption ==
    /\ RequestCount \in Nat \ {0}
    /\ IsFiniteSet(Workers) /\ Workers # {}
    /\ MaxErrorPercent \in Nat
    /\ Sentinel \notin 1..RequestCount
    /\ MaxFaults \in Nat

Requests == 1..RequestCount
Capacity == 2 * Cardinality(Workers)
RequestResult == [request : Requests, success : BOOLEAN, slow : BOOLEAN]

VARIABLES runner,      \* where run_load is
          scheduled,   \* requests put so far
          queue,       \* the asyncio queue
          unfinished,  \* its unfinished tasks, which join waits for
          worker,      \* where each worker task is
          held,        \* the request a worker has taken
          results,     \* RequestResults; slow: rounded, over max_p95_latency_ms
          passed,      \* gate.passed of the report
          faults       \* faults so far

vars == <<runner, scheduled, queue, unfinished, worker, held, results, passed, faults>>

TypeOK ==
    /\ runner \in {"schedule", "join", "gather", "reported", "raised"}
    /\ scheduled \in 0..RequestCount
    /\ queue \in Seq(Requests \cup {Sentinel})
    /\ Len(queue) <= Capacity
    /\ unfinished \in 0..(Len(queue) + Cardinality(Workers))
    /\ worker \in [Workers -> {"get", "post", "returned", "died"}]
    /\ held \in [Workers -> Requests \cup {Sentinel}]
    /\ results \in Seq(RequestResult)
    /\ passed \in BOOLEAN
    /\ faults \in 0..MaxFaults

Init ==
    /\ runner = "schedule"
    /\ scheduled = 0
    /\ queue = << >>
    /\ unfinished = 0
    /\ worker = [w \in Workers |-> "get"]
    /\ held = [w \in Workers |-> Sentinel]
    /\ results = << >>
    /\ passed = FALSE
    /\ faults = 0

(***************************************************************************)
(* The gate of build_report                                                *)
(***************************************************************************)

CountOf(S) == Cardinality({i \in DOMAIN results : results[i] \in S})

Failed == CountOf([request : Requests, success : {FALSE}, slow : BOOLEAN])
Slow == CountOf([request : Requests, success : BOOLEAN, slow : {TRUE}])

\* Mutant of NearestRank: the rank is rounded down.
RankBelow(percent, n) == (percent * n) \div 100

\* The rank percentile() picks in the sorted latencies: rounded up, from 1.
NearestRank(percent, n) == (percent * n + 99) \div 100

\* checks: p95 is within its limit when no slow request is that far down.
Checks(throughput) ==
    LET total == Len(results)
    IN /\ total > 0
       /\ total = RequestCount
       /\ 100 * Failed <= MaxErrorPercent * total
       /\ NearestRank(95, total) <= total - Slow
       /\ throughput

(***************************************************************************)
(* run_load                                                                *)
(***************************************************************************)

\* Mutant of Schedule: an unbounded queue.
ScheduleUnbounded ==
    /\ runner = "schedule"
    /\ queue' = Append(queue, scheduled + 1)
    /\ unfinished' = unfinished + 1
    /\ scheduled' = scheduled + 1
    /\ runner' = IF scheduled' = RequestCount THEN "join" ELSE "schedule"
    /\ UNCHANGED <<worker, held, results, passed, faults>>

\* await queue.put(sequence), once it is due and there is room.
Schedule ==
    /\ runner = "schedule"
    /\ Len(queue) < Capacity
    /\ queue' = Append(queue, scheduled + 1)
    /\ unfinished' = unfinished + 1
    /\ scheduled' = scheduled + 1
    /\ runner' = IF scheduled' = RequestCount THEN "join" ELSE "schedule"
    /\ UNCHANGED <<worker, held, results, passed, faults>>

Sentinels == [i \in 1..Cardinality(Workers) |-> Sentinel]

\* Mutant of Stop: nobody waits for the requests under way.
StopEarly ==
    /\ runner = "join"
    /\ queue = << >>
    /\ queue' = Sentinels
    /\ unfinished' = unfinished + Len(Sentinels)
    /\ runner' = "gather"
    /\ UNCHANGED <<scheduled, worker, held, results, passed, faults>>

\* join returns; the empty queue has room for every sentinel at once.
Stop ==
    /\ runner = "join"
    /\ unfinished = 0
    /\ queue' = queue \o Sentinels
    /\ unfinished' = Len(Sentinels)
    /\ runner' = "gather"
    /\ UNCHANGED <<scheduled, worker, held, results, passed, faults>>

\* Mutant of Report: gather(..., return_exceptions=True).
ReportAnyway ==
    /\ runner = "gather"
    /\ \A w \in Workers : worker[w] \in {"returned", "died"}
    /\ \E throughput \in BOOLEAN : passed' = Checks(throughput)
    /\ runner' = "reported"
    /\ UNCHANGED <<scheduled, queue, unfinished, worker, held, results, faults>>

\* gather returns and the report is built; the elapsed time decides throughput.
Report ==
    /\ runner = "gather"
    /\ \A w \in Workers : worker[w] = "returned"
    /\ \E throughput \in BOOLEAN : passed' = Checks(throughput)
    /\ runner' = "reported"
    /\ UNCHANGED <<scheduled, queue, unfinished, worker, held, results, faults>>

\* gather raises what a worker raised, whatever the others still do.
Raise ==
    /\ runner = "gather"
    /\ \E w \in Workers : worker[w] = "died"
    /\ runner' = "raised"
    /\ UNCHANGED <<scheduled, queue, unfinished, worker, held, results, passed, faults>>

(***************************************************************************)
(* worker                                                                  *)
(***************************************************************************)

\* queue.get, and the return with its task_done when the item is None.
Get(w) ==
    /\ worker[w] = "get"
    /\ queue # << >>
    /\ queue' = Tail(queue)
    /\ held' = [held EXCEPT ![w] = Head(queue)]
    /\ IF Head(queue) = Sentinel
       THEN worker' = [worker EXCEPT ![w] = "returned"] /\ unfinished' = unfinished - 1
       ELSE worker' = [worker EXCEPT ![w] = "post"] /\ UNCHANGED unfinished
    /\ UNCHANGED <<runner, scheduled, results, passed, faults>>

\* _request_once returns a result for every answer, time-out and HTTPError.
Respond(w) ==
    /\ worker[w] = "post"
    /\ \E success, slow \in BOOLEAN :
          results' = Append(results, [request |-> held[w], success |-> success,
                                      slow |-> slow])
    /\ worker' = [worker EXCEPT ![w] = "get"]
    /\ unfinished' = unfinished - 1
    /\ UNCHANGED <<runner, scheduled, queue, held, passed, faults>>

\* Mutant of Escape: task_done is not in a finally.
EscapeUndone(w) ==
    /\ worker[w] = "post"
    /\ faults < MaxFaults
    /\ faults' = faults + 1
    /\ worker' = [worker EXCEPT ![w] = "died"]
    /\ UNCHANGED <<runner, scheduled, queue, unfinished, held, results, passed>>

\* Any other exception ends the worker task; task_done is called all the same.
Escape(w) ==
    /\ worker[w] = "post"
    /\ faults < MaxFaults
    /\ faults' = faults + 1
    /\ worker' = [worker EXCEPT ![w] = "died"]
    /\ unfinished' = unfinished - 1
    /\ UNCHANGED <<runner, scheduled, queue, held, results, passed>>

Next ==
    \/ Schedule \/ Stop \/ Report \/ Raise
    \/ \E w \in Workers : Get(w) \/ Respond(w) \/ Escape(w)

Spec == Init /\ [][Next]_vars

\* The event loop runs every task that can go on, and every request ends: it
\* is answered or one of httpx's time-outs ends it.
FairSpec ==
    /\ Spec
    /\ WF_vars(Schedule \/ Stop \/ Report \/ Raise)
    /\ \A w \in Workers : WF_vars(Get(w)) /\ WF_vars(Respond(w) \/ Escape(w))

(***************************************************************************)
(* Properties                                                              *)
(***************************************************************************)

ResultsOf(r) == {i \in DOMAIN results : results[i].request = r}

Died == {w \in Workers : worker[w] = "died"}

\* Once join has returned, every request was answered exactly once or was lost
\* with the worker that had it, and none is under way.
AnsweredOrLost ==
    runner \in {"gather", "reported", "raised"} =>
        /\ \A r \in Requests :
              IF \E w \in Died : held[w] = r THEN ResultsOf(r) = {}
              ELSE Cardinality(ResultsOf(r)) = 1
        /\ \A w \in Workers : worker[w] # "post"

\* A report exists only for a run without losses: a worker that died leaves no
\* report that could pass.
ReportIsComplete ==
    runner = "reported" =>
        Died = {} /\ \A r \in Requests : Cardinality(ResultsOf(r)) = 1

\* loadtests/README.md: the gate "fails unless all configured error-rate,
\* client P95 latency, throughput, and request-count checks pass" - stated over
\* the requests that were planned: enough succeeded, and at most one in twenty
\* was slow.
PassedIsEarned ==
    passed =>
        LET succeeded == {r \in Requests : \E i \in ResultsOf(r) : results[i].success}
            fast == {r \in Requests : \E i \in ResultsOf(r) : ~results[i].slow}
        IN /\ 100 * (RequestCount - Cardinality(succeeded)) <= MaxErrorPercent * RequestCount
           /\ 20 * (RequestCount - Cardinality(fast)) <= RequestCount

\* A run ends, by a report or by an exception, while one worker is left; when
\* all have died with requests still queued, put and join wait for ever.
RunEnds == <>(runner \in {"reported", "raised"} \/ Died = Workers)
=================================================================================
