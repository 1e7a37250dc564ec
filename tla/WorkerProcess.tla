------------------------------ MODULE WorkerProcess ------------------------------
(***************************************************************************)
(* One worker container: the loop of run_durable_worker (run_worker with   *)
(* the memory backend), its heartbeat file, the signal handler, the        *)
(* container's health check and ECS, which stops an unhealthy task and     *)
(* starts another.  What a message does to its job is DurableJobs; here it *)
(* only takes time.  Tick is the clock: a step may take any number of      *)
(* ticks up to its bound, and what is due happens before the next tick.    *)
(***************************************************************************)
EXTENDS Integers

CONSTANTS HeartbeatInterval,  \* heartbeat_interval_seconds
          MaxAge,             \* WORKER_HEARTBEAT_MAX_AGE_SECONDS
          ProbeInterval,      \* healthCheck interval, retries and startPeriod
          Retries,
          StartPeriod,
          StopTimeout,        \* stopTimeout: from SIGTERM to SIGKILL
          MaxBoot,            \* bound: start-up
          MaxReceive,         \* bound: one receive, with the SDK's attempts
          MaxBusy,            \* bound: one process, with the SDK's attempts
          MaxBackoff,         \* bound: stop_event.wait(1.0), or one poll interval
          ClockJump           \* bound: how far the wall clock is set, once

ASSUME WorkerProcessAssumption ==
    /\ HeartbeatInterval \in Nat \ {0} /\ ProbeInterval \in Nat \ {0}
    /\ Retries \in Nat \ {0} /\ StartPeriod \in Nat /\ StopTimeout \in Nat
    /\ {MaxBoot, MaxReceive, MaxBusy, MaxBackoff, ClockJump} \subseteq Nat
    /\ MaxAge \in Nat /\ ProbeInterval <= MaxAge
    /\ HeartbeatInterval <= ProbeInterval
    /\ MaxBoot <= StartPeriod
    /\ Retries = 1 => MaxBoot < StartPeriod

VARIABLES mode,       \* job_backend, or what WorkerSettings refuses
          pc,         \* where the process is
          spent,      \* ticks in this step
          iteration,  \* ticks since the top of the loop
          due,        \* ticks until next_heartbeat
          beat,       \* there is a heartbeat file
          age,        \* time.time() - st_mtime
          jumped,     \* the wall clock was set since the task started
          uptime,     \* ticks since the task started, to StartPeriod
          started,    \* a probe has succeeded
          probe,      \* ticks until the next probe
          failures,   \* failed probes in a row
          stopEvent,  \* stop_event
          stopping,   \* ticks since SIGTERM
          handled,    \* messages taken to the processor since SIGTERM
          exit        \* how the process ended

loopVars == <<pc, spent, iteration, due, handled>>
fileVars == <<beat, age, jumped>>
probeVars == <<uptime, started, probe, failures>>
stopVars == <<stopEvent, stopping, exit>>
workerVars == <<mode, loopVars, fileVars, probeVars, stopVars>>

Limit == [boot |-> MaxBoot, top |-> 0, receive |-> MaxReceive, process |-> MaxBusy,
          backoff |-> MaxBackoff, idle |-> MaxBackoff]

WorkerTypeOK ==
    /\ mode \in {"aws", "memory", "invalid"}
    /\ pc \in DOMAIN Limit \cup {"gone"}
    /\ {spent, iteration, uptime, probe, stopping, handled} \subseteq Nat
    /\ due \in 0..HeartbeatInterval
    /\ age \in Int
    /\ {beat, jumped, started, stopEvent} \subseteq BOOLEAN
    /\ failures \in 0..Retries
    /\ exit \in {"none", "clean", "crashed", "killed"}

\* The settings the environment can give: those of another backend, without
\* table, queue or collector, or with a value out of range are refused.
Settings == [backend : {"aws", "memory", "other"}, store : BOOLEAN,
             collector : {"none", "sidecar", "other"}, inRange : BOOLEAN]

ModeOf(s) ==
    IF /\ s.backend \in {"aws", "memory"}
       /\ s.backend = "aws" => s.store /\ s.collector # "none"
       /\ s.collector # "other"
       /\ s.inRange
    THEN s.backend ELSE "invalid"

WorkerIn(s) ==
    /\ mode = ModeOf(s)
    /\ pc = "boot" /\ spent = 0 /\ iteration = 0 /\ due = 0 /\ handled = 0
    /\ beat = FALSE /\ age = 0 /\ jumped = FALSE
    /\ uptime = 0 /\ started = FALSE /\ probe = ProbeInterval /\ failures = 0
    /\ stopEvent = FALSE /\ stopping = 0 /\ exit = "none"
WorkerInit == \E s \in Settings : WorkerIn(s)

Goto(step) == pc' = step /\ spent' = 0

(***************************************************************************)
(* The process                                                             *)
(***************************************************************************)

Exit(how) ==
    /\ pc' = "gone"
    /\ exit' = how
    /\ UNCHANGED <<spent, iteration, due, handled, stopEvent, stopping>>

\* main: settings, clients, signal handlers.
Boot ==
    /\ pc = "boot"
    /\ IF mode = "invalid" THEN Exit("crashed")
       ELSE Goto("top") /\ UNCHANGED <<iteration, due, handled, stopVars>>
    /\ UNCHANGED <<mode, fileVars, probeVars>>

NextStep == IF mode = "aws" THEN "receive" ELSE "idle"

\* Mutant of LoopTop: a heartbeat only when the loop comes round in time.
LoopTopLate ==
    /\ pc = "top"
    /\ ~stopEvent
    /\ IF due = 0 /\ iteration <= HeartbeatInterval
       THEN beat' = TRUE /\ age' = 0 /\ due' = HeartbeatInterval
       ELSE UNCHANGED <<beat, age, due>>
    /\ Goto(NextStep)
    /\ iteration' = 0
    /\ UNCHANGED <<mode, handled, jumped, probeVars, stopVars>>

\* stop_event is read, and a due heartbeat written, at the top only.
LoopTop ==
    /\ pc = "top"
    /\ ~stopEvent
    /\ IF due = 0 THEN beat' = TRUE /\ age' = 0 /\ due' = HeartbeatInterval
       ELSE UNCHANGED <<beat, age, due>>
    /\ Goto(NextStep)
    /\ iteration' = 0
    /\ UNCHANGED <<mode, handled, jumped, probeVars, stopVars>>

\* write_heartbeat raises OSError, which nothing catches.
HeartbeatFails ==
    /\ pc = "top" /\ ~stopEvent /\ due = 0
    /\ Exit("crashed")
    /\ UNCHANGED <<mode, fileVars, probeVars>>

LeaveLoop ==
    /\ pc = "top"
    /\ stopEvent
    /\ Exit("clean")
    /\ UNCHANGED <<mode, fileVars, probeVars>>

\* Mutant of ReceiveMessage: the worker goes on receiving once it has work.
ReceiveMore ==
    /\ pc \in {"receive", "process"}
    /\ Goto("process")
    /\ handled' = IF stopEvent THEN handled + 1 ELSE handled
    /\ UNCHANGED <<mode, iteration, due, fileVars, probeVars, stopVars>>

\* A message that arrives after SIGTERM is processed all the same.
ReceiveMessage ==
    /\ pc = "receive"
    /\ Goto("process")
    /\ handled' = IF stopEvent THEN handled + 1 ELSE handled
    /\ UNCHANGED <<mode, iteration, due, fileVars, probeVars, stopVars>>

\* No message, a malformed one, or the end of process or of the idle wait.
IterationEnds ==
    /\ pc \in {"receive", "process", "idle", "backoff"}
    /\ Goto("top")
    /\ UNCHANGED <<mode, iteration, due, handled, fileVars, probeVars, stopVars>>

\* DurableJobStoreError or an unexpected exception.
BackOff ==
    /\ pc \in {"receive", "process"}
    /\ Goto("backoff")
    /\ UNCHANGED <<mode, iteration, due, handled, fileVars, probeVars, stopVars>>

(***************************************************************************)
(* Signals, the health check and ECS                                       *)
(***************************************************************************)

\* SIGTERM before the handlers are installed ends the process.
Stop ==
    IF pc = "boot" THEN Exit("killed")
    ELSE stopEvent' = TRUE /\ UNCHANGED <<loopVars, stopping, exit>>

\* A deployment, a scale-in or an operator stops the task.
Terminate ==
    /\ pc # "gone" /\ ~stopEvent
    /\ Stop
    /\ UNCHANGED <<mode, fileVars, probeVars>>

Kill ==
    /\ pc # "gone" /\ stopEvent /\ stopping = StopTimeout
    /\ Exit("killed")
    /\ UNCHANGED <<mode, fileVars, probeVars>>

is_heartbeat_healthy == beat /\ 0 <= age /\ age <= MaxAge

\* Mutant of Probe: failures in the start period count, and after SIGTERM too.
ProbeAlways ==
    /\ pc # "gone" /\ probe = 0
    /\ probe' = ProbeInterval
    /\ started' = (started \/ is_heartbeat_healthy)
    /\ failures' = IF is_heartbeat_healthy THEN 0 ELSE failures + 1
    /\ IF failures' = Retries THEN Stop ELSE UNCHANGED <<loopVars, stopVars>>
    /\ UNCHANGED <<mode, uptime, fileVars>>

\* One run of healthcheck.py.  A failure counts once a probe has succeeded or
\* the start period is over; Retries of them in a row stop the task.
Probe ==
    LET counts == ~is_heartbeat_healthy /\ (started \/ uptime = StartPeriod)
    IN /\ pc # "gone" /\ ~stopEvent /\ probe = 0
       /\ probe' = ProbeInterval
       /\ started' = (started \/ is_heartbeat_healthy)
       /\ failures' = IF is_heartbeat_healthy THEN 0
                      ELSE IF counts THEN failures + 1 ELSE failures
       /\ IF failures' = Retries THEN Stop ELSE UNCHANGED <<loopVars, stopVars>>
       /\ UNCHANGED <<mode, uptime, fileVars>>

Down(n) == IF n = 0 THEN 0 ELSE n - 1

Tick ==
    /\ pc # "gone"
    /\ spent < Limit[pc]
    /\ IF stopEvent THEN stopping < StopTimeout ELSE probe > 0
    /\ spent' = spent + 1
    /\ iteration' = iteration + 1
    /\ due' = Down(due)
    /\ age' = IF beat THEN age + 1 ELSE age
    /\ uptime' = IF uptime < StartPeriod THEN uptime + 1 ELSE uptime
    /\ probe' = Down(probe)
    /\ stopping' = IF stopEvent THEN stopping + 1 ELSE stopping
    /\ UNCHANGED <<mode, pc, handled, beat, jumped, started, failures, stopEvent, exit>>

\* The wall clock is set while a heartbeat file is there.
ClockIsSet ==
    /\ pc # "gone" /\ beat /\ ~jumped
    /\ jumped' = TRUE
    /\ age' \in {age - ClockJump, age + ClockJump}
    /\ UNCHANGED <<mode, loopVars, beat, probeVars, stopVars>>

\* ECS keeps the desired count: a new task with an empty volume.
Replace ==
    /\ pc = "gone"
    /\ pc' = "boot" /\ spent' = 0 /\ iteration' = 0 /\ due' = 0 /\ handled' = 0
    /\ beat' = FALSE /\ age' = 0 /\ jumped' = FALSE
    /\ uptime' = 0 /\ started' = FALSE /\ probe' = ProbeInterval /\ failures' = 0
    /\ stopEvent' = FALSE /\ stopping' = 0 /\ exit' = "none"
    /\ UNCHANGED mode

WorkerNext ==
    \/ Boot \/ LoopTop \/ HeartbeatFails \/ LeaveLoop
    \/ ReceiveMessage \/ IterationEnds \/ BackOff
    \/ Terminate \/ Kill \/ Probe \/ Tick \/ ClockIsSet \/ Replace

WorkerSpec == WorkerInit /\ [][WorkerNext]_workerVars

(***************************************************************************)
(* Properties.                                                             *)
(***************************************************************************)

\* The heartbeat is written between messages only (worker.py:174), so a slow
\* model call ages it.  Still ECS replaces a worker for its health only in an
\* iteration that has outlasted the age limit and Retries - 1 more probes,
\* less one heartbeat interval, unless its wall clock was set.
OnlySlowIsReplaced ==
    [][failures' = Retries /\ failures # Retries =>
          \/ jumped
          \/ iteration > MaxAge + (Retries - 1) * ProbeInterval - HeartbeatInterval
      ]_workerVars

\* A worker that was sent SIGTERM takes one more message at most, and is only
\* killed in an iteration that lasted as long as the stop time-out
\* (worker.py:174 reads stop_event between messages only).
StopsWithinOneMessage ==
    /\ handled <= 1
    /\ exit = "killed" /\ stopEvent => iteration >= StopTimeout
===============================================================================
