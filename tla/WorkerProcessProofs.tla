-------------------------- MODULE WorkerProcessProofs --------------------------
(***************************************************************************)
(* Theorems about WorkerProcess for every interval, age limit, number of   *)
(* retries and time-out, and every bound on the length of a step; and      *)
(* about the two containers of MCProcesses, for which those of             *)
(* ApiProcessProofs count too.                                             *)
(***************************************************************************)
EXTENDS MCProcesses, ApiProcessProofs

(***************************************************************************)
(* The inductive invariant.                                                *)
(***************************************************************************)

\* The clocks: what has run out is 0, and the top of the loop takes no time.
ClockInv ==
    /\ probe <= ProbeInterval
    /\ uptime <= StartPeriod
    /\ pc = "top" => spent = 0
    /\ pc = "boot" => spent <= MaxBoot

\* Since SIGTERM: one message, after which the loop ends, in one iteration.
StopInv ==
    /\ stopEvent => pc # "boot" /\ stopping <= iteration
    /\ ~stopEvent => handled = 0 /\ stopping = 0
    /\ handled <= 1
    /\ handled = 1 => pc \in {"process", "backoff", "top", "gone"}
    /\ pc # "gone" => exit = "none"
    /\ exit = "killed" /\ stopEvent => iteration >= StopTimeout
    /\ failures = Retries => stopEvent \/ pc = "gone"

\* Before the first heartbeat the process starts up, which takes less than the
\* start period or ends with it: one failed probe may count at that moment.
BeforeBeatInv ==
    ~beat /\ pc # "gone" =>
        /\ pc \in {"boot", "top"}
        /\ due = 0 /\ ~jumped /\ ~started
        /\ pc = "boot" => iteration = spent
        /\ uptime = iteration /\ iteration <= MaxBoot
        /\ failures # 0 => failures = 1 /\ probe = ProbeInterval /\ iteration = StartPeriod

\* A heartbeat is older than its iteration by less than the interval.
BeatInv ==
    beat /\ pc # "gone" /\ ~jumped =>
        /\ pc # "boot"
        /\ age >= 0
        /\ due > 0 => age + due = HeartbeatInterval
        /\ age <= iteration + HeartbeatInterval - 1

\* After a failed probe no heartbeat was written since the failures began, or one
\* was written since the last probe, and the next one will find it fresh.
FailuresInv ==
    beat /\ pc # "gone" /\ ~jumped /\ ~stopEvent /\ failures > 0 =>
        \/ age + probe > MaxAge + failures * ProbeInterval
        \/ age + probe <= ProbeInterval

WorkerInv ==
    WorkerTypeOK /\ ClockInv /\ StopInv /\ BeforeBeatInv /\ BeatInv /\ FailuresInv

(***************************************************************************)
(* Every step keeps the invariant, part by part.                           *)
(***************************************************************************)

\* The variables keep their types: after the last failure no probe runs.
LEMMA TypeStep ==
    ASSUME WorkerTypeOK, ClockInv, StopInv, [WorkerNext]_workerVars
    PROVE  WorkerTypeOK'
<1> USE WorkerProcessAssumption DEF loopVars, fileVars, probeVars, stopVars, workerVars,
      WorkerTypeOK, StopInv, Limit
<1>1. CASE Boot
  BY <1>1 DEF Boot, Exit, Goto
<1>2. CASE LoopTop
  <2>1. pc' \in {"receive", "idle"} /\ spent' = 0
    BY <1>2 DEF LoopTop, Goto, NextStep
  <2>2. due' \in {due, HeartbeatInterval} /\ age' \in {age, 0} /\ beat' \in {beat, TRUE}
    BY <1>2 DEF LoopTop
  <2>3. /\ iteration' = 0
        /\ UNCHANGED <<mode, handled, jumped, probeVars, stopVars>>
    BY <1>2 DEF LoopTop
  <2>4. /\ pc' \in DOMAIN Limit \cup {"gone"}
        /\ {spent', iteration', uptime', probe', stopping', handled'} \subseteq Nat
    BY <2>1, <2>3
  <2>5. due' \in 0..HeartbeatInterval /\ age' \in Int
    BY <2>2
  <2>6. {beat', jumped', started', stopEvent'} \subseteq BOOLEAN
    BY <2>2, <2>3
  <2> QED
    BY <2>3, <2>4, <2>5, <2>6
<1>3. CASE HeartbeatFails
  BY <1>3 DEF HeartbeatFails, Exit
<1>4. CASE LeaveLoop
  BY <1>4 DEF LeaveLoop, Exit
<1>5. CASE ReceiveMessage
  BY <1>5 DEF ReceiveMessage, Goto
<1>6. CASE IterationEnds
  BY <1>6 DEF IterationEnds, Goto
<1>7. CASE BackOff
  BY <1>7 DEF BackOff, Goto
<1>8. CASE Terminate
  BY <1>8 DEF Terminate, Stop, Exit
<1>9. CASE Kill
  BY <1>9 DEF Kill, Exit
<1>10. CASE Probe
  <2>1. /\ probe' = ProbeInterval
        /\ started' \in BOOLEAN
        /\ UNCHANGED <<mode, uptime, fileVars>>
    BY <1>10 DEF Probe, is_heartbeat_healthy
  <2>2. failures' \in 0..Retries
    BY <1>10 DEF Probe
  <2>3. /\ pc' \in {pc, "gone"} /\ exit' \in {exit, "killed"}
        /\ stopEvent' \in BOOLEAN
        /\ UNCHANGED <<spent, iteration, due, handled, stopping>>
    BY <1>10 DEF Probe, Stop, Exit
  <2> QED
    BY <2>1, <2>2, <2>3
<1>11. CASE Tick
  BY <1>11 DEF Tick, Down, Limit
<1>12. CASE ClockIsSet
  BY <1>12 DEF ClockIsSet
<1>13. CASE Replace
  <2>1. /\ {spent', iteration', uptime', stopping', handled', probe'} \subseteq Nat
        /\ due' = 0 /\ age' = 0 /\ failures' = 0
    BY <1>13 DEF Replace
  <2>2. /\ pc' = "boot" /\ exit' = "none" /\ mode' = mode
        /\ {beat', jumped', started', stopEvent'} \subseteq BOOLEAN
    BY <1>13 DEF Replace
  <2> QED
    BY <2>1, <2>2
<1>14. CASE UNCHANGED workerVars
  BY <1>14 DEF workerVars
<1> QED
  BY <1>1, <1>2, <1>3, <1>4, <1>5, <1>6, <1>7, <1>8, <1>9, <1>10, <1>11, <1>12, <1>13,
     <1>14 DEF WorkerNext

\* No clock runs past its bound.
LEMMA ClockStep ==
    ASSUME WorkerTypeOK, ClockInv, StopInv, [WorkerNext]_workerVars
    PROVE  ClockInv'
<1> USE WorkerProcessAssumption DEF loopVars, fileVars, probeVars, stopVars, workerVars,
      WorkerTypeOK, ClockInv
<1>1. CASE Boot
  BY <1>1 DEF Boot, Exit, Goto
<1>2. CASE LoopTop
  BY <1>2 DEF LoopTop, Goto, NextStep
<1>3. CASE HeartbeatFails
  BY <1>3 DEF HeartbeatFails, Exit
<1>4. CASE LeaveLoop
  BY <1>4 DEF LeaveLoop, Exit
<1>5. CASE ReceiveMessage
  BY <1>5 DEF ReceiveMessage, Goto
<1>6. CASE IterationEnds
  BY <1>6 DEF IterationEnds, Goto
<1>7. CASE BackOff
  BY <1>7 DEF BackOff, Goto
<1>8. CASE Terminate
  BY <1>8 DEF Terminate, Stop, Exit
<1>9. CASE Kill
  BY <1>9 DEF Kill, Exit
<1>10. CASE Probe
  BY <1>10 DEF Probe, Stop, Exit, is_heartbeat_healthy
<1>11. CASE Tick
  BY <1>11 DEF Tick, Down, Limit
<1>12. CASE ClockIsSet
  BY <1>12 DEF ClockIsSet
<1>13. CASE Replace
  BY <1>13 DEF Replace
<1>14. CASE UNCHANGED workerVars
  BY <1>14 DEF workerVars
<1> QED
  BY <1>1, <1>2, <1>3, <1>4, <1>5, <1>6, <1>7, <1>8, <1>9, <1>10, <1>11, <1>12, <1>13,
     <1>14 DEF WorkerNext

\* SIGTERM reaches the loop within an iteration; only the clock kills it.
LEMMA StopStep ==
    ASSUME WorkerTypeOK, ClockInv, StopInv, [WorkerNext]_workerVars
    PROVE  StopInv'
<1> USE WorkerProcessAssumption DEF loopVars, fileVars, probeVars, stopVars, workerVars,
      WorkerTypeOK, ClockInv, StopInv
<1>1. CASE Boot
  BY <1>1 DEF Boot, Exit, Goto
<1>2. CASE LoopTop
  BY <1>2 DEF LoopTop, Goto, NextStep
<1>3. CASE HeartbeatFails
  BY <1>3 DEF HeartbeatFails, Exit
<1>4. CASE LeaveLoop
  BY <1>4 DEF LeaveLoop, Exit
<1>5. CASE ReceiveMessage
  BY <1>5 DEF ReceiveMessage, Goto
<1>6. CASE IterationEnds
  BY <1>6 DEF IterationEnds, Goto
<1>7. CASE BackOff
  BY <1>7 DEF BackOff, Goto
<1>8. CASE Terminate
  BY <1>8 DEF Terminate, Stop, Exit
<1>9. CASE Kill
  BY <1>9 DEF Kill, Exit
<1>10. CASE Probe
  BY <1>10 DEF Probe, Stop, Exit, is_heartbeat_healthy
<1>11. CASE Tick
  BY <1>11 DEF Tick, Down, Limit
<1>12. CASE ClockIsSet
  BY <1>12 DEF ClockIsSet
<1>13. CASE Replace
  BY <1>13 DEF Replace
<1>14. CASE UNCHANGED workerVars
  BY <1>14 DEF workerVars
<1> QED
  BY <1>1, <1>2, <1>3, <1>4, <1>5, <1>6, <1>7, <1>8, <1>9, <1>10, <1>11, <1>12, <1>13,
     <1>14 DEF WorkerNext

\* Until the first heartbeat only start-up takes time.
LEMMA BeforeBeatStep ==
    ASSUME WorkerTypeOK, ClockInv, StopInv, BeforeBeatInv,
           [WorkerNext]_workerVars
    PROVE  BeforeBeatInv'
<1> USE WorkerProcessAssumption DEF loopVars, fileVars, probeVars, stopVars, workerVars,
      WorkerTypeOK, ClockInv, StopInv, BeforeBeatInv
<1>1. CASE Boot
  BY <1>1 DEF Boot, Exit, Goto
<1>2. CASE LoopTop
  BY <1>2 DEF LoopTop, Goto, NextStep
<1>3. CASE HeartbeatFails
  BY <1>3 DEF HeartbeatFails, Exit
<1>4. CASE LeaveLoop
  BY <1>4 DEF LeaveLoop, Exit
<1>5. CASE ReceiveMessage
  BY <1>5 DEF ReceiveMessage, Goto
<1>6. CASE IterationEnds
  BY <1>6 DEF IterationEnds, Goto
<1>7. CASE BackOff
  BY <1>7 DEF BackOff, Goto
<1>8. CASE Terminate
  BY <1>8 DEF Terminate, Stop, Exit
<1>9. CASE Kill
  BY <1>9 DEF Kill, Exit
<1>10. CASE Probe
  BY <1>10 DEF Probe, Stop, Exit, is_heartbeat_healthy
<1>11. CASE Tick
  BY <1>11 DEF Tick, Down, Limit
<1>12. CASE ClockIsSet
  BY <1>12 DEF ClockIsSet
<1>13. CASE Replace
  BY <1>13 DEF Replace
<1>14. CASE UNCHANGED workerVars
  BY <1>14 DEF workerVars
<1> QED
  BY <1>1, <1>2, <1>3, <1>4, <1>5, <1>6, <1>7, <1>8, <1>9, <1>10, <1>11, <1>12, <1>13,
     <1>14 DEF WorkerNext

\* The file ages with the iteration; what the top of the loop does not renew is
\* younger than the interval.
LEMMA BeatStep ==
    ASSUME WorkerTypeOK, ClockInv, StopInv, BeforeBeatInv, BeatInv,
           [WorkerNext]_workerVars
    PROVE  BeatInv'
<1> USE WorkerProcessAssumption DEF loopVars, fileVars, probeVars, stopVars, workerVars,
      WorkerTypeOK, ClockInv, StopInv, BeforeBeatInv, BeatInv
<1>1. CASE Boot
  BY <1>1 DEF Boot, Exit, Goto
<1>2. CASE LoopTop
  <2>1. CASE due = 0
    <3>1. beat' /\ age' = 0 /\ due' = HeartbeatInterval /\ iteration' = 0 /\ pc' # "boot"
      BY <1>2, <2>1 DEF LoopTop, Goto, NextStep
    <3> QED
      BY <3>1
  <2>2. CASE due # 0
    <3>1. /\ UNCHANGED <<beat, age, due, jumped>> /\ iteration' = 0
          /\ pc = "top" /\ pc' # "boot"
      BY <1>2, <2>2 DEF LoopTop, Goto, NextStep
    <3> QED
      BY <2>2, <3>1
  <2> QED
    BY <2>1, <2>2
<1>3. CASE HeartbeatFails
  BY <1>3 DEF HeartbeatFails, Exit
<1>4. CASE LeaveLoop
  BY <1>4 DEF LeaveLoop, Exit
<1>5. CASE ReceiveMessage
  BY <1>5 DEF ReceiveMessage, Goto
<1>6. CASE IterationEnds
  BY <1>6 DEF IterationEnds, Goto
<1>7. CASE BackOff
  BY <1>7 DEF BackOff, Goto
<1>8. CASE Terminate
  BY <1>8 DEF Terminate, Stop, Exit
<1>9. CASE Kill
  BY <1>9 DEF Kill, Exit
<1>10. CASE Probe
  BY <1>10 DEF Probe, Stop, Exit, is_heartbeat_healthy
<1>11. CASE Tick
  BY <1>11 DEF Tick, Down, Limit
<1>12. CASE ClockIsSet
  BY <1>12 DEF ClockIsSet
<1>13. CASE Replace
  BY <1>13 DEF Replace
<1>14. CASE UNCHANGED workerVars
  BY <1>14 DEF workerVars
<1> QED
  BY <1>1, <1>2, <1>3, <1>4, <1>5, <1>6, <1>7, <1>8, <1>9, <1>10, <1>11, <1>12, <1>13,
     <1>14 DEF WorkerNext

\* Failures in a row are of one heartbeat: after a new one the next probe succeeds.
LEMMA FailuresStep ==
    ASSUME WorkerTypeOK, ClockInv, StopInv, BeforeBeatInv, BeatInv, FailuresInv,
           [WorkerNext]_workerVars
    PROVE  FailuresInv'
<1> USE WorkerProcessAssumption DEF loopVars, fileVars, probeVars, stopVars, workerVars,
      WorkerTypeOK, ClockInv, StopInv, BeforeBeatInv, BeatInv, FailuresInv
<1>1. CASE Boot
  BY <1>1 DEF Boot, Exit, Goto
<1>2. CASE LoopTop
  <2>1. CASE due = 0
    <3>1. age' = 0 /\ probe' = probe
      BY <1>2, <2>1 DEF LoopTop
    <3> QED
      BY <3>1
  <2>2. CASE due # 0
    <3>1. UNCHANGED <<beat, age, jumped, stopEvent, probe, failures>> /\ pc = "top"
      BY <1>2, <2>2 DEF LoopTop
    <3> QED
      BY <3>1
  <2> QED
    BY <2>1, <2>2
<1>3. CASE HeartbeatFails
  BY <1>3 DEF HeartbeatFails, Exit
<1>4. CASE LeaveLoop
  BY <1>4 DEF LeaveLoop, Exit
<1>5. CASE ReceiveMessage
  BY <1>5 DEF ReceiveMessage, Goto
<1>6. CASE IterationEnds
  BY <1>6 DEF IterationEnds, Goto
<1>7. CASE BackOff
  BY <1>7 DEF BackOff, Goto
<1>8. CASE Terminate
  BY <1>8 DEF Terminate, Stop, Exit
<1>9. CASE Kill
  BY <1>9 DEF Kill, Exit
<1>10. CASE Probe
  BY <1>10 DEF Probe, Stop, Exit, is_heartbeat_healthy
<1>11. CASE Tick
  BY <1>11 DEF Tick, Down, Limit
<1>12. CASE ClockIsSet
  BY <1>12 DEF ClockIsSet
<1>13. CASE Replace
  BY <1>13 DEF Replace
<1>14. CASE UNCHANGED workerVars
  BY <1>14 DEF workerVars
<1> QED
  BY <1>1, <1>2, <1>3, <1>4, <1>5, <1>6, <1>7, <1>8, <1>9, <1>10, <1>11, <1>12, <1>13,
     <1>14 DEF WorkerNext

(***************************************************************************)
(* Theorems                                                                *)
(***************************************************************************)

\* A worker starts without a heartbeat, whatever its settings.
LEMMA InitInv == WorkerInit => WorkerInv
<1> SUFFICES ASSUME NEW s \in Settings, WorkerIn(s) PROVE WorkerInv
  BY DEF WorkerInit
<1> USE WorkerProcessAssumption DEF WorkerIn
<1>1. mode \in {"aws", "memory", "invalid"}
  BY DEF ModeOf
<1>2. {spent, iteration, uptime, probe, stopping, handled} \subseteq Nat
  OBVIOUS
<1>3. WorkerTypeOK
  <2>1. pc \in DOMAIN Limit \cup {"gone"} /\ due \in 0..HeartbeatInterval /\ age \in Int
    BY DEF Limit
  <2>2. {beat, jumped, started, stopEvent} \subseteq BOOLEAN
    OBVIOUS
  <2>3. failures \in 0..Retries /\ exit \in {"none", "clean", "crashed", "killed"}
    OBVIOUS
  <2> QED
    BY ONLY <1>1, <1>2, <2>1, <2>2, <2>3 DEF WorkerTypeOK
<1>4. ClockInv /\ StopInv /\ BeforeBeatInv /\ BeatInv /\ FailuresInv
  BY DEF ClockInv, StopInv, BeforeBeatInv, BeatInv, FailuresInv
<1> QED
  BY <1>3, <1>4 DEF WorkerInv

\* The invariant holds in every state of a worker container and its successors.
LEMMA Invariance == WorkerSpec => []WorkerInv
<1>1. WorkerInv /\ [WorkerNext]_workerVars => WorkerInv'
  BY TypeStep, ClockStep, StopStep, BeforeBeatStep, BeatStep, FailuresStep DEF WorkerInv
<1> QED
  BY <1>1, InitInv, PTL DEF WorkerSpec

\* The loop, its heartbeat, the health check and the clocks have their types: in
\* particular failed probes never exceed the retries.
THEOREM WorkerTypeCorrect == WorkerSpec => []WorkerTypeOK
<1>1. WorkerInv => WorkerTypeOK
  BY DEF WorkerInv
<1> QED
  BY <1>1, Invariance, PTL

\* run_durable_worker and stop: after SIGTERM one message at most is handled, and
\* a killed worker was in an iteration as long as the stop time-out.
THEOREM StopsSoon == WorkerSpec => []StopsWithinOneMessage
<1>1. WorkerInv => StopsWithinOneMessage
  BY DEF WorkerInv, StopInv, StopsWithinOneMessage, WorkerTypeOK
<1> QED
  BY <1>1, Invariance, PTL

\* healthcheck.py and the ECS health check: a worker whose clock was not set is
\* replaced for its health only in an iteration that outlasted the age limit and
\* the retries, less one heartbeat interval; never for a slow start, never for
\* many short messages.
THEOREM SlowIsReplaced == WorkerSpec => OnlySlowIsReplaced
<1> DEFINE A == failures' = Retries /\ failures # Retries =>
                    \/ jumped
                    \/ iteration > MaxAge + (Retries - 1) * ProbeInterval - HeartbeatInterval
<1>1. WorkerInv /\ [WorkerNext]_workerVars => [A]_workerVars
  <2>1. SUFFICES ASSUME WorkerInv, [WorkerNext]_workerVars,
                        failures' = Retries, failures # Retries, ~jumped
                 PROVE  iteration > MaxAge + (Retries - 1) * ProbeInterval - HeartbeatInterval
    OBVIOUS
  <2> USE WorkerProcessAssumption DEF WorkerInv, WorkerTypeOK
  <2>2. Probe
    <3>1. CASE Replace
      BY <2>1, <3>1 DEF Replace
    <3>2. CASE UNCHANGED failures
      BY <2>1, <3>2
    <3> QED
      BY <2>1, <3>1, <3>2 DEF WorkerNext, workerVars, probeVars, Boot, LoopTop,
         HeartbeatFails, LeaveLoop, ReceiveMessage, IterationEnds, BackOff, Terminate,
         Kill, Tick, ClockIsSet
  <2>3. /\ pc # "gone" /\ ~stopEvent /\ probe = 0
        /\ ~is_heartbeat_healthy
        /\ started \/ uptime = StartPeriod
        /\ failures = Retries - 1
    BY <2>1, <2>2 DEF Probe
  <2>4. beat
    BY <2>1, <2>3 DEF BeforeBeatInv, ClockInv
  <2>5. age > MaxAge /\ age <= iteration + HeartbeatInterval - 1
    BY <2>1, <2>3, <2>4 DEF BeatInv, is_heartbeat_healthy
  <2>6. age > MaxAge + (Retries - 1) * ProbeInterval
    <3>1. CASE failures = 0
      BY <2>3, <2>5, <3>1
    <3>2. CASE failures > 0
      <4>1. age > MaxAge + failures * ProbeInterval
        BY <2>1, <2>3, <2>4, <2>5, <3>2 DEF FailuresInv
      <4> QED
        BY <2>3, <4>1
    <3> QED
      BY <2>1, <3>1, <3>2
  <2> DEFINE wait == (Retries - 1) * ProbeInterval
  <2>7. wait \in Int /\ age > MaxAge + wait
    BY <2>6
  <2> HIDE DEF wait
  <2>8. iteration > MaxAge + wait - HeartbeatInterval
    BY <2>1, <2>5, <2>7
  <2> QED
    BY <2>8 DEF wait
<1> QED
  BY <1>1, Invariance, PTL DEF WorkerSpec, OnlySlowIsReplaced

(***************************************************************************)
(* The two containers.                                                     *)
(***************************************************************************)

LEMMA ProcessesStart ==
    ASSUME MCInit
    PROVE  ApiInit /\ WorkerInit
<1>1. ApiInit
  <2>1. CASE container = "api"
    BY <2>1 DEF MCInit
  <2>2. CASE container # "api"
    <3> DEFINE e == CHOOSE x \in Environments : Starts(x)
    <3>1. ApiIn(e)
      BY <2>2 DEF MCInit
    <3>2. e \in Environments /\ Starts(e)
      BY SomeEnvironmentStarts
    <3> HIDE DEF e
    <3> QED
      BY <3>1, <3>2 DEF ApiInit
  <2> QED
    BY <2>1, <2>2
<1>2. WorkerInit
  <2>1. CASE container = "worker"
    BY <2>1 DEF MCInit
  <2>2. CASE container # "worker"
    <3> DEFINE s == CHOOSE x \in Settings : TRUE
    <3>1. WorkerIn(s)
      BY <2>2 DEF MCInit
    <3>2. s \in Settings
      <4>1. [backend |-> "aws", store |-> TRUE, collector |-> "none", inRange |-> TRUE]
              \in Settings
        BY DEF Settings
      <4> QED
        BY <4>1
    <3> HIDE DEF s
    <3> QED
      BY <3>1, <3>2 DEF WorkerInit
  <2> QED
    BY <2>1, <2>2
<1> QED
  BY <1>1, <1>2

\* Each container runs as its own specification says, or waits: what is shown of one
\* alone holds of it here.
THEOREM ProcessesRunAlone == MCSpec => ApiSpec /\ WorkerSpec
<1>1. [MCNext]_<<container, apiVars, workerVars>> => [ApiNext]_apiVars /\ [WorkerNext]_workerVars
  BY DEF MCNext
<1> QED
  BY <1>1, ProcessesStart, PTL DEF MCSpec, ApiSpec, WorkerSpec

\* The variables of the API process and of the worker container keep their types, for
\* every number of requests, environment, setting and time-out.
THEOREM ProcessesTypeCorrect == MCSpec => []ProcessesTypeOK
<1>1. ApiTypeOK /\ WorkerTypeOK => ProcessesTypeOK
  BY DEF ProcessesTypeOK
<1> QED
  BY <1>1, ProcessesRunAlone, ApiTypeCorrect, WorkerTypeCorrect, PTL
=================================================================================
