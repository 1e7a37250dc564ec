------------------------------ MODULE MCProcesses ------------------------------
(***************************************************************************)
(* The two containers share nothing but the queue and the table, which     *)
(* DurableJobs has: a behaviour is that of one of them, the other waits at *)
(* its start.                                                              *)
(***************************************************************************)
EXTENDS ApiProcess, WorkerProcess, TLC

\* The container that waits is one that can start.
ASSUME SomeEnvironmentStarts == \E e \in Environments : Starts(e)

VARIABLE container

Environment(deployed, key, backend, store, collector, llm) ==
    [deployed |-> deployed, key |-> key, backend |-> backend, store |-> store,
     collector |-> collector, llm |-> llm]

\* Deployed with priced Bedrock calls, on AWS without a model, developed with
\* one and without a key, and four that must not start.
MCEnvironments == {Environment(TRUE, TRUE, "aws", TRUE, "sidecar", "priced"),
                   Environment(FALSE, FALSE, "aws", TRUE, "sidecar", "local"),
                   Environment(FALSE, FALSE, "memory", FALSE, "none", "bedrock"),
                   Environment(TRUE, FALSE, "aws", TRUE, "sidecar", "priced"),
                   Environment(TRUE, TRUE, "aws", TRUE, "none", "priced"),
                   Environment(FALSE, TRUE, "aws", FALSE, "none", "bedrock"),
                   Environment(FALSE, TRUE, "memory", FALSE, "other", "local")}

MCInit ==
    /\ container \in {"api", "worker"}
    /\ IF container = "api" THEN ApiInit ELSE ApiIn(CHOOSE e \in Environments : Starts(e))
    /\ IF container = "worker" THEN WorkerInit ELSE WorkerIn(CHOOSE s \in Settings : TRUE)

MCNext ==
    /\ UNCHANGED container
    /\ \/ container = "api" /\ ApiNext /\ UNCHANGED workerVars
       \/ container = "worker" /\ WorkerNext /\ UNCHANGED apiVars

\* One run of one of the containers.
MCSpec == MCInit /\ [][MCNext]_<<container, apiVars, workerVars>>

Symmetry == Permutations(Requests)

ProcessesTypeOK == ApiTypeOK /\ WorkerTypeOK
===============================================================================
