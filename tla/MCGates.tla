--------------------------------- MODULE MCGates ---------------------------------
(***************************************************************************)
(* The gates and audits are separate programs that share nothing: a        *)
(* behaviour is one run of one of them, the others wait at their start.    *)
(***************************************************************************)
EXTENDS ErrorBudget, Evaluation, Audits

\* A program that waits has something it could be started with.
ASSUME SomethingToGate == Counts # {} /\ Configs # {} /\ Suites # {}

VARIABLE gate

SLO(hours, period, availability, compliance, minimum) ==
    [windowHours |-> hours, periodSeconds |-> period, availability |-> availability,
     compliance |-> compliance, minimum |-> minimum]

\* A release's configuration, and one for each way of being refused.
MCConfigs == {SLO(168, 300, 900, 500, 10), SLO(168, 90, 900, 500, 10),
              SLO(721, 300, 900, 500, 10), SLO(168, 300, 1000, 500, 10)}

Limits(accuracy, tools, latency, cost, requireTools) ==
    [accuracy |-> accuracy, tools |-> tools, latency |-> latency, cost |-> cost,
     requireTools |-> requireTools]
Suite(mode, wellFormed, cases, toolCases, thresholds) ==
    [mode |-> mode, wellFormed |-> wellFormed, cases |-> cases, toolCases |-> toolCases,
     thresholds |-> thresholds]
Default == Limits(900000, 950000, 3000, 10, FALSE)

\* Twenty cases are the fewest of which one may be slow and two wrong.
MCSuites == {Suite("ci", {"dataset"}, 20, 0, Default), Suite("ci", Inputs, 3, 1, Default),
             Suite("ci", Inputs, 0, 0, Default),
             Suite("ci", Inputs, 3, 0, Limits(1500000, 0, 3000, 2, FALSE)),
             Suite("staging", {"dataset"}, 5, 0, Default),
             Suite("staging", {"dataset", "origin"}, 5, 0, Default),
             Suite("staging", Inputs, 3, 0, Limits(666667, 0, 3000, 2, FALSE)),
             Suite("staging", Inputs, 3, 2, Limits(0, 0, 3000, 2, FALSE)),
             Suite("production", {"dataset", "origin"}, 5, 0, Default),
             Suite("production", Inputs, 5, 0, Default),
             Suite("production", Inputs, 2, 0, Limits(666667, 0, 3000, 2, TRUE))}

Reply(answer, latency, cost) == [answer |-> answer, latency |-> latency, cost |-> cost]
MCReplies == {Reply("matched", 5, 0), Reply("matched", 3001, 0), Reply("matched", 900, 3),
              Reply("other", 5, 0), Reply("other", 3000, NoCost), Reply("raised", 15000, NoCost)}

Change(actions, moved) == [actions |-> actions, moved |-> moved]
MCResourceChanges == {Change({"no-op"}, FALSE), Change({"no-op"}, TRUE), Change({"read"}, FALSE),
                      Change({"update"}, FALSE), Change({"create", "delete"}, FALSE)}

MCInit ==
    /\ gate \in {"budget", "evaluation", "drift", "diagnostics"}
    /\ IF gate = "budget" THEN BudgetInit
       ELSE BudgetOf(CHOOSE c \in Configs : TRUE, CHOOSE t \in Truths : TRUE, {})
    /\ IF gate = "evaluation" THEN EvaluationInit ELSE EvaluationOf(CHOOSE s \in Suites : TRUE)
    /\ IF gate = "drift" THEN AuditInit ELSE AuditOf(NothingPlanned)
    /\ DiagnosticsInit

MCNext ==
    /\ UNCHANGED gate
    /\ \/ /\ gate = "budget" /\ BudgetNext
          /\ UNCHANGED <<evaluationVars, driftVars, diagnosticsVars>>
       \/ /\ gate = "evaluation" /\ EvaluationNext
          /\ UNCHANGED <<budgetVars, driftVars, diagnosticsVars>>
       \/ /\ gate = "drift" /\ AuditNext
          /\ UNCHANGED <<budgetVars, evaluationVars, diagnosticsVars>>
       \/ /\ gate = "diagnostics" /\ DiagnosticsNext
          /\ UNCHANGED <<budgetVars, evaluationVars, driftVars>>

\* One run of one of the programs.
MCSpec == MCInit /\ [][MCNext]_<<gate, budgetVars, evaluationVars, driftVars, diagnosticsVars>>

GatesTypeOK == BudgetTypeOK /\ EvaluationTypeOK /\ AuditsTypeOK

\* Each of the four reports what it found and passes only on that: see
\* BudgetVerdictIsEarned, PassIsEarned, DriftIsReported and DiagnosticsAreHonest.
VerdictsAreEarned ==
    BudgetVerdictIsEarned /\ PassIsEarned /\ DriftIsReported /\ DiagnosticsAreHonest
===============================================================================
