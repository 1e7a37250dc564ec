--------------------------------- MODULE Audits ---------------------------------
(***************************************************************************)
(* Two scheduled readers of production.  The drift audit                   *)
(* (drift-production.yml with summarize_terraform_plan.py) plans the       *)
(* infrastructure and reports what would change; the diagnostics           *)
(* (collect_production_diagnostics.py) ask AWS for the state of seven      *)
(* parts and report what each answered.                                    *)
(***************************************************************************)
EXTENDS Naturals, Sequences, SequencesExt

CONSTANTS ResourceChanges,  \* the kinds of entry of a plan's resource_changes
          NoReport

ASSUME AuditsAssumption ==
    ResourceChanges \subseteq [actions : SUBSET {"no-op", "read", "create", "update", "delete"},
                               moved : BOOLEAN]

\* No report is neither a report nor a signal.
ASSUME NoReportAssumption == NoReport \notin Nat

VARIABLES plan,     \* what terraform plan finds: resources and whether outputs change
          status,   \* steps.plan.outputs.status, "" when the step did not set it
          audit,    \* the next step of the job
          report,   \* production-drift-report.json
          signal,   \* InfrastructureDriftDetected as published, or NoReport
          broken    \* the steps of the job that failed

driftVars == <<plan, status, audit, report, signal, broken>>

AuditOf(p) ==
    /\ plan = p
    /\ status = ""
    /\ audit = "plan"
    /\ report = NoReport
    /\ signal = NoReport
    /\ broken = {}
AuditInit == \E p \in [resources : SUBSET ResourceChanges, outputs : BOOLEAN] : AuditOf(p)

\* terraform's -detailed-exitcode: 0 is an empty plan, 2 one that is not, which
\* a resource that only moves is enough for.
EmptyPlan ==
    ~plan.outputs /\ \A r \in plan.resources : r.actions \subseteq {"no-op"} /\ ~r.moved

PlanProduction ==
    /\ audit = "plan"
    /\ \/ status' \in {IF EmptyPlan THEN "clean" ELSE "drift", "error"} /\ UNCHANGED broken
       \/ status' = status /\ broken' = broken \cup {"plan"}
    /\ audit' = "report"
    /\ UNCHANGED <<plan, report, signal>>

\* summarize: entries that change nothing or are only read are left out.
Changes(p) == {r \in p.resources : r.actions \notin {{}, {"no-op"}, {"read"}}}
Raises(p, s) ==
    LET hasChanges == Changes(p) # {} \/ p.outputs
    IN (s = "clean" /\ hasChanges) \/ (s = "drift" /\ ~hasChanges)
NothingPlanned == [resources |-> {}, outputs |-> FALSE]
Summary(p, s) == [plan_status |-> s, changes |-> Changes(p), outputs |-> p.outputs,
                  passed |-> s = "clean" /\ Changes(p) = {}]

\* No status is an error; terraform show and the write can fail.
BuildReport ==
    /\ audit = "report"
    /\ LET s == IF status = "" THEN "error" ELSE status
           p == IF s = "error" THEN NothingPlanned ELSE plan
       IN \/ ~Raises(p, s) /\ report' = Summary(p, s) /\ UNCHANGED broken
          \/ UNCHANGED report /\ broken' = broken \cup {"report"}
    /\ audit' = "signal"
    /\ UNCHANGED <<plan, status, signal>>

DriftSignal == IF status = "clean" THEN 0 ELSE 1

\* put-metric-data, which can fail with the data already there.
PublishSignal ==
    /\ audit = "signal"
    /\ \/ signal' = DriftSignal /\ UNCHANGED broken
       \/ signal' \in {signal, DriftSignal} /\ broken' = broken \cup {"signal"}
    /\ audit' = "enforce"
    /\ UNCHANGED <<plan, status, report>>

\* The upload of the report fails without one, and so does the policy.
EnforcePolicy ==
    /\ audit = "enforce"
    /\ audit' = IF broken = {} /\ report # NoReport /\ report.passed THEN "passed" ELSE "failed"
    /\ UNCHANGED <<plan, status, report, signal, broken>>

AuditNext == PlanProduction \/ BuildReport \/ PublishSignal \/ EnforcePolicy

AuditSpec == AuditInit /\ [][AuditNext]_driftVars

\* The job only passes on an empty plan whose report and signal say so; a
\* signal of 0, which is what the alarm reads, only ever stands for an empty
\* plan; and no report claims more or less than the plan: the entries it leaves
\* out are those that change nothing (summarize_terraform_plan.py:57-88).
DriftIsReported ==
    /\ audit = "passed" => EmptyPlan /\ report.passed /\ signal = 0
    /\ signal = 0 => EmptyPlan
    /\ report # NoReport =>
          /\ report.passed => EmptyPlan
          /\ report.plan_status = "drift" =>
                /\ ~EmptyPlan
                /\ \A r \in plan.resources \ report.changes : r.actions \subseteq {"no-op", "read"}

-----------------------------------------------------------------------------
\* collect_production_diagnostics.py

Probes == <<"ecs_services", "cloudwatch_alarms", "inference_queue", "dead_letter_queue",
            "cloudtrail", "backup", "codedeploy">>

\* The AWS calls of a probe; each reads one page and keeps a part of its answer.
Calls(p) == IF p = "backup" THEN 3 ELSE 1

VARIABLES collector,   \* "collecting", "complete", "incomplete", or "raised"
          made,        \* calls of the current probe that were answered
          probes,      \* report["probes"]: the names so far, in order, with "ok"
          errors,      \* report["errors"]
          refused      \* the probes one of whose calls AWS refused

diagnosticsVars == <<collector, made, probes, errors, refused>>

DiagnosticsInit ==
    /\ collector = "collecting"
    /\ made = 0
    /\ probes = << >>
    /\ errors = << >>
    /\ refused = {}

Probe == Probes[Len(probes) + 1]

\* collect_probe: a probe whose calls are all answered, or one that AWS refuses
\* (ClientError, BotoCoreError, KeyError, ValueError); another exception ends
\* the program without a report.
CallAws ==
    /\ collector = "collecting" /\ Len(probes) < Len(Probes)
    /\ \/ /\ made + 1 < Calls(Probe)
          /\ made' = made + 1
          /\ UNCHANGED <<collector, probes, errors, refused>>
       \/ /\ made + 1 = Calls(Probe)
          /\ made' = 0
          /\ probes' = Append(probes, [name |-> Probe, ok |-> TRUE])
          /\ UNCHANGED <<collector, errors, refused>>
       \/ /\ made' = 0
          /\ probes' = Append(probes, [name |-> Probe, ok |-> FALSE])
          /\ errors' = Append(errors, Probe)
          /\ refused' = refused \cup {Probe}
          /\ UNCHANGED collector
       \/ collector' = "raised" /\ UNCHANGED <<made, probes, errors, refused>>

\* The report is written and the exit code tells whether it is complete.
WriteReport ==
    /\ collector = "collecting" /\ Len(probes) = Len(Probes)
    /\ collector' \in {IF errors = << >> THEN "complete" ELSE "incomplete", "raised"}
    /\ UNCHANGED <<made, probes, errors, refused>>

DiagnosticsNext == CallAws \/ WriteReport

DiagnosticsSpec == DiagnosticsInit /\ [][DiagnosticsNext]_diagnosticsVars

\* One refused probe neither hides nor spoils another: a report that is written
\* has all seven, and those it calls ok are those every call of which was
\* answered; the exit code is 0 only if that is all of them.
DiagnosticsAreHonest ==
    collector \in {"complete", "incomplete"} =>
        /\ [i \in DOMAIN probes |-> probes[i].name] = Probes
        /\ \A i \in DOMAIN probes : probes[i].ok = (probes[i].name \notin refused)
        /\ ToSet(errors) = refused
        /\ (collector = "complete") = (refused = {})

AuditsTypeOK ==
    /\ status \in {"", "clean", "drift", "error"}
    /\ audit \in {"plan", "report", "signal", "enforce", "passed", "failed"}
    /\ signal \in {NoReport, 0, 1}
    /\ broken \subseteq {"plan", "report", "signal"}
    /\ collector \in {"collecting", "complete", "incomplete", "raised"}
    /\ made \in 0..2
    /\ errors \in Seq(ToSet(Probes))
===============================================================================
