------------------------------- MODULE ErrorBudget -------------------------------
(***************************************************************************)
(* check_error_budget.py, the gate on the SLO budget before a production   *)
(* release: the metrics of the window are read from CloudWatch page by     *)
(* page and the report is computed from what was read.  Percentages are    *)
(* counted in thousandths.                                                 *)
(***************************************************************************)
EXTENDS Integers, FiniteSets, Functions

CONSTANTS Periods,      \* the periods of the window are 1..Periods
          Counts,       \* requests of one period
          Errors,       \* 5xx responses of one period, the target's or the load balancer's
          Configs       \* the SLOConfigs the command line can give

ASSUME ErrorBudgetAssumption ==
    /\ Periods \in Nat \ {0}
    /\ Counts \subseteq Nat
    /\ Errors \subseteq Nat /\ 0 \in Errors
    /\ Configs \subseteq [windowHours : Nat, periodSeconds : Nat,
                          availability : Nat, compliance : Nat, minimum : Nat]

Queries == {"requests", "target5xx", "elb5xx", "latencyp95"}

VARIABLES config,     \* the SLOConfig of this run
          truth,      \* what CloudWatch has: per query, a value per period or none
          rounded,    \* objectives whose allowance, computed in floating point,
                      \* is less than the exact one
          runner,     \* where main is
          delivered,  \* periods CloudWatch has returned so far
          values      \* collect_metrics: the periods whose data points were read,
                      \* per query; their order counts for nothing

budgetVars == <<config, truth, rounded, runner, delivered, values>>

\* The metrics of a period: 0 is no data point, and a latency is 1 within
\* latency_target_ms and 2 over it.  A target answers only what it was sent.
Truths == {t \in [requests : [1..Periods -> Counts], target5xx : [1..Periods -> Errors],
                  elb5xx : [1..Periods -> Errors], latencyp95 : [1..Periods -> 0..2]] :
              \A p \in 1..Periods : t.requests[p] = 0 => t.latencyp95[p] + t.target5xx[p] = 0}

BudgetTypeOK ==
    /\ config \in Configs
    /\ truth \in Truths
    /\ rounded \subseteq {"availability", "latency"}
    /\ runner \in {"start", "reading", "evaluate", "passed", "failed", "raised"}
    /\ delivered \in 0..Periods
    /\ values \in [Queries -> SUBSET (1..Periods)]
    /\ \A q \in Queries : \A p \in values[q] : truth[q][p] # 0

BudgetOf(c, t, r) ==
    /\ config = c
    /\ truth = t
    /\ rounded = r
    /\ runner = "start"
    /\ delivered = 0
    /\ values = [q \in Queries |-> {}]
BudgetInit ==
    \E c \in Configs, t \in Truths, r \in SUBSET {"availability", "latency"} : BudgetOf(c, t, r)

\* SLOConfig.validate.
Valid(c) ==
    /\ c.windowHours \in 1..720
    /\ c.periodSeconds >= 60 /\ c.periodSeconds % 60 = 0
    /\ 0 < c.availability /\ c.availability < 1000
    /\ 0 < c.compliance /\ c.compliance < 1000
    /\ c.minimum >= 1

Validate ==
    /\ runner = "start"
    /\ runner' = IF Valid(config) THEN "reading" ELSE "raised"
    /\ UNCHANGED <<config, truth, rounded, delivered, values>>

\* Mutant of Returned: a period without data points is read as zero.
ReturnedWithGaps(q, from, to) == from..to

\* The data points CloudWatch returns of a query for the periods from..to.
Returned(q, from, to) == {p \in from..to : truth[q][p] # 0}

\* Mutant of ReadPage: the values of a page replace those of the page before.
ReadPageAlone ==
    \E to \in delivered..Periods, incomplete \in SUBSET Queries, token \in BOOLEAN :
        /\ runner = "reading"
        /\ ~token /\ incomplete = {} => to = Periods
        /\ token => to > delivered
        /\ delivered' = to
        /\ values' = [q \in Queries |-> Returned(q, delivered + 1, to)]
        /\ runner' = IF incomplete # {} THEN "raised"
                     ELSE IF token THEN "reading" ELSE "evaluate"
        /\ UNCHANGED <<config, truth, rounded>>

\* One get_metric_data: the next periods, a status per query and, unless it is
\* the last page, a token.  A status other than Complete ends the run; a last
\* page that is complete has returned the window.
ReadPage ==
    \E to \in delivered..Periods, incomplete \in SUBSET Queries, token \in BOOLEAN :
        /\ runner = "reading"
        /\ ~token /\ incomplete = {} => to = Periods
        /\ token => to > delivered
        /\ delivered' = to
        /\ values' = [q \in Queries |-> values[q] \cup Returned(q, delivered + 1, to)]
        /\ runner' = IF incomplete # {} THEN "raised"
                     ELSE IF token THEN "reading" ELSE "evaluate"
        /\ UNCHANGED <<config, truth, rounded>>

\* boto3 raises.
ReadFails ==
    /\ runner = "reading"
    /\ runner' = "raised"
    /\ UNCHANGED <<config, truth, rounded, delivered, values>>

\* sum of the values read of a query.
Total(q) == SumFunctionOnSet(truth[q], values[q])

\* part <= whole * (1 - target): a budget that is spent exactly is refused when
\* the allowance was rounded down.
Within(part, whole, target, objective) ==
    \/ part = 0
    \/ part * 1000 < whole * (1000 - target)
    \/ part * 1000 = whole * (1000 - target) /\ objective \notin rounded

\* evaluate_budget: the four gates and all of them.
Gates ==
    LET requests == Total("requests")
        errors == Total("target5xx") + Total("elb5xx")
        periods == Cardinality(values["latencyp95"])
        violations == Cardinality({p \in values["latencyp95"] : truth.latencyp95[p] = 2})
    IN [minimum_traffic |-> requests >= config.minimum,
        availability_budget_remaining |->
            requests > 0 /\ Within(errors, requests, config.availability, "availability"),
        latency_observations_present |-> periods > 0,
        latency_budget_remaining |->
            periods > 0 /\ Within(violations, periods, config.compliance, "latency")]

\* The report is evaluated and written; a write that fails ends the run.
EvaluateBudget ==
    /\ runner = "evaluate"
    /\ runner' \in {IF \A g \in DOMAIN Gates : Gates[g] THEN "passed" ELSE "failed", "raised"}
    /\ UNCHANGED <<config, truth, rounded, delivered, values>>

BudgetNext == Validate \/ ReadPage \/ ReadFails \/ EvaluateBudget

BudgetSpec == BudgetInit /\ [][BudgetNext]_budgetVars

(***************************************************************************)
(* Properties.                                                             *)
(***************************************************************************)

Observed == {p \in 1..Periods : truth.latencyp95[p] # 0}
SlowPeriods == {p \in Observed : truth.latencyp95[p] = 2}

\* A release passes on the whole window or not at all: enough traffic, and
\* errors and slow periods within their budgets, whatever pages and statuses
\* CloudWatch returned; and a window clearly within them is not refused.  Only
\* a budget that is spent exactly may go either way (check_error_budget.py:133
\* computes the allowance in floating point).
BudgetVerdictIsEarned ==
    LET requests == SumFunction(truth.requests)
        errors == SumFunction([p \in 1..Periods |-> truth.target5xx[p] + truth.elb5xx[p]])
        slow == Cardinality(SlowPeriods)
        observed == Cardinality(Observed)
        left == requests * (1000 - config.availability) - errors * 1000
        kept == observed * (1000 - config.compliance) - slow * 1000
    IN /\ runner = "passed" =>
             requests >= config.minimum /\ observed > 0 /\ left >= 0 /\ kept >= 0
       /\ runner = "failed" =>
             requests < config.minimum \/ observed = 0 \/ left <= 0 \/ kept <= 0
===============================================================================
